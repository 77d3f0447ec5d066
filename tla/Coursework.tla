------------------------------ MODULE Coursework ------------------------------
(***************************************************************************)
(* One enrolment's coursework: the steps of its lectures                   *)
(* (src/lib/player-actions.ts), its drafting attempts and the marker's     *)
(* desk (src/lib/marking-actions.ts), the module quiz, the drafting side   *)
(* of the programme result (src/lib/programme-result.ts) and the reset     *)
(* that wipes it all (src/lib/candidate-progress.ts).                      *)
(*                                                                         *)
(* Almost nothing is locked: a request is a job that keeps what it has     *)
(* read and writes by row id.  A reset deletes the rows: a request that    *)
(* would write one of them by its id fails, here at once.  A request that  *)
(* dies is one that goes no further: no property here waits for it.        *)
(***************************************************************************)
EXTENDS Naturals, FiniteSets

CONSTANTS
  Lecture,
  WithScenario, WithDrafting,  \* the lectures these are authored for
  QuizLecture,     \* the last lecture of the module, which has a published quiz
  Worker,          \* requests in flight at once, the candidate's and the staff's
  Marker,          \* staff
  MarkerScore,     \* the marks a marker can give, natural numbers
  ModeratorScore,  \* the marks a moderator can give
  None,            \* SQL's NULL where a score could stand
  MaxAttempts,     \* bound on drafting attempts per lecture
  MaxQuizzes       \* bound on quiz attempts

Attempt == 1 .. MaxAttempts
QuizAttempt == 1 .. MaxQuizzes
Score == MarkerScore \cup ModeratorScore
LectureStep == {"content", "scenario", "drafting", "quiz"}
SubmissionState == {"NONE", "DRAFT", "SUBMITTED", "RETURNED", "RESUBMITTED"}
MarkState == {"NONE", "AWAITING", "IN_REVIEW", "RETURNED", "RESUBMISSION_REQUESTED"}
QuizState == {"none", "open", "passed", "failed"}

ASSUME CourseworkAssumption ==
  /\ WithScenario \subseteq Lecture /\ WithDrafting \subseteq Lecture
  /\ QuizLecture \in Lecture
  /\ Score \subseteq Nat /\ None \notin Score
  /\ MaxAttempts \in Nat \ {0} /\ MaxQuizzes \in Nat

VARIABLES
  progress,    \* LectureProgress rows: kept, and the steps and state they hold
  submission,  \* DraftingSubmission rows, one place per lecture and attempt
  mark,        \* the Mark row of an attempt
  quiz,        \* QuizAttempt rows of the module's quiz
  result,      \* the ProgrammeResult row: the scores its drafting average is taken of
  job,         \* what each worker is in the middle of
  \* history, of the time since the last reset:
  returned,    \* the scores a lecture's returned marks have held
  asked        \* the steps for which a request has read a lecture's row

rows == <<progress, submission, mark, quiz, result>>
history == <<returned, asked>>
vars == <<rows, job, history>>

-----------------------------------------------------------------------------
\* deriveLectureSteps and isLectureComplete.
DeriveLectureSteps(l) ==
  {"content"} \cup (IF l \in WithScenario THEN {"scenario"} ELSE {})
              \cup (IF l \in WithDrafting THEN {"drafting"} ELSE {})
              \cup (IF l = QuizLecture THEN {"quiz"} ELSE {})
IsLectureComplete(l, done) == DeriveLectureSteps(l) \subseteq done

NoProgress == [kept |-> FALSE, done |-> {}, state |-> "NOT_STARTED"]
NoMark == [state |-> "NONE", score |-> None, marker |-> None]
NoResult == [l \in Lecture |-> None]
Idle == [pc |-> "idle", lecture |-> None, attempt |-> 0, step |-> "content",
         read |-> NoProgress, score |-> None, seen |-> FALSE, result |-> NoResult]
Begin(pc, l) == [Idle EXCEPT !.pc = pc, !.lecture = l]

Attempts(l) == {n \in Attempt : submission[l, n] # "NONE"}
\* DRAFT, and RESUBMITTED, which is a draft of a later attempt: still being written.
Open(l, n) == submission[l, n] \in {"DRAFT", "RESUBMITTED"}

Writing == {"returning", "moderating"}
\* A transaction that has written a mark holds its row, and with it the attempt's,
\* until it commits.
MarkLocked(l, n) == \E w \in Worker : /\ job[w].pc \in Writing
                                      /\ job[w].lecture = l /\ job[w].attempt = n

-----------------------------------------------------------------------------
Init ==
  /\ progress = [l \in Lecture |-> NoProgress]
  /\ submission = [x \in Lecture \X Attempt |-> "NONE"]
  /\ mark = [x \in Lecture \X Attempt |-> NoMark]
  /\ quiz = [q \in QuizAttempt |-> "none"]
  /\ result = NoResult
  /\ job = [w \in Worker |-> Idle]
  /\ returned = [l \in Lecture |-> {}]
  /\ asked = [l \in Lecture |-> {}]

-----------------------------------------------------------------------------
(* The player.                                                             *)

\* savePosition: the row comes into being IN_PROGRESS; its state is never written
\* again here.
SavePosition(l) ==
  /\ ~progress[l].kept
  /\ progress' = [progress EXCEPT ![l] =
       [NoProgress EXCEPT !.kept = TRUE, !.state = "IN_PROGRESS"]]
  /\ UNCHANGED <<submission, mark, quiz, result, job, history>>

\* completeStep reads the row ...
ReadSteps(w, l, step) ==
  /\ job' = [job EXCEPT ![w] =
       [Begin("step", l) EXCEPT !.step = step, !.read = progress[l]]]
  /\ asked' = [asked EXCEPT ![l] = @ \cup {step}]
  /\ UNCHANGED <<rows, returned>>

\* The player asks for any step that is authored, whatever was submitted or passed ...
CompleteStep(w, l, step) ==
  /\ job[w].pc = "idle"
  /\ step \in DeriveLectureSteps(l)
  /\ ReadSteps(w, l, step)

\* ... and a submission or a passed quiz asks for its own, once it is written.
CompleteAfter(w, l, step) ==
  job' = [job EXCEPT ![w] = [Begin("complete", l) EXCEPT !.step = step]]
CompleteOwnStep(w) ==
  /\ job[w].pc = "complete"
  /\ ReadSteps(w, job[w].lecture, job[w].step)

\* ... and writes back the set it read with the step added, by id or, when it found
\* none, as a new row: then one come into being since is an error.
WriteSteps(w) ==
  /\ job[w].pc = "step"
  /\ LET j == job[w]
         done == j.read.done \cup {j.step}
         admitted == j.read.kept \/ ~progress[j.lecture].kept
     IN progress' = IF ~admitted THEN progress
                    ELSE [progress EXCEPT ![j.lecture] =
                      [kept |-> TRUE, done |-> done,
                       state |-> IF IsLectureComplete(j.lecture, done)
                                 THEN "COMPLETED" ELSE "IN_PROGRESS"]]
  /\ job' = [job EXCEPT ![w] = Idle]
  /\ UNCHANGED <<submission, mark, quiz, result, history>>

\* The autosave while the candidate types: the first one creates attempt 1.  What it
\* writes to an attempt on record is text alone.
Autosave(l) ==
  /\ l \in WithDrafting
  /\ Attempts(l) = {}
  /\ submission' = [submission EXCEPT ![<<l, 1>>] = "DRAFT"]
  /\ UNCHANGED <<progress, mark, quiz, result, job, history>>

\* submitDrafting looks for the latest attempt ...
FindToSubmit(w, l, n) ==
  /\ job[w].pc = "idle"
  /\ n \in Attempts(l) /\ \A k \in Attempts(l) : k <= n
  /\ Open(l, n)
  /\ job' = [job EXCEPT ![w] = [Begin("submit", l) EXCEPT !.attempt = n]]
  /\ UNCHANGED <<rows, history>>

\* ... writes it SUBMITTED by id, and the deadlines as met ...
WriteSubmitted(w) ==
  /\ job[w].pc = "submit"
  /\ LET j == job[w] IN
     /\ ~MarkLocked(j.lecture, j.attempt)
     /\ submission' = [submission EXCEPT ![<<j.lecture, j.attempt>>] = "SUBMITTED"]
     /\ job' = [job EXCEPT ![w].pc = "queue"]
  /\ UNCHANGED <<progress, mark, quiz, result, history>>

\* mutant: what is submitted stays a draft until a marker looks for it
WaitsUnqueued == [NoMark EXCEPT !.state = "NONE"]
Awaiting == [NoMark EXCEPT !.state = "AWAITING"]

\* ... puts it in the marking queue, once: the attempt's mark is unique, a second
\* one is an error ...
CreateMark(w) ==
  /\ job[w].pc = "queue"
  /\ LET j == job[w] IN
     IF mark[j.lecture, j.attempt].state = "NONE"
     THEN /\ mark' = [mark EXCEPT ![<<j.lecture, j.attempt>>] = Awaiting]
          /\ CompleteAfter(w, j.lecture, "drafting")
     ELSE /\ job' = [job EXCEPT ![w] = Idle]
          /\ UNCHANGED mark
  /\ UNCHANGED <<progress, submission, quiz, result, history>>

\* startQuizAttempt hands out the attempt that is open, else makes one.  Nothing keeps
\* two requests that both found none from making one each, however late.
StartQuizAttempt(q) ==
  /\ quiz[q] = "none"
  /\ quiz' = [quiz EXCEPT ![q] = "open"]
  /\ UNCHANGED <<progress, submission, mark, result, job, history>>

\* submitQuizAttempt grades what it was sent, checks that the attempt is open ...
FindToGrade(w, q) ==
  /\ job[w].pc = "idle"
  /\ quiz[q] = "open"
  /\ job' = [job EXCEPT ![w] = [Begin("grade", QuizLecture) EXCEPT !.attempt = q]]
  /\ UNCHANGED <<rows, history>>

\* ... and writes the grade by id, in one transaction with the answers, whatever the
\* attempt holds by then.  Only a pass completes the step.
GradeAttempt(w, pass) ==
  /\ job[w].pc = "grade"
  /\ quiz' = [quiz EXCEPT ![job[w].attempt] = IF pass THEN "passed" ELSE "failed"]
  /\ IF pass THEN CompleteAfter(w, QuizLecture, "quiz")
     ELSE job' = [job EXCEPT ![w] = Idle]
  /\ UNCHANGED <<progress, submission, mark, result, history>>

-----------------------------------------------------------------------------
(* The programme result.                                                   *)

\* mutant: marks that were not returned count
Given(m) == m.score # None

\* Which marks recomputeProgrammeResult averages.
Counts(m) == m.state = "RETURNED"

IsLatestReturned(m, l, n) ==
  Counts(m[l, n]) /\ \A k \in Attempt : Counts(m[l, k]) => k <= n

\* mutant: an average of nothing is zero
LatestOrZero(m, l) ==
  IF \E n \in Attempt : IsLatestReturned(m, l, n)
  THEN m[l, CHOOSE n \in Attempt : IsLatestReturned(m, l, n)].score ELSE 0

\* A lecture counts with its latest returned attempt.
LatestReturned(m, l) ==
  IF \E n \in Attempt : IsLatestReturned(m, l, n)
  THEN m[l, CHOOSE n \in Attempt : IsLatestReturned(m, l, n)].score ELSE None
Results(m) == [l \in Lecture |-> LatestReturned(m, l)]

-----------------------------------------------------------------------------
(* The marker's desk.                                                      *)

\* claimForMarking, under a lock of the row.
ClaimForMarking(s, l, n) ==
  /\ ~MarkLocked(l, n)
  /\ mark[l, n].state \notin {"NONE", "RETURNED"}
  /\ mark[l, n].state = "IN_REVIEW" => mark[l, n].marker = s
  /\ mark' = [mark EXCEPT ![<<l, n>>].state = "IN_REVIEW", ![<<l, n>>].marker = s]
  /\ UNCHANGED <<progress, submission, quiz, result, job, history>>

\* returnMark, requestResubmission and moderateMark read the mark without a lock; the
\* first two refuse one that is RETURNED.
FindMark(w, l, n, pc, score) ==
  /\ job[w].pc = "idle"
  /\ mark[l, n].state # "NONE"
  /\ pc # "moderate" => mark[l, n].state # "RETURNED"
  /\ pc = "request" => n < MaxAttempts
  /\ job' = [job EXCEPT ![w] =
       [Begin(pc, l) EXCEPT !.attempt = n, !.score = score,
          !.seen = (pc = "moderate" /\ mark[l, n].state = "RETURNED")]]
  /\ UNCHANGED <<rows, history>>

\* The mark as the transaction of w leaves it; written by id.  Who marked it matters
\* to nothing once the review is over, and is not kept.
Verdict(j) == [state |-> "RETURNED", score |-> j.score, marker |-> None]
Amended(j) == [mark[j.lecture, j.attempt] EXCEPT !.score = j.score]
Written(j) == [mark EXCEPT ![<<j.lecture, j.attempt>>] =
                 IF j.pc = "moderate" THEN Amended(j) ELSE Verdict(j)]

\* The transaction writes the mark, and recomputes the result from what is committed
\* and its own write.  A moderator does so for a mark that was RETURNED when read.
WriteMark(w) ==
  /\ job[w].pc \in {"return", "moderate"}
  /\ LET j == job[w] IN
     /\ ~MarkLocked(j.lecture, j.attempt)
     /\ job' = [job EXCEPT ![w] =
          [@ EXCEPT !.pc = IF j.pc = "return" THEN "returning" ELSE "moderating",
                    !.result = IF j.pc = "return" \/ j.seen
                               THEN Results(Written(j)) ELSE NoResult]]
  /\ UNCHANGED <<rows, history>>

CommitReturn(w) ==
  /\ job[w].pc = "returning"
  /\ LET j == job[w] IN
     /\ mark' = [mark EXCEPT ![<<j.lecture, j.attempt>>] = Verdict(j)]
     /\ submission' = [submission EXCEPT ![<<j.lecture, j.attempt>>] = "RETURNED"]
     /\ result' = j.result
     /\ returned' = [returned EXCEPT ![j.lecture] = @ \cup {j.score}]
  /\ job' = [job EXCEPT ![w] = Idle]
  /\ UNCHANGED <<progress, quiz, asked>>

CommitModeration(w) ==
  /\ job[w].pc = "moderating"
  /\ LET j == job[w] IN
     /\ mark' = [mark EXCEPT ![<<j.lecture, j.attempt>>] = Amended(j)]
     /\ result' = IF j.seen THEN j.result ELSE result
     /\ returned' = IF mark[j.lecture, j.attempt].state = "RETURNED"
                    THEN [returned EXCEPT ![j.lecture] = @ \cup {j.score}] ELSE returned
  /\ job' = [job EXCEPT ![w] = Idle]
  /\ UNCHANGED <<progress, submission, quiz, asked>>

\* mutant: the attempt number is not unique
NextAttemptAlways(l, n) == TRUE

\* The unique index on enrolment, lecture and attempt number.
NextAttemptAdmitted(l, n) == submission[l, n + 1] = "NONE"

\* requestResubmission: the attempt is RETURNED, the next one opened, in one
\* transaction.  A second request for one attempt is an error.
RequestResubmission(w) ==
  /\ job[w].pc = "request"
  /\ LET l == job[w].lecture
         n == job[w].attempt
     IN /\ ~MarkLocked(l, n)
        /\ IF NextAttemptAdmitted(l, n)
           THEN /\ mark' = [mark EXCEPT ![<<l, n>>] =
                     [state |-> "RESUBMISSION_REQUESTED", score |-> job[w].score,
                      marker |-> None]]
                /\ submission' = [submission EXCEPT ![<<l, n>>] = "RETURNED",
                                                    ![<<l, n + 1>>] = "RESUBMITTED"]
           ELSE UNCHANGED <<mark, submission>>
  /\ job' = [job EXCEPT ![w] = Idle]
  /\ UNCHANGED <<progress, quiz, result, history>>

\* mutant: completeStep writes with an upsert, as savePosition does
Upserted(j) == j.pc \in {"complete", "step"}

\* What gets over a reset: a completeStep that has yet to read the row, or found none.
Survives(j) == j.pc = "complete" \/ (j.pc = "step" /\ ~j.read.kept)

\* resetEnrolmentProgress: waits for the marks being written, then deletes it all.
ResetEnrolmentProgress ==
  /\ \A w \in Worker : job[w].pc \notin Writing
  /\ progress' = [l \in Lecture |-> NoProgress]
  /\ submission' = [x \in Lecture \X Attempt |-> "NONE"]
  /\ mark' = [x \in Lecture \X Attempt |-> NoMark]
  /\ quiz' = [q \in QuizAttempt |-> "none"]
  /\ result' = NoResult
  /\ returned' = [l \in Lecture |-> {}]
  /\ asked' = [l \in Lecture |-> {}]
  /\ job' = [w \in Worker |-> IF Survives(job[w]) THEN job[w] ELSE Idle]

Studying(w) ==
  \/ \E l \in Lecture, n \in Attempt : FindToSubmit(w, l, n)
  \/ \E l \in Lecture, s \in LectureStep : CompleteStep(w, l, s)
  \/ \E q \in QuizAttempt : FindToGrade(w, q)
  \/ \E pass \in BOOLEAN : GradeAttempt(w, pass)
Continuing(w) ==
  CompleteOwnStep(w) \/ WriteSteps(w) \/ WriteSubmitted(w) \/ CreateMark(w)
Marking(w) ==
  \/ \E l \in WithDrafting, n \in Attempt :
       \/ \E s \in MarkerScore, pc \in {"return", "request"} : FindMark(w, l, n, pc, s)
       \/ \E s \in ModeratorScore : FindMark(w, l, n, "moderate", s)
  \/ WriteMark(w) \/ CommitReturn(w) \/ CommitModeration(w) \/ RequestResubmission(w)

Next ==
  \/ \E w \in Worker : Studying(w) \/ Continuing(w) \/ Marking(w)
  \/ \E s \in Marker, l \in WithDrafting, n \in Attempt : ClaimForMarking(s, l, n)
  \/ \E l \in Lecture : SavePosition(l) \/ Autosave(l)
  \/ \E q \in QuizAttempt : StartQuizAttempt(q)
  \/ ResetEnrolmentProgress

Spec == Init /\ [][Next]_vars

-----------------------------------------------------------------------------
ProgressRow == [kept : BOOLEAN, done : SUBSET LectureStep,
                state : {"NOT_STARTED", "IN_PROGRESS", "COMPLETED"}]
MarkRow == [state : MarkState, score : Score \cup {None}, marker : Marker \cup {None}]
ResultRow == [Lecture -> Score \cup {None}]
Job == [pc : {"idle", "complete", "step", "submit", "queue", "grade",
              "return", "moderate", "request"} \cup Writing,
        lecture : Lecture \cup {None}, attempt : Nat, step : LectureStep,
        read : ProgressRow, score : Score \cup {None}, seen : BOOLEAN,
        result : ResultRow]

\* Every variable holds rows of the shape the schema gives it.
TypeOK ==
  /\ progress \in [Lecture -> ProgressRow]
  /\ submission \in [Lecture \X Attempt -> SubmissionState]
  /\ mark \in [Lecture \X Attempt -> MarkRow]
  /\ quiz \in [QuizAttempt -> QuizState]
  /\ result \in ResultRow
  /\ job \in [Worker -> Job]
  /\ returned \in [Lecture -> SUBSET Score]
  /\ asked \in [Lecture -> SUBSET LectureStep]

\* A reset starts a lecture over: whatever requests cross it, every step the lecture
\* shows has been asked for by a request that read its row since then, save one step
\* of one request that had found no row before.  A set of steps read before a reset
\* is never written back (player-actions.ts:170-176).
ResetStartsOver ==
  \A l \in Lecture : \A s, t \in progress[l].done \ asked[l] : s = t

\* Whatever is submitted is in front of the markers: an attempt that reads SUBMITTED
\* has its mark, or the request that is to make it has not come to it, for good if it
\* died there (player-actions.ts:231-247).
SubmittedIsQueued ==
  \A l \in Lecture, n \in Attempt :
    submission[l, n] = "SUBMITTED" =>
      \/ mark[l, n].state # "NONE"
      \/ \E w \in Worker :
           job[w].pc = "queue" /\ job[w].lecture = l /\ job[w].attempt = n

\* The programme result shows for a lecture only a score that a returned mark of it
\* has held since the last reset: never one given in moderation before the return,
\* nor one of the time before (programme-result.ts:29-44).
StandingWasReturned ==
  \A l \in Lecture : result[l] # None => result[l] \in returned[l]

\* "The original attempt is retained": once it is with the markers an attempt is
\* never opened again nor removed, but by a reset, whoever asks for a resubmission
\* of it at the same time (marking-actions.ts:119-124).
AttemptsAreRetained ==
  [][\A l \in Lecture, n \in Attempt :
       submission[l, n] \in {"SUBMITTED", "RETURNED"}
         => \/ submission'[l, n] \in {"SUBMITTED", "RETURNED"}
            \/ \A x \in Lecture \X Attempt : submission'[x] = "NONE"]_vars
=============================================================================
