-------------------------- MODULE Coursework_proofs --------------------------
(***************************************************************************)
(* Theorems of Coursework, for any lectures, steps, requests, scores and   *)
(* bounds: type correctness, that a reset starts over, that what is        *)
(* submitted is queued, that the standing is of returned marks, and that   *)
(* attempts are retained.                                                  *)
(***************************************************************************)
EXTENDS Coursework, TLAPS

Marked == {"return", "moderate", "request"} \cup Writing
Closed(l, n) == submission[l, n] \in {"SUBMITTED", "RETURNED"}
\* Of these steps at most one was not asked for since the last reset.
StartedOver(l, done) == \A s, t \in done \ asked[l] : s = t

\* A row that is not there holds no step.
EmptyTied(row) == row.kept \/ row.done = {}

\* What a request under way names exists, and what it goes on from still holds.
JobTied(j) ==
  /\ j.pc # "idle" => j.lecture \in Lecture
  /\ j.pc \in {"submit", "queue"} \cup Marked => j.attempt \in Attempt
  /\ j.pc = "queue" => Closed(j.lecture, j.attempt)
  /\ j.pc = "request" => j.attempt < MaxAttempts
  /\ j.pc \in Marked => j.score \in Score /\ mark[j.lecture, j.attempt].state # "NONE"
  /\ EmptyTied(j.read)

\* The steps a request read since the last reset, and the one it asked for since.
JobAsked(j) ==
  j.pc = "step" /\ j.read.kept
    => j.step \in asked[j.lecture] /\ StartedOver(j.lecture, j.read.done)

\* The scores a request is about to make the programme result of are scores of
\* returned marks, or the one it returns itself.
JobStanding(j) ==
  j.pc = "returning" \/ (j.pc = "moderating" /\ j.seen) =>
    \A l \in Lecture : j.result[l] # None =>
      \/ j.result[l] \in returned[l]
      \/ /\ l = j.lecture /\ j.result[l] = j.score
         /\ j.pc = "returning" \/ mark[j.lecture, j.attempt].state = "RETURNED"

RowsTied == \A l \in Lecture : EmptyTied(progress[l])
ReturnedKept ==
  \A l \in Lecture, n \in Attempt :
    mark[l, n].state = "RETURNED" => mark[l, n].score \in returned[l]
JobsTied ==
  \A w \in Worker : JobTied(job[w]) /\ JobAsked(job[w]) /\ JobStanding(job[w])
OneWriter ==
  \A v, w \in Worker :
    (/\ job[v].pc \in Writing /\ job[w].pc \in Writing
     /\ job[v].lecture = job[w].lecture /\ job[v].attempt = job[w].attempt)
    => v = w

Tied == RowsTied /\ ReturnedKept
Safe == ResetStartsOver /\ SubmittedIsQueued /\ StandingWasReturned
Inv == TypeOK /\ Tied /\ JobsTied /\ OneWriter /\ Safe

-----------------------------------------------------------------------------
(* What every step but a reset leaves standing.                            *)

\* What is with the markers stays with them, a mark stays a mark, and the record of
\* what was returned and asked for only grows.
Onward ==
  /\ \A l \in Lecture, n \in Attempt : Closed(l, n) => Closed(l, n)'
  /\ \A l \in Lecture, n \in Attempt :
       mark[l, n].state # "NONE" => mark'[l, n].state # "NONE"
  /\ \A l \in Lecture : asked[l] \subseteq asked'[l]
  /\ \A l \in Lecture : returned[l] \subseteq returned'[l]

\* The mark a moderation has written and not yet committed is nobody else's.
Held(v) == job[v].pc = "moderating" =>
             mark'[job[v].lecture, job[v].attempt].state
               = mark[job[v].lecture, job[v].attempt].state

\* A job that stays as it is stays tied, while others go on.
LEMMA JobKept ==
  ASSUME Inv, Onward, NEW v \in Worker, job'[v] = job[v], Held(v)
  PROVE  (JobTied(job[v]) /\ JobAsked(job[v]) /\ JobStanding(job[v]))'
  <1> DEFINE j == job[v]
  <1>0. j \in Job /\ JobTied(j) /\ JobAsked(j) /\ JobStanding(j)
    BY DEF Inv, TypeOK, JobsTied
  <1>1. JobTied(j)'
    BY <1>0 DEF JobTied, Onward, Marked, Writing
  <1>2. JobAsked(j)'
    BY <1>0 DEF JobAsked, StartedOver, JobTied, Onward
  <1>3. JobStanding(j)'
    BY <1>0 DEF JobStanding, Onward, Held, JobTied, Marked, Writing
  <1> QED BY <1>1, <1>2, <1>3

\* One job moves on to j, the others stay.
LEMMA JobsMove ==
  ASSUME Inv, Onward, NEW w \in Worker, NEW j, job' = [job EXCEPT ![w] = j],
         (JobTied(j) /\ JobAsked(j) /\ JobStanding(j))',
         j.pc \notin Writing \/ ~MarkLocked(j.lecture, j.attempt),
         \A v \in Worker \ {w} : Held(v)
  PROVE  (JobsTied /\ OneWriter)'
  <1>0. job'[w] = j /\ \A v \in Worker \ {w} : job'[v] = job[v]
    BY DEF Inv, TypeOK
  <1>1. JobsTied'
    BY <1>0, JobKept DEF JobsTied
  <1>2. OneWriter'
    BY <1>0 DEF OneWriter, MarkLocked, Inv
  <1> QED BY <1>1, <1>2

\* No job moves.
LEMMA JobsStay ==
  ASSUME Inv, Onward, job' = job, \A v \in Worker : Held(v)
  PROVE  (JobsTied /\ OneWriter)'
  BY JobKept DEF JobsTied, OneWriter, Inv

\* Whatever was submitted is queued still, if nothing is newly submitted and whoever
\* was to queue it still is, or has.
LEMMA QueueKept ==
  ASSUME Inv, Onward,
         \A l \in Lecture, n \in Attempt :
           submission'[l, n] = "SUBMITTED" => submission[l, n] = "SUBMITTED",
         \A v \in Worker : job[v].pc = "queue" =>
           \/ job'[v] = job[v]
           \/ mark'[job[v].lecture, job[v].attempt].state # "NONE"
  PROVE  SubmittedIsQueued'
  <1> SUFFICES ASSUME NEW l \in Lecture, NEW n \in Attempt, submission'[l, n] = "SUBMITTED"
               PROVE  \/ mark'[l, n].state # "NONE"
                      \/ \E w \in Worker :
                           job'[w].pc = "queue" /\ job'[w].lecture = l /\ job'[w].attempt = n
    BY DEF SubmittedIsQueued
  <1> SUFFICES ASSUME mark'[l, n].state = "NONE"
               PROVE  \E w \in Worker :
                        job'[w].pc = "queue" /\ job'[w].lecture = l /\ job'[w].attempt = n
    OBVIOUS
  <1>0. submission[l, n] = "SUBMITTED" /\ mark[l, n].state = "NONE"
    BY DEF Onward
  <1>1. PICK v \in Worker : job[v].pc = "queue" /\ job[v].lecture = l /\ job[v].attempt = n
    BY <1>0 DEF Inv, Safe, SubmittedIsQueued
  <1>2. job'[v] = job[v]
    BY <1>1
  <1> QED BY <1>1, <1>2

\* A lecture's progress stays as it is.
LEMMA ProgressKept ==
  ASSUME Inv, Onward, progress' = progress
  PROVE  (RowsTied /\ ResetStartsOver)'
  BY DEF Inv, Tied, Safe, RowsTied, ResetStartsOver, Onward, EmptyTied

LEMMA StandingKept ==
  ASSUME Inv, Onward, result' = result
  PROVE  StandingWasReturned'
  BY DEF Inv, Safe, StandingWasReturned, Onward

-----------------------------------------------------------------------------
(* Steps that read: a job begins, the rows stay.                           *)

\* mark[<<l, n>>] is of the schema's type.
LEMMA RowTypes ==
  ASSUME TypeOK, NEW l \in Lecture, NEW n \in Attempt
  PROVE  mark[l, n] \in MarkRow /\ submission[l, n] \in SubmissionState
  BY DEF TypeOK

\* A function updated at one argument keeps its type.
LEMMA UpdateType ==
  ASSUME NEW S, NEW T, NEW f \in [S -> T], NEW s, NEW t \in T
  PROVE  [f EXCEPT ![s] = t] \in [S -> T]
  OBVIOUS

LEMMA IdleType == Idle \in Job /\ JobTied(Idle) /\ JobAsked(Idle) /\ JobStanding(Idle)
  BY DEF Idle, Job, NoProgress, ProgressRow, NoResult, ResultRow, LectureStep, JobTied,
         JobAsked, JobStanding, EmptyTied, Marked, Writing

\* A job moves on without a write; it may ask for a step.
LEMMA JobMoves ==
  ASSUME Inv, NEW w \in Worker, NEW j \in Job, JobTied(j), JobStanding(j), JobAsked(j)',
         j.pc \notin Writing \/ ~MarkLocked(j.lecture, j.attempt),
         job[w].pc # "queue", job' = [job EXCEPT ![w] = j], UNCHANGED <<rows, returned>>,
         asked' \in [Lecture -> SUBSET LectureStep],
         \A l \in Lecture : asked[l] \subseteq asked'[l]
  PROVE  Inv'
  <1> USE DEF rows
  <1>1. TypeOK'
    BY UpdateType DEF Inv, TypeOK
  <1>2. Onward /\ \A v \in Worker : Held(v)
    BY DEF Onward, Held, Closed
  <1>3. (JobsTied /\ OneWriter)'
    <2>1. (JobTied(j) /\ JobAsked(j) /\ JobStanding(j))'
      BY DEF JobTied, JobStanding, Closed
    <2> QED BY <2>1, <1>2, JobsMove
  <1>4. SubmittedIsQueued'
    BY <1>2, QueueKept DEF Inv, TypeOK
  <1>5. (ReturnedKept /\ RowsTied /\ ResetStartsOver /\ StandingWasReturned)'
    BY <1>2, ProgressKept, StandingKept DEF Inv, Tied, ReturnedKept
  <1> QED BY <1>1, <1>3, <1>4, <1>5 DEF Inv, Tied, Safe

LEMMA ReadStep ==
  ASSUME Inv, NEW w \in Worker, NEW j \in Job, JobTied(j), JobAsked(j), JobStanding(j),
         j.pc \notin Writing \/ ~MarkLocked(j.lecture, j.attempt),
         job[w].pc # "queue", job' = [job EXCEPT ![w] = j], UNCHANGED <<rows, history>>
  PROVE  Inv'
  <1>1. JobAsked(j)'
    BY DEF JobAsked, StartedOver, history
  <1>2. /\ asked' \in [Lecture -> SUBSET LectureStep]
        /\ \A l \in Lecture : asked[l] \subseteq asked'[l]
    BY DEF history, Inv, TypeOK
  <1> QED BY <1>1, <1>2, JobMoves DEF history

\* A request asks for a step and reads the row.
LEMMA ReadStepsInv ==
  ASSUME Inv, NEW w \in Worker, job[w].pc # "queue", NEW l \in Lecture,
         NEW step \in LectureStep, ReadSteps(w, l, step)
  PROVE  Inv'
  <1> PICK j : j = [Begin("step", l) EXCEPT !.step = step, !.read = progress[l]]
    OBVIOUS
  <1>1. job' = [job EXCEPT ![w] = j] /\ UNCHANGED <<rows, returned>>
    BY DEF ReadSteps
  <1>2. j \in Job
    BY IdleType DEF Begin, Job, Inv, TypeOK
  <1>3. /\ j.pc = "step" /\ j.lecture = l /\ j.read = progress[l] /\ j.step = step
        /\ JobTied(j) /\ JobStanding(j)
    BY DEF Begin, Idle, JobTied, JobStanding, Marked, Writing, Inv, Tied, RowsTied
  <1>4. /\ asked' \in [Lecture -> SUBSET LectureStep] /\ step \in asked'[l]
        /\ \A x \in Lecture : asked[x] \subseteq asked'[x]
    BY DEF ReadSteps, Inv, TypeOK
  <1>5. JobAsked(j)'
    BY <1>3, <1>4 DEF JobAsked, StartedOver, Inv, Safe, ResetStartsOver
  <1> QED BY <1>1, <1>2, <1>3, <1>4, <1>5, JobMoves DEF Writing

\* A request that is to ask for a step has read nothing yet.
LEMMA CompleteType ==
  ASSUME NEW l \in Lecture, NEW step \in LectureStep
  PROVE  LET j == [Begin("complete", l) EXCEPT !.step = step]
         IN  j \in Job /\ JobTied(j) /\ JobAsked(j) /\ JobStanding(j)
  BY IdleType DEF Begin, Idle, Job, JobTied, JobAsked, JobStanding, Marked, Writing

\* Attempts are numbered.
LEMMA AttemptNumbers ==
  /\ \A n \in Attempt : n \in Nat /\ n > 0 /\ n <= MaxAttempts
  /\ \A q \in QuizAttempt : q \in Nat
  BY CourseworkAssumption DEF Attempt, QuizAttempt

LEMMA CompleteStepInv ==
  ASSUME Inv, NEW w \in Worker, NEW l \in Lecture, NEW step \in LectureStep,
         CompleteStep(w, l, step)
  PROVE  Inv'
  BY ReadStepsInv DEF CompleteStep

LEMMA CompleteOwnStepInv ==
  ASSUME Inv, NEW w \in Worker, CompleteOwnStep(w)
  PROVE  Inv'
  <1>1. job[w].lecture \in Lecture /\ job[w].step \in LectureStep /\ job[w].pc = "complete"
    BY DEF CompleteOwnStep, Inv, TypeOK, Job, JobsTied, JobTied
  <1> QED BY <1>1, ReadStepsInv DEF CompleteOwnStep

LEMMA FindToSubmitInv ==
  ASSUME Inv, NEW w \in Worker, NEW l \in Lecture, NEW n \in Attempt, FindToSubmit(w, l, n)
  PROVE  Inv'
  <1> DEFINE j == [Begin("submit", l) EXCEPT !.attempt = n]
  <1>1. j \in Job
    BY IdleType, AttemptNumbers DEF Begin, Job
  <1>2. j.pc = "submit" /\ JobTied(j) /\ JobAsked(j) /\ JobStanding(j)
    BY IdleType DEF Begin, Idle, JobTied, JobAsked, JobStanding, Marked, Writing
  <1> QED BY <1>1, <1>2, ReadStep DEF FindToSubmit, Writing

LEMMA FindToGradeInv ==
  ASSUME Inv, NEW w \in Worker, NEW q \in QuizAttempt, FindToGrade(w, q)
  PROVE  Inv'
  <1> DEFINE j == [Begin("grade", QuizLecture) EXCEPT !.attempt = q]
  <1>1. j \in Job
    BY IdleType, AttemptNumbers, CourseworkAssumption DEF Begin, Job
  <1>2. j.pc = "grade" /\ JobTied(j) /\ JobAsked(j) /\ JobStanding(j)
    BY IdleType, CourseworkAssumption
    DEF Begin, Idle, JobTied, JobAsked, JobStanding, Marked, Writing
  <1> QED BY <1>1, <1>2, ReadStep DEF FindToGrade, Writing

LEMMA FindMarkInv ==
  ASSUME Inv, NEW w \in Worker, NEW l \in Lecture, NEW n \in Attempt,
         NEW pc \in {"return", "moderate", "request"}, NEW score \in Score,
         FindMark(w, l, n, pc, score)
  PROVE  Inv'
  <1> DEFINE j == [Begin(pc, l) EXCEPT !.attempt = n, !.score = score,
                     !.seen = (pc = "moderate" /\ mark[l, n].state = "RETURNED")]
  <1>1. j \in Job
    BY IdleType, AttemptNumbers DEF Begin, Job
  <1>2. j.pc = pc /\ JobTied(j) /\ JobAsked(j) /\ JobStanding(j)
    BY IdleType
    DEF Begin, Idle, JobTied, JobAsked, JobStanding, Marked, Writing, FindMark
  <1> QED BY <1>1, <1>2, ReadStep DEF FindMark, Writing

-----------------------------------------------------------------------------
(* The programme result.                                                   *)

\* A lecture's score is the score of one of its returned marks.
LEMMA LatestIsReturned ==
  ASSUME NEW m, NEW l, LatestReturned(m, l) # None
  PROVE  \E n \in Attempt : m[l, n].state = "RETURNED" /\ LatestReturned(m, l) = m[l, n].score
  <1>1. \E n \in Attempt : IsLatestReturned(m, l, n)
    BY DEF LatestReturned
  <1> DEFINE n == CHOOSE n \in Attempt : IsLatestReturned(m, l, n)
  <1>2. n \in Attempt /\ IsLatestReturned(m, l, n)
    BY <1>1
  <1>3. LatestReturned(m, l) = m[l, n].score
    BY <1>1 DEF LatestReturned
  <1>4. m[l, n].state = "RETURNED"
    BY <1>2 DEF IsLatestReturned, Counts
  <1> HIDE DEF n
  <1> QED BY <1>2, <1>3, <1>4

LEMMA ResultsType ==
  ASSUME NEW m \in [Lecture \X Attempt -> MarkRow]
  PROVE  Results(m) \in ResultRow
  <1> SUFFICES ASSUME NEW l \in Lecture PROVE LatestReturned(m, l) \in Score \cup {None}
    BY DEF Results, ResultRow
  <1>1. CASE LatestReturned(m, l) = None
    BY <1>1
  <1>2. CASE LatestReturned(m, l) # None
    <2>1. PICK n \in Attempt : LatestReturned(m, l) = m[l, n].score
      BY <1>2, LatestIsReturned
    <2> QED BY <2>1 DEF MarkRow
  <1> QED BY <1>1, <1>2

\* What a return or a moderation recomputes are scores of returned marks, or its own.
LEMMA WriteMarkInv ==
  ASSUME Inv, NEW w \in Worker, WriteMark(w)
  PROVE  Inv'
  <1> DEFINE j == job[w]
             l == j.lecture
             n == j.attempt
             r == IF j.pc = "return" \/ j.seen THEN Results(Written(j)) ELSE NoResult
             k == [j EXCEPT !.pc = IF j.pc = "return" THEN "returning" ELSE "moderating",
                            !.result = r]
  <1>0. /\ j \in Job /\ JobTied(j) /\ j.pc \in {"return", "moderate"}
        /\ l \in Lecture /\ n \in Attempt /\ j.score \in Score
        /\ mark[l, n] \in MarkRow
    BY DEF WriteMark, Inv, TypeOK, JobsTied, JobTied, Marked
  <1>1. Written(j) \in [Lecture \X Attempt -> MarkRow]
    <2>1. Amended(j) \in MarkRow /\ Verdict(j) \in MarkRow
      BY <1>0 DEF Amended, Verdict, MarkRow, MarkState
    <2> QED BY <2>1, UpdateType DEF Written, Inv, TypeOK
  <1>2. r \in ResultRow
    BY <1>1, ResultsType DEF NoResult, ResultRow
  <1> HIDE DEF r
  <1>3. k \in Job
    BY <1>0, <1>2 DEF Job, Writing
  <1>4. JobTied(k) /\ JobAsked(k)
    <2>1. /\ k.pc \in Writing /\ k.lecture = l /\ k.attempt = n /\ k.score = j.score
          /\ k.read = j.read
      BY <1>0 DEF Job, Writing
    <2> HIDE DEF k
    <2> QED BY <2>1, <1>0 DEF JobTied, JobAsked, Marked, Writing
  <1>5. JobStanding(k)
    <2> SUFFICES ASSUME NEW x \in Lecture, r[x] # None, j.pc = "return" \/ j.seen
                 PROVE  \/ r[x] \in returned[x]
                        \/ /\ x = l /\ r[x] = j.score
                           /\ j.pc = "return" \/ mark[l, n].state = "RETURNED"
      BY <1>0 DEF JobStanding, Job
    <2>1. PICK y \in Attempt : /\ Written(j)[x, y].state = "RETURNED"
                               /\ r[x] = Written(j)[x, y].score
      BY LatestIsReturned DEF r, Results
    <2>2. CASE <<x, y>> = <<l, n>>
      <3>1. Written(j)[x, y] = IF j.pc = "moderate" THEN Amended(j) ELSE Verdict(j)
        BY <2>2, <1>0 DEF Written, Inv, TypeOK
      <3>2. Written(j)[x, y].score = j.score
        <4>1. Amended(j).score = j.score /\ Verdict(j).score = j.score
          BY <1>0 DEF Amended, Verdict, MarkRow
        <4> QED BY <4>1, <3>1
      <3>3. j.pc = "return" \/ mark[l, n].state = "RETURNED"
        <4>1. Amended(j).state = mark[l, n].state
          BY <1>0 DEF Amended, MarkRow
        <4> QED BY <4>1, <3>1, <2>1, <1>0
      <3>4. x = l
        BY <2>2
      <3> QED BY <2>1, <3>2, <3>3, <3>4
    <2>3. CASE <<x, y>> # <<l, n>>
      <3>1. Written(j)[x, y] = mark[x, y]
        BY <2>3, <1>0 DEF Written, Inv, TypeOK
      <3> QED BY <3>1, <2>1 DEF Inv, Tied, ReturnedKept
    <2> QED BY <2>2, <2>3
  <1>6. job' = [job EXCEPT ![w] = k] /\ UNCHANGED <<rows, history>> /\ j.pc # "queue"
    BY <1>0 DEF WriteMark, r
  <1>7. ~MarkLocked(k.lecture, k.attempt)
    BY <1>0 DEF WriteMark, Job
  <1> HIDE DEF k
  <1> QED BY <1>3, <1>4, <1>5, <1>6, <1>7, ReadStep

-----------------------------------------------------------------------------
(* The player's writes.                                                    *)

\* A step that leaves the jobs, the attempts and the marks' states alone.
LEMMA SavePositionInv ==
  ASSUME Inv, NEW l \in Lecture, SavePosition(l)
  PROVE  Inv'
  <1> USE DEF SavePosition, history
  <1> DEFINE row == [NoProgress EXCEPT !.kept = TRUE, !.state = "IN_PROGRESS"]
  <1>1. row \in ProgressRow /\ row.done = {} /\ EmptyTied(row)
    BY DEF NoProgress, ProgressRow, EmptyTied
  <1>2. progress' = [progress EXCEPT ![l] = row]
    OBVIOUS
  <1> HIDE DEF row
  <1>3. TypeOK'
    BY <1>1, <1>2, UpdateType DEF Inv, TypeOK
  <1>4. Onward /\ \A v \in Worker : Held(v)
    BY DEF Onward, Held, Closed
  <1>5. (RowsTied /\ ResetStartsOver)'
    <2>1. \A x \in Lecture : progress'[x] \in {progress[x], row}
      BY <1>2 DEF Inv, TypeOK
    <2>2. RowsTied'
      BY <2>1, <1>1 DEF Inv, Tied, RowsTied, EmptyTied
    <2>3. ResetStartsOver'
      BY <2>1, <1>1 DEF Inv, Safe, ResetStartsOver
    <2> QED BY <2>2, <2>3
  <1>6. (JobsTied /\ OneWriter /\ SubmittedIsQueued)'
    BY <1>4, JobsStay, QueueKept
  <1>7. (ReturnedKept /\ StandingWasReturned)'
    BY <1>4, StandingKept DEF Inv, Tied, ReturnedKept
  <1> QED BY <1>3, <1>5, <1>6, <1>7 DEF Inv, Tied, Safe

LEMMA AutosaveInv ==
  ASSUME Inv, NEW l \in Lecture, Autosave(l)
  PROVE  Inv'
  <1> USE DEF Autosave, history
  <1>1. 1 \in Attempt
    BY CourseworkAssumption DEF Attempt
  <1>2. submission[l, 1] = "NONE"
    BY <1>1 DEF Attempts
  <1>3. \A x \in Lecture, n \in Attempt :
          submission'[x, n] = IF <<x, n>> = <<l, 1>> THEN "DRAFT" ELSE submission[x, n]
    BY DEF Inv, TypeOK
  <1>4. TypeOK'
    BY UpdateType DEF Inv, TypeOK, SubmissionState
  <1>5. Onward /\ \A v \in Worker : Held(v)
    BY <1>2, <1>3 DEF Onward, Held, Closed
  <1>6. (JobsTied /\ OneWriter)'
    BY <1>5, JobsStay
  <1>8. SubmittedIsQueued'
    <2>1. \A x \in Lecture, n \in Attempt :
            submission'[x, n] = "SUBMITTED" => submission[x, n] = "SUBMITTED"
      <3> SUFFICES ASSUME NEW x \in Lecture, NEW n \in Attempt, submission'[x, n] = "SUBMITTED"
                   PROVE  submission[x, n] = "SUBMITTED"
        OBVIOUS
      <3>1. submission'[x, n] = submission[x, n] \/ submission'[x, n] = "DRAFT"
        BY <1>3
      <3> QED BY <3>1
    <2>2. job' = job
      OBVIOUS
    <2> HIDE DEF Autosave
    <2> QED BY <2>1, <2>2, <1>5, QueueKept
  <1>7. (RowsTied /\ ResetStartsOver /\ ReturnedKept /\ StandingWasReturned)'
    BY <1>5, ProgressKept, StandingKept DEF Inv, Tied, ReturnedKept
  <1> QED BY <1>4, <1>6, <1>7, <1>8 DEF Inv, Tied, Safe

LEMMA StartQuizAttemptInv ==
  ASSUME Inv, NEW q \in QuizAttempt, StartQuizAttempt(q)
  PROVE  Inv'
  <1> USE DEF StartQuizAttempt, history
  <1>1. TypeOK'
    BY UpdateType DEF Inv, TypeOK, QuizState
  <1>2. Onward /\ \A v \in Worker : Held(v)
    BY DEF Onward, Held, Closed
  <1>3. (JobsTied /\ OneWriter /\ SubmittedIsQueued)'
    BY <1>2, JobsStay, QueueKept
  <1>4. (RowsTied /\ ResetStartsOver /\ ReturnedKept /\ StandingWasReturned)'
    BY <1>2, ProgressKept, StandingKept DEF Inv, Tied, ReturnedKept
  <1> QED BY <1>1, <1>3, <1>4 DEF Inv, Tied, Safe

\* A request that found a row writes what it read and the step it asked for since the
\* reset; one that found none writes one step.
LEMMA WriteStepsInv ==
  ASSUME Inv, NEW w \in Worker, WriteSteps(w)
  PROVE  Inv'
  <1> USE DEF WriteSteps
  <1> DEFINE j == job[w]
             l == j.lecture
             done == j.read.done \cup {j.step}
             row == [kept |-> TRUE, done |-> done,
                     state |-> IF IsLectureComplete(l, done) THEN "COMPLETED" ELSE "IN_PROGRESS"]
             admitted == j.read.kept \/ ~progress[l].kept
  <1>1. /\ j \in Job /\ JobTied(j) /\ JobAsked(j) /\ j.pc = "step" /\ l \in Lecture
    BY DEF Inv, TypeOK, JobsTied, JobTied
  <1>2. row \in ProgressRow /\ EmptyTied(row) /\ row.done = done
    BY <1>1 DEF Job, ProgressRow, EmptyTied
  <1>3. progress' = IF admitted THEN [progress EXCEPT ![l] = row] ELSE progress
    OBVIOUS
  <1>4. job' = [job EXCEPT ![w] = Idle] /\ UNCHANGED <<submission, mark, quiz, result, history>>
    OBVIOUS
  <1> HIDE DEF WriteSteps
  <1>5. Onward /\ \A v \in Worker : Held(v)
    BY <1>4 DEF Onward, Held, Closed, history
  <1>6. StartedOver(l, done)
    <2>1. CASE j.read.kept
      BY <1>1, <2>1 DEF JobAsked, StartedOver
    <2>2. CASE ~j.read.kept
      <3>1. done = {j.step}
        BY <1>1, <2>2 DEF JobTied, EmptyTied
      <3> QED BY <3>1 DEF StartedOver
    <2> QED BY <2>1, <2>2
  <1> HIDE DEF row, done, admitted
  <1>7. TypeOK'
    BY <1>1, <1>2, <1>3, <1>4, IdleType, UpdateType DEF Inv, TypeOK, history
  <1>8. RowsTied'
    <2> SUFFICES ASSUME NEW x \in Lecture PROVE EmptyTied(progress'[x])
      BY DEF RowsTied, EmptyTied
    <2>1. progress'[x] \in {progress[x], row}
      BY <1>3 DEF Inv, TypeOK
    <2> QED BY <2>1, <1>2 DEF Inv, Tied, RowsTied
  <1>9. ResetStartsOver'
    <2> SUFFICES ASSUME NEW x \in Lecture PROVE StartedOver(x, progress'[x].done)
      BY <1>4 DEF ResetStartsOver, StartedOver, history
    <2>1. CASE progress'[x] = progress[x]
      BY <2>1 DEF Inv, Safe, ResetStartsOver, StartedOver
    <2>2. CASE progress'[x] # progress[x]
      <3>1. x = l /\ progress'[x].done = done
        BY <2>2, <1>2, <1>3 DEF Inv, TypeOK
      <3> QED BY <3>1, <1>6
    <2> QED BY <2>1, <2>2
  <1>10. (JobsTied /\ OneWriter)'
    <2>1. (JobTied(Idle) /\ JobAsked(Idle) /\ JobStanding(Idle))'
      BY DEF Idle, JobTied, JobAsked, JobStanding, EmptyTied, NoProgress, Marked, Writing
    <2>2. Idle.pc \notin Writing
      BY DEF Idle, Writing
    <2> QED BY <2>1, <2>2, <1>4, <1>5, JobsMove
  <1>11. SubmittedIsQueued'
    BY <1>1, <1>4, <1>5, QueueKept DEF Inv, TypeOK
  <1>12. (ReturnedKept /\ StandingWasReturned)'
    BY <1>4, <1>5, StandingKept DEF Inv, Tied, ReturnedKept, history
  <1> QED BY <1>7, <1>8, <1>9, <1>10, <1>11, <1>12 DEF Inv, Tied, Safe

\* What w has to do next is tied whatever the rows, when it is nothing.
LEMMA IdleNext == (JobTied(Idle) /\ JobAsked(Idle) /\ JobStanding(Idle))' /\ Idle.pc \notin Writing
  BY DEF Idle, JobTied, JobAsked, JobStanding, EmptyTied, NoProgress, Marked, Writing

LEMMA WriteSubmittedInv ==
  ASSUME Inv, NEW w \in Worker, WriteSubmitted(w)
  PROVE  Inv'
  <1> DEFINE j == job[w]
             l == j.lecture
             n == j.attempt
  <1>0. PICK k : k = [j EXCEPT !.pc = "queue"]
    OBVIOUS
  <1>1. /\ j \in Job /\ JobTied(j) /\ j.pc = "submit" /\ l \in Lecture /\ n \in Attempt
        /\ ~MarkLocked(l, n)
    BY DEF WriteSubmitted, Inv, TypeOK, JobsTied, JobTied
  <1>2. /\ submission' = [submission EXCEPT ![<<l, n>>] = "SUBMITTED"]
        /\ job' = [job EXCEPT ![w] = k]
        /\ UNCHANGED <<progress, mark, quiz, result, returned, asked>>
    BY <1>0 DEF WriteSubmitted, history
  <1>3. /\ k \in Job /\ k.pc = "queue" /\ k.lecture = l /\ k.attempt = n /\ k.read = j.read
    BY <1>0, <1>1 DEF Job
  <1>4. \A x \in Lecture, y \in Attempt :
          submission'[x, y] = IF <<x, y>> = <<l, n>> THEN "SUBMITTED" ELSE submission[x, y]
    BY <1>1, <1>2 DEF Inv, TypeOK
  <1>5. TypeOK'
    BY <1>1, <1>2, <1>3, UpdateType DEF Inv, TypeOK, SubmissionState
  <1>6. Onward /\ \A v \in Worker : Held(v)
    BY <1>2, <1>4 DEF Onward, Held, Closed
  <1>7. (JobsTied /\ OneWriter)'
    <2>1. (JobTied(k) /\ JobAsked(k) /\ JobStanding(k))'
      BY <1>1, <1>3, <1>4 DEF JobTied, JobAsked, StartedOver, JobStanding, Closed, Marked, Writing
    <2>2. k.pc \notin Writing
      BY <1>3 DEF Writing
    <2> QED BY <2>1, <2>2, <1>2, <1>6, JobsMove
  <1>8. SubmittedIsQueued'
    <2> SUFFICES ASSUME NEW x \in Lecture, NEW y \in Attempt, submission'[x, y] = "SUBMITTED",
                        mark'[x, y].state = "NONE"
                 PROVE  \E v \in Worker :
                          job'[v].pc = "queue" /\ job'[v].lecture = x /\ job'[v].attempt = y
      BY DEF SubmittedIsQueued
    <2>1. CASE <<x, y>> = <<l, n>>
      <3>1. job'[w] = k
        BY <1>2 DEF Inv, TypeOK
      <3> QED BY <2>1, <3>1, <1>3
    <2>2. CASE <<x, y>> # <<l, n>>
      <3>1. submission[x, y] = "SUBMITTED" /\ mark[x, y].state = "NONE"
        BY <1>2, <1>4, <2>2
      <3>2. PICK v \in Worker : job[v].pc = "queue" /\ job[v].lecture = x /\ job[v].attempt = y
        BY <3>1 DEF Inv, Safe, SubmittedIsQueued
      <3>3. v # w
        BY <3>2, <1>1
      <3>4. job'[v] = job[v]
        BY <3>3, <1>2 DEF Inv, TypeOK
      <3> QED BY <3>2, <3>4
    <2> QED BY <2>1, <2>2
  <1>9. (RowsTied /\ ResetStartsOver /\ ReturnedKept /\ StandingWasReturned)'
    BY <1>2, <1>6, ProgressKept, StandingKept DEF Inv, Tied, ReturnedKept
  <1> QED BY <1>5, <1>7, <1>8, <1>9 DEF Inv, Tied, Safe

\* The mark is made once; then the step is asked for.
LEMMA CreateMarkInv ==
  ASSUME Inv, NEW w \in Worker, CreateMark(w)
  PROVE  Inv'
  <1> DEFINE j == job[w]
             l == j.lecture
             n == j.attempt
  <1>1. /\ j \in Job /\ JobTied(j) /\ j.pc = "queue" /\ l \in Lecture /\ n \in Attempt
        /\ Closed(l, n)
    BY DEF CreateMark, Inv, TypeOK, JobsTied, JobTied
  <1>2. UNCHANGED <<progress, submission, quiz, result, returned, asked>>
    BY DEF CreateMark, history
  <1>3. CASE mark[l, n].state = "NONE"
    <2>0. PICK k : k = [Begin("complete", l) EXCEPT !.step = "drafting"]
      OBVIOUS
    <2>1. mark' = [mark EXCEPT ![<<l, n>>] = Awaiting] /\ job' = [job EXCEPT ![w] = k]
      BY <1>3, <2>0 DEF CreateMark, CompleteAfter
    <2>2. k \in Job /\ JobTied(k) /\ JobAsked(k) /\ JobStanding(k)
      BY <1>1, <2>0, CompleteType DEF LectureStep
    <2>3. k.pc = "complete"
      BY <2>0 DEF Begin, Idle
    <2>4. \A x \in Lecture, y \in Attempt :
            mark'[x, y] = IF <<x, y>> = <<l, n>> THEN Awaiting ELSE mark[x, y]
      BY <1>1, <2>1 DEF Inv, TypeOK
    <2>5. Awaiting \in MarkRow /\ Awaiting.state = "AWAITING"
      BY DEF Awaiting, NoMark, MarkRow, MarkState
    <2>6. TypeOK'
      BY <1>1, <1>2, <2>1, <2>2, <2>5, UpdateType DEF Inv, TypeOK
    <2>7. Onward
      BY <1>2, <2>4, <2>5 DEF Onward, Closed
    <2>8. \A v \in Worker : Held(v)
      BY <1>3, <2>4 DEF Held, Inv, JobsTied, JobTied, Marked, Writing
    <2>9. (JobsTied /\ OneWriter)'
      <3>1. (JobTied(k) /\ JobAsked(k) /\ JobStanding(k))'
        BY <2>2, <2>3, <1>2 DEF JobTied, JobAsked, JobStanding, Marked, Writing
      <3> QED BY <3>1, <2>1, <2>3, <2>7, <2>8, JobsMove DEF Writing
    <2>10. SubmittedIsQueued'
      <3>1. \A v \in Worker : job[v].pc = "queue" =>
             \/ job'[v] = job[v]
             \/ mark'[job[v].lecture, job[v].attempt].state # "NONE"
        <4> SUFFICES ASSUME NEW v \in Worker, job'[v] # job[v]
                     PROVE  mark'[job[v].lecture, job[v].attempt].state # "NONE"
          OBVIOUS
        <4>1. v = w
          BY <2>1 DEF Inv, TypeOK
        <4> QED BY <4>1, <1>1, <2>4, <2>5
      <3> QED BY <3>1, <1>2, <2>7, QueueKept
    <2>11. ReturnedKept'
      BY <1>2, <2>4, <2>5 DEF Inv, Tied, ReturnedKept
    <2>12. (RowsTied /\ ResetStartsOver /\ StandingWasReturned)'
      BY <1>2, <2>7, ProgressKept, StandingKept
    <2> QED BY <2>6, <2>9, <2>10, <2>11, <2>12 DEF Inv, Tied, Safe
  <1>4. CASE mark[l, n].state # "NONE"
    <2>1. mark' = mark /\ job' = [job EXCEPT ![w] = Idle]
      BY <1>4 DEF CreateMark
    <2>2. TypeOK'
      BY <1>2, <2>1, IdleType, UpdateType DEF Inv, TypeOK
    <2>3. Onward /\ \A v \in Worker : Held(v)
      BY <1>2, <2>1 DEF Onward, Held, Closed
    <2>4. (JobsTied /\ OneWriter)'
      BY <2>1, <2>3, IdleNext, JobsMove
    <2>5. SubmittedIsQueued'
      <3>1. \A v \in Worker : job[v].pc = "queue" =>
             \/ job'[v] = job[v]
             \/ mark'[job[v].lecture, job[v].attempt].state # "NONE"
        BY <1>4, <2>1 DEF Inv, TypeOK
      <3> QED BY <3>1, <1>2, <2>3, QueueKept
    <2>6. (RowsTied /\ ResetStartsOver /\ ReturnedKept /\ StandingWasReturned)'
      BY <1>2, <2>1, <2>3, ProgressKept, StandingKept DEF Inv, Tied, ReturnedKept
    <2> QED BY <2>2, <2>4, <2>5, <2>6 DEF Inv, Tied, Safe
  <1> QED BY <1>3, <1>4

\* Only a pass goes on to complete the quiz step.
LEMMA GradeAttemptInv ==
  ASSUME Inv, NEW w \in Worker, NEW pass \in BOOLEAN, GradeAttempt(w, pass)
  PROVE  Inv'
  <1> DEFINE j == job[w]
             next == [Begin("complete", QuizLecture) EXCEPT !.step = "quiz"]
  <1>0. PICK k : k = IF pass THEN next ELSE Idle
    OBVIOUS
  <1>1. j \in Job /\ j.pc = "grade"
    BY DEF GradeAttempt, Inv, TypeOK
  <1>2. /\ UNCHANGED <<progress, submission, mark, result, returned, asked>>
        /\ job' = [job EXCEPT ![w] = k]
        /\ quiz' = [quiz EXCEPT ![j.attempt] = IF pass THEN "passed" ELSE "failed"]
    BY <1>0 DEF GradeAttempt, CompleteAfter, history
  <1>3. k \in Job /\ k.pc \in {"complete", "idle"} /\ JobTied(k) /\ JobStanding(k)
    <2>1. CASE pass
      BY <1>0, <2>1, CompleteType, CourseworkAssumption DEF Begin, Idle, LectureStep
    <2>2. CASE ~pass
      BY <1>0, <2>2, IdleType DEF Idle
    <2> QED BY <2>1, <2>2
  <1>5. TypeOK'
    <2>1. quiz' \in [QuizAttempt -> QuizState]
      BY <1>2, UpdateType DEF Inv, TypeOK, QuizState
    <2> QED BY <2>1, <1>2, <1>3, UpdateType DEF Inv, TypeOK
  <1>6. Onward /\ \A v \in Worker : Held(v)
    BY <1>2 DEF Onward, Held, Closed
  <1>7. (RowsTied /\ ResetStartsOver /\ ReturnedKept /\ StandingWasReturned)'
    BY <1>2, <1>6, ProgressKept, StandingKept DEF Inv, Tied, ReturnedKept
  <1>8. (JobTied(k) /\ JobAsked(k) /\ JobStanding(k))'
    BY <1>2, <1>3 DEF JobTied, JobAsked, JobStanding, Marked, Writing
  <1>9. (JobsTied /\ OneWriter)'
    BY <1>2, <1>3, <1>6, <1>8, JobsMove DEF Writing
  <1>10. SubmittedIsQueued'
    BY <1>1, <1>2, <1>6, QueueKept DEF Inv, TypeOK
  <1> QED BY <1>5, <1>7, <1>9, <1>10 DEF Inv, Tied, Safe

-----------------------------------------------------------------------------
(* The marker's writes.                                                    *)

\* A claim takes a mark that nobody holds and that was not returned.
LEMMA ClaimForMarkingInv ==
  ASSUME Inv, NEW s \in Marker, NEW l \in Lecture, NEW n \in Attempt, ClaimForMarking(s, l, n)
  PROVE  Inv'
  <1> DEFINE m == [[mark[l, n] EXCEPT !.state = "IN_REVIEW"] EXCEPT !.marker = s]
  <1>1. /\ mark[l, n] \in MarkRow /\ ~MarkLocked(l, n)
        /\ mark[l, n].state \notin {"NONE", "RETURNED"}
        /\ UNCHANGED <<progress, submission, quiz, result, job, returned, asked>>
    BY DEF ClaimForMarking, history, Inv, TypeOK
  <1>2. mark' = [mark EXCEPT ![<<l, n>>] = m]
    BY DEF ClaimForMarking, Inv, TypeOK
  <1>3. m \in MarkRow /\ m.state = "IN_REVIEW"
    BY <1>1 DEF MarkRow, MarkState
  <1> HIDE DEF m
  <1>4. \A x \in Lecture, y \in Attempt :
          mark'[x, y] = IF <<x, y>> = <<l, n>> THEN m ELSE mark[x, y]
    BY <1>2 DEF Inv, TypeOK
  <1>5. TypeOK'
    BY <1>1, <1>2, <1>3, UpdateType DEF Inv, TypeOK
  <1>6. Onward
    BY <1>1, <1>3, <1>4 DEF Onward, Closed
  <1>7. \A v \in Worker : Held(v)
    <2> SUFFICES ASSUME NEW v \in Worker, job[v].pc = "moderating" PROVE Held(v)
      BY DEF Held
    <2>1. /\ job[v].lecture \in Lecture /\ job[v].attempt \in Attempt
          /\ <<job[v].lecture, job[v].attempt>> # <<l, n>>
      BY <1>1 DEF MarkLocked, Writing, Inv, JobsTied, JobTied, Marked
    <2> QED BY <2>1, <1>4 DEF Held
  <1>8. (JobsTied /\ OneWriter)'
    BY <1>1, <1>6, <1>7, JobsStay
  <1>9. SubmittedIsQueued'
    BY <1>1, <1>6, QueueKept
  <1>10. ReturnedKept'
    BY <1>1, <1>3, <1>4 DEF Inv, Tied, ReturnedKept
  <1>11. (RowsTied /\ ResetStartsOver /\ StandingWasReturned)'
    BY <1>1, <1>6, ProgressKept, StandingKept
  <1> QED BY <1>5, <1>8, <1>9, <1>10, <1>11 DEF Inv, Tied, Safe

\* Of two that write one mark, the second waits.
LEMMA OthersHeld ==
  ASSUME Inv, NEW w \in Worker, job[w].pc \in Writing, NEW m,
         \A x \in Lecture, y \in Attempt :
           mark'[x, y] = IF <<x, y>> = <<job[w].lecture, job[w].attempt>>
                         THEN m ELSE mark[x, y]
  PROVE  \A v \in Worker \ {w} : Held(v)
  <1> SUFFICES ASSUME NEW v \in Worker \ {w}, job[v].pc = "moderating" PROVE Held(v)
    BY DEF Held
  <1>1. job[v].lecture \in Lecture /\ job[v].attempt \in Attempt
    BY DEF Inv, JobsTied, JobTied, Marked, Writing
  <1>2. <<job[v].lecture, job[v].attempt>> # <<job[w].lecture, job[w].attempt>>
    BY DEF Inv, OneWriter, Writing
  <1> QED BY <1>1, <1>2 DEF Held

\* A return makes the score it gives one that a returned mark of the lecture has held.
LEMMA CommitReturnInv ==
  ASSUME Inv, NEW w \in Worker, CommitReturn(w)
  PROVE  Inv'
  <1> DEFINE j == job[w]
             l == j.lecture
             n == j.attempt
             m == Verdict(j)
  <1>1. /\ j \in Job /\ JobStanding(j) /\ j.pc = "returning" /\ l \in Lecture
        /\ n \in Attempt /\ j.score \in Score
    BY DEF CommitReturn, Inv, TypeOK, JobsTied, JobTied, Marked, Writing
  <1>2. /\ mark' = [mark EXCEPT ![<<l, n>>] = m]
        /\ submission' = [submission EXCEPT ![<<l, n>>] = "RETURNED"]
        /\ result' = j.result
        /\ returned' = [returned EXCEPT ![l] = @ \cup {j.score}]
        /\ job' = [job EXCEPT ![w] = Idle]
        /\ UNCHANGED <<progress, quiz, asked>>
    BY DEF CommitReturn
  <1>3. m \in MarkRow /\ m.state = "RETURNED" /\ m.score = j.score
    BY <1>1 DEF Verdict, MarkRow, MarkState
  <1> HIDE DEF m
  <1>4. \A x \in Lecture, y \in Attempt :
          /\ mark'[x, y] = IF <<x, y>> = <<l, n>> THEN m ELSE mark[x, y]
          /\ submission'[x, y] = IF <<x, y>> = <<l, n>> THEN "RETURNED" ELSE submission[x, y]
    BY <1>1, <1>2 DEF Inv, TypeOK
  <1>5. \A x \in Lecture :
          returned'[x] = IF x = l THEN returned[l] \cup {j.score} ELSE returned[x]
    BY <1>1, <1>2 DEF Inv, TypeOK
  <1>6. TypeOK'
    <2>1. returned' \in [Lecture -> SUBSET Score]
      BY <1>1, <1>2 DEF Inv, TypeOK
    <2>2. submission' \in [Lecture \X Attempt -> SubmissionState]
      BY <1>2, UpdateType DEF Inv, TypeOK, SubmissionState
    <2>3. mark' \in [Lecture \X Attempt -> MarkRow] /\ job' \in [Worker -> Job]
      BY <1>2, <1>3, IdleType, UpdateType DEF Inv, TypeOK
    <2> QED BY <2>1, <2>2, <2>3, <1>1, <1>2 DEF Inv, TypeOK, Job
  <1>7. Onward
    <2>1. \A x \in Lecture : returned[x] \subseteq returned'[x]
      BY <1>5
    <2> QED BY <2>1, <1>2, <1>3, <1>4 DEF Onward, Closed
  <1>8. (JobsTied /\ OneWriter)'
    <2>1. \A v \in Worker \ {w} : Held(v)
      <3>1. \A x \in Lecture, y \in Attempt :
              mark'[x, y] = IF <<x, y>> = <<l, n>> THEN m ELSE mark[x, y]
        BY <1>4
      <3> QED BY <3>1, <1>1, OthersHeld DEF Writing
    <2> QED BY <2>1, <1>2, <1>7, IdleNext, JobsMove
  <1>9. SubmittedIsQueued'
    <2>1. \A x \in Lecture, y \in Attempt :
            submission'[x, y] = "RETURNED" \/ submission'[x, y] = submission[x, y]
      BY <1>4
    <2>2. \A x \in Lecture, y \in Attempt :
            submission'[x, y] = "SUBMITTED" => submission[x, y] = "SUBMITTED"
      BY <2>1
    <2>3. \A v \in Worker : job[v].pc = "queue" => job'[v] = job[v]
      BY <1>1, <1>2 DEF Inv, TypeOK
    <2> QED BY <2>2, <2>3, <1>7, QueueKept
  <1>10. ReturnedKept'
    <2> SUFFICES ASSUME NEW x \in Lecture, NEW y \in Attempt, mark'[x, y].state = "RETURNED"
                 PROVE  mark'[x, y].score \in returned'[x]
      BY DEF ReturnedKept
    <2>1. CASE <<x, y>> = <<l, n>>
      <3>1. x = l /\ mark'[x, y] = m
        BY <2>1, <1>4
      <3> QED BY <3>1, <1>3, <1>5
    <2>2. CASE <<x, y>> # <<l, n>>
      BY <2>2, <1>4, <1>7 DEF Inv, Tied, ReturnedKept, Onward
    <2> QED BY <2>1, <2>2
  <1>11. StandingWasReturned'
    <2> SUFFICES ASSUME NEW x \in Lecture, j.result[x] # None
                 PROVE  j.result[x] \in returned'[x]
      BY <1>2 DEF StandingWasReturned
    <2> QED BY <1>1, <1>5 DEF JobStanding
  <1>12. (RowsTied /\ ResetStartsOver)'
    BY <1>2, <1>7, ProgressKept
  <1> QED BY <1>6, <1>8, <1>9, <1>10, <1>11, <1>12 DEF Inv, Tied, Safe

\* A moderation counts only where it amends a mark that is returned.
LEMMA CommitModerationInv ==
  ASSUME Inv, NEW w \in Worker, CommitModeration(w)
  PROVE  Inv'
  <1> DEFINE j == job[w]
             l == j.lecture
             n == j.attempt
             m == Amended(j)
  <1>1. /\ j \in Job /\ JobStanding(j) /\ j.pc = "moderating" /\ l \in Lecture
        /\ n \in Attempt /\ j.score \in Score /\ mark[l, n] \in MarkRow
        /\ mark[l, n].state # "NONE"
    BY DEF CommitModeration, Inv, TypeOK, JobsTied, JobTied, Marked, Writing
  <1>2. /\ mark' = [mark EXCEPT ![<<l, n>>] = m]
        /\ result' = IF j.seen THEN j.result ELSE result
        /\ returned' = IF mark[l, n].state = "RETURNED"
                       THEN [returned EXCEPT ![l] = @ \cup {j.score}] ELSE returned
        /\ job' = [job EXCEPT ![w] = Idle]
        /\ UNCHANGED <<progress, submission, quiz, asked>>
    BY DEF CommitModeration
  <1>3. m \in MarkRow /\ m.state = mark[l, n].state /\ m.score = j.score
    BY <1>1 DEF Amended, MarkRow
  <1> HIDE DEF m
  <1>4. \A x \in Lecture, y \in Attempt :
          mark'[x, y] = IF <<x, y>> = <<l, n>> THEN m ELSE mark[x, y]
    BY <1>1, <1>2 DEF Inv, TypeOK
  <1>5. \A x \in Lecture :
          returned'[x] = IF x = l /\ mark[l, n].state = "RETURNED"
                         THEN returned[l] \cup {j.score} ELSE returned[x]
    BY <1>1, <1>2 DEF Inv, TypeOK
  <1>6. TypeOK'
    <2>1. returned' \in [Lecture -> SUBSET Score]
      BY <1>1, <1>2 DEF Inv, TypeOK
    <2>2. mark' \in [Lecture \X Attempt -> MarkRow] /\ job' \in [Worker -> Job]
      BY <1>2, <1>3, IdleType, UpdateType DEF Inv, TypeOK
    <2>3. result' \in ResultRow
      BY <1>1, <1>2 DEF Inv, TypeOK, Job
    <2> QED BY <2>1, <2>2, <2>3, <1>2 DEF Inv, TypeOK
  <1>7. Onward
    <2>1. \A x \in Lecture : returned[x] \subseteq returned'[x]
      BY <1>5
    <2>2. \A x \in Lecture, y \in Attempt :
            mark[x, y].state # "NONE" => mark'[x, y].state # "NONE"
      BY <1>1, <1>3, <1>4
    <2> QED BY <2>1, <2>2, <1>2 DEF Onward, Closed
  <1>8. (JobsTied /\ OneWriter)'
    <2>1. \A v \in Worker \ {w} : Held(v)
      <3>1. \A x \in Lecture, y \in Attempt :
              mark'[x, y] = IF <<x, y>> = <<l, n>> THEN m ELSE mark[x, y]
        BY <1>4
      <3> QED BY <3>1, <1>1, OthersHeld DEF Writing
    <2> QED BY <2>1, <1>2, <1>7, IdleNext, JobsMove
  <1>9. SubmittedIsQueued'
    <2>1. \A v \in Worker : job[v].pc = "queue" => job'[v] = job[v]
      BY <1>1, <1>2 DEF Inv, TypeOK
    <2> QED BY <2>1, <1>2, <1>7, QueueKept
  <1>10. ReturnedKept'
    <2> SUFFICES ASSUME NEW x \in Lecture, NEW y \in Attempt, mark'[x, y].state = "RETURNED"
                 PROVE  mark'[x, y].score \in returned'[x]
      BY DEF ReturnedKept
    <2>1. CASE <<x, y>> = <<l, n>>
      <3>1. x = l /\ mark'[x, y] = m
        BY <2>1, <1>4
      <3> QED BY <3>1, <1>3, <1>5
    <2>2. CASE <<x, y>> # <<l, n>>
      BY <2>2, <1>4, <1>7 DEF Inv, Tied, ReturnedKept, Onward
    <2> QED BY <2>1, <2>2
  <1>11. StandingWasReturned'
    <2>1. CASE ~j.seen
      BY <2>1, <1>2, <1>7, StandingKept
    <2>2. CASE j.seen
      <3> SUFFICES ASSUME NEW x \in Lecture, j.result[x] # None
                   PROVE  j.result[x] \in returned'[x]
        BY <2>2, <1>2 DEF StandingWasReturned
      <3> QED BY <2>2, <1>1, <1>5 DEF JobStanding
    <2> QED BY <2>1, <2>2
  <1>12. (RowsTied /\ ResetStartsOver)'
    BY <1>2, <1>7, ProgressKept
  <1> QED BY <1>6, <1>8, <1>9, <1>10, <1>11, <1>12 DEF Inv, Tied, Safe

\* A resubmission opens a place that was free, and takes an attempt nobody is at.
LEMMA RequestResubmissionInv ==
  ASSUME Inv, NEW w \in Worker, RequestResubmission(w)
  PROVE  Inv'
  <1> DEFINE j == job[w]
             l == j.lecture
             n == j.attempt
             m == [state |-> "RESUBMISSION_REQUESTED", score |-> j.score, marker |-> None]
  <1>1. /\ j \in Job /\ j.pc = "request" /\ l \in Lecture /\ n \in Attempt
        /\ n + 1 \in Attempt /\ n + 1 # n /\ j.score \in Score /\ ~MarkLocked(l, n)
        /\ mark[l, n].state # "NONE"
    <2>1. JobTied(j) /\ j \in Job /\ j.pc = "request"
      BY DEF RequestResubmission, Inv, TypeOK, JobsTied
    <2>2. n \in Attempt /\ n < MaxAttempts
      BY <2>1 DEF JobTied, Marked
    <2>3. n + 1 \in Attempt /\ n + 1 # n
      BY <2>2, CourseworkAssumption DEF Attempt
    <2> QED BY <2>1, <2>3 DEF JobTied, Marked, RequestResubmission
  <1>2. job' = [job EXCEPT ![w] = Idle] /\ UNCHANGED <<progress, quiz, result, returned, asked>>
    BY DEF RequestResubmission, history
  <1>3. m \in MarkRow /\ m.state = "RESUBMISSION_REQUESTED"
    BY <1>1 DEF MarkRow, MarkState
  <1> HIDE DEF m
  <1>4. \A v \in Worker : job[v].pc = "queue" => job'[v] = job[v]
    BY <1>1, <1>2 DEF Inv, TypeOK
  <1>5. CASE submission[l, n + 1] = "NONE"
    <2>1. /\ mark' = [mark EXCEPT ![<<l, n>>] = m]
          /\ submission' = [[submission EXCEPT ![<<l, n>>] = "RETURNED"]
                              EXCEPT ![<<l, n + 1>>] = "RESUBMITTED"]
      BY <1>5 DEF RequestResubmission, NextAttemptAdmitted, m
    <2>2. \A x \in Lecture, y \in Attempt :
            /\ mark'[x, y] = IF <<x, y>> = <<l, n>> THEN m ELSE mark[x, y]
            /\ submission'[x, y] = IF <<x, y>> = <<l, n + 1>> THEN "RESUBMITTED"
                                   ELSE IF <<x, y>> = <<l, n>> THEN "RETURNED"
                                   ELSE submission[x, y]
      BY <1>1, <2>1 DEF Inv, TypeOK
    <2>3. TypeOK'
      <3>1. submission' \in [Lecture \X Attempt -> SubmissionState]
        BY <2>1, UpdateType DEF Inv, TypeOK, SubmissionState
      <3>2. mark' \in [Lecture \X Attempt -> MarkRow] /\ job' \in [Worker -> Job]
        BY <2>1, <1>2, <1>3, IdleType, UpdateType DEF Inv, TypeOK
      <3> QED BY <3>1, <3>2, <1>2 DEF Inv, TypeOK
    <2>4. Onward
      <3>1. \A x \in Lecture, y \in Attempt :
              submission[x, y] \in {"SUBMITTED", "RETURNED"} =>
                submission'[x, y] \in {"SUBMITTED", "RETURNED"}
        <4> SUFFICES ASSUME NEW x \in Lecture, NEW y \in Attempt,
                            submission[x, y] \in {"SUBMITTED", "RETURNED"}
                     PROVE  submission'[x, y] \in {"SUBMITTED", "RETURNED"}
          OBVIOUS
        <4>1. <<x, y>> # <<l, n + 1>>
          BY <1>5
        <4> QED BY <4>1, <2>2
      <3>2. \A x \in Lecture, y \in Attempt :
              mark[x, y].state # "NONE" => mark'[x, y].state # "NONE"
        BY <1>3, <2>2
      <3> QED BY <3>1, <3>2, <1>2 DEF Onward, Closed
    <2>5. \A v \in Worker : Held(v)
      <3> SUFFICES ASSUME NEW v \in Worker, job[v].pc = "moderating" PROVE Held(v)
        BY DEF Held
      <3>1. /\ job[v].lecture \in Lecture /\ job[v].attempt \in Attempt
            /\ <<job[v].lecture, job[v].attempt>> # <<l, n>>
        BY <1>1 DEF MarkLocked, Writing, Inv, JobsTied, JobTied, Marked
      <3> QED BY <3>1, <2>2 DEF Held
    <2>6. (JobsTied /\ OneWriter)'
      BY <2>4, <2>5, <1>2, IdleNext, JobsMove
    <2>7. SubmittedIsQueued'
      <3>1. \A x \in Lecture, y \in Attempt :
              submission'[x, y] = "SUBMITTED" => submission[x, y] = "SUBMITTED"
        <4> SUFFICES ASSUME NEW x \in Lecture, NEW y \in Attempt,
                            submission'[x, y] = "SUBMITTED"
                     PROVE  submission[x, y] = "SUBMITTED"
          OBVIOUS
        <4>1. submission'[x, y] \in {"RESUBMITTED", "RETURNED", submission[x, y]}
          BY <2>2
        <4> QED BY <4>1
      <3> QED BY <3>1, <1>4, <2>4, QueueKept
    <2>8. ReturnedKept'
      BY <2>2, <1>2, <1>3 DEF Inv, Tied, ReturnedKept
    <2>9. (RowsTied /\ ResetStartsOver /\ StandingWasReturned)'
      BY <1>2, <2>4, ProgressKept, StandingKept
    <2> QED BY <2>3, <2>6, <2>7, <2>8, <2>9 DEF Inv, Tied, Safe
  <1>6. CASE submission[l, n + 1] # "NONE"
    <2>1. UNCHANGED <<mark, submission>>
      BY <1>6 DEF RequestResubmission, NextAttemptAdmitted
    <2>2. TypeOK'
      BY <2>1, <1>2, IdleType, UpdateType DEF Inv, TypeOK
    <2>3. Onward /\ \A v \in Worker : Held(v)
      BY <2>1, <1>2 DEF Onward, Held, Closed
    <2>4. (JobsTied /\ OneWriter)'
      BY <2>3, <1>2, IdleNext, JobsMove
    <2>5. SubmittedIsQueued'
      BY <1>4, <2>1, <2>3, QueueKept
    <2>6. (RowsTied /\ ResetStartsOver /\ ReturnedKept /\ StandingWasReturned)'
      BY <2>1, <1>2, <2>3, ProgressKept, StandingKept DEF Inv, Tied, ReturnedKept
    <2> QED BY <2>2, <2>4, <2>5, <2>6 DEF Inv, Tied, Safe
  <1> QED BY <1>5, <1>6

-----------------------------------------------------------------------------
(* A reset leaves nothing, and no request but one that found nothing.      *)

\* Of a table that is empty, everything holds.
LEMMA EmptyTypes == NoProgress \in ProgressRow /\ NoMark \in MarkRow /\ NoResult \in ResultRow
  BY DEF NoProgress, ProgressRow, NoMark, MarkRow, MarkState, NoResult, ResultRow

EmptyTables ==
  /\ progress = [l \in Lecture |-> NoProgress]
  /\ submission = [x \in Lecture \X Attempt |-> "NONE"]
  /\ mark = [x \in Lecture \X Attempt |-> NoMark]
  /\ result = NoResult

LEMMA EmptyIsSafe == EmptyTables => Tied /\ Safe
  <1> SUFFICES ASSUME EmptyTables PROVE Tied /\ Safe
    OBVIOUS
  <1> USE DEF EmptyTables
  <1>1. \A l \in Lecture, n \in Attempt : submission[l, n] = "NONE" /\ mark[l, n].state = "NONE"
    BY DEF NoMark
  <1>2. \A l \in Lecture : progress[l] = NoProgress /\ result[l] = None
    BY DEF NoResult
  <1>3. RowsTied /\ ResetStartsOver
    BY <1>2 DEF RowsTied, ResetStartsOver, EmptyTied, NoProgress
  <1>4. ReturnedKept /\ SubmittedIsQueued /\ StandingWasReturned
    BY <1>1, <1>2 DEF ReturnedKept, SubmittedIsQueued, StandingWasReturned
  <1> QED BY <1>3, <1>4 DEF Tied, Safe

LEMMA EmptiedIsSafe == EmptyTables' => (Tied /\ Safe)'
  BY EmptyIsSafe, PTL

LEMMA ResetInv ==
  ASSUME Inv, ResetEnrolmentProgress
  PROVE  Inv'
  <1>1. /\ progress' = [l \in Lecture |-> NoProgress]
        /\ submission' = [x \in Lecture \X Attempt |-> "NONE"]
        /\ mark' = [x \in Lecture \X Attempt |-> NoMark]
        /\ quiz' = [q \in QuizAttempt |-> "none"]
        /\ result' = NoResult /\ returned' = [l \in Lecture |-> {}]
        /\ asked' = [l \in Lecture |-> {}]
    BY DEF ResetEnrolmentProgress
  <1>2. (Tied /\ Safe)'
    BY <1>1, EmptiedIsSafe DEF EmptyTables
  <1>3. \A w \in Worker :
          \/ job'[w] = Idle
          \/ Survives(job[w]) /\ job'[w] = job[w]
    BY DEF ResetEnrolmentProgress
  <1>4. \A w \in Worker :
          /\ job'[w] \in Job /\ job'[w].pc \notin Writing
          /\ (JobTied(job[w]) /\ JobAsked(job[w]) /\ JobStanding(job[w]))'
    <2> SUFFICES ASSUME NEW w \in Worker
                 PROVE  /\ job'[w] \in Job /\ job'[w].pc \notin Writing
                        /\ (JobTied(job[w]) /\ JobAsked(job[w]) /\ JobStanding(job[w]))'
      OBVIOUS
    <2>1. CASE job'[w] = Idle
      BY <2>1, IdleType
      DEF Idle, JobTied, JobAsked, JobStanding, EmptyTied, NoProgress, Marked, Writing
    <2>2. CASE Survives(job[w]) /\ job'[w] = job[w]
      <3>1. job[w] \in Job /\ JobTied(job[w])
        BY DEF Inv, TypeOK, JobsTied
      <3> QED BY <2>2, <3>1 DEF Survives, JobTied, JobAsked, JobStanding, Marked, Writing
    <2> QED BY <1>3, <2>1, <2>2
  <1>5. (JobsTied /\ OneWriter)'
    BY <1>4 DEF JobsTied, OneWriter
  <1>6. TypeOK'
    <2>1. job' \in [Worker -> Job]
      BY <1>4 DEF ResetEnrolmentProgress
    <2> QED BY <2>1, <1>1, EmptyTypes DEF TypeOK, SubmissionState, QuizState
  <1> QED BY <1>2, <1>5, <1>6 DEF Inv

-----------------------------------------------------------------------------
LEMMA InitInv == Init => Inv
  <1> SUFFICES ASSUME Init PROVE Inv
    OBVIOUS
  <1>1. TypeOK
    BY IdleType, EmptyTypes DEF Init, TypeOK, SubmissionState, QuizState
  <1>2. Tied /\ Safe
    BY EmptyIsSafe DEF Init, EmptyTables
  <1>3. JobsTied /\ OneWriter
    BY IdleType DEF Init, JobsTied, OneWriter, Idle, Writing
  <1> QED BY <1>1, <1>2, <1>3 DEF Inv

LEMMA NextInv == Inv /\ [Next]_vars => Inv'
  <1> SUFFICES ASSUME Inv, [Next]_vars PROVE Inv'
    OBVIOUS
  <1>1. CASE \E w \in Worker : Studying(w)
    BY <1>1, FindToSubmitInv, CompleteStepInv, FindToGradeInv, GradeAttemptInv DEF Studying
  <1>2. CASE \E w \in Worker : Continuing(w)
    BY <1>2, CompleteOwnStepInv, WriteStepsInv, WriteSubmittedInv, CreateMarkInv DEF Continuing
  <1>3. CASE \E w \in Worker : Marking(w)
    <2>1. PICK w \in Worker : Marking(w)
      BY <1>3
    <2>2. CASE \E l \in WithDrafting, n \in Attempt, s \in Score,
                  pc \in {"return", "moderate", "request"} : FindMark(w, l, n, pc, s)
      BY <2>2, FindMarkInv, CourseworkAssumption
    <2>3. CASE WriteMark(w) \/ CommitReturn(w) \/ CommitModeration(w) \/ RequestResubmission(w)
      BY <2>3, WriteMarkInv, CommitReturnInv, CommitModerationInv, RequestResubmissionInv
    <2> QED BY <2>1, <2>2, <2>3 DEF Marking, Score
  <1>4. CASE \/ \E s \in Marker, l \in WithDrafting, n \in Attempt : ClaimForMarking(s, l, n)
             \/ \E l \in Lecture : SavePosition(l) \/ Autosave(l)
             \/ \E q \in QuizAttempt : StartQuizAttempt(q)
    BY <1>4, ClaimForMarkingInv, SavePositionInv, AutosaveInv, StartQuizAttemptInv,
       CourseworkAssumption
  <1>5. CASE ResetEnrolmentProgress
    BY <1>5, ResetInv
  <1>6. CASE UNCHANGED vars
    <2> USE <1>6 DEF vars, rows, history
    <2>1. Onward /\ \A v \in Worker : Held(v)
      BY DEF Onward, Held, Closed
    <2>2. (JobsTied /\ OneWriter)'
      BY <2>1, JobsStay
    <2>3. SubmittedIsQueued'
      BY <2>1, QueueKept
    <2>4. (RowsTied /\ ResetStartsOver /\ ReturnedKept /\ StandingWasReturned)'
      BY <2>1, ProgressKept, StandingKept DEF Inv, Tied, ReturnedKept
    <2>5. TypeOK'
      BY DEF Inv, TypeOK
    <2> QED BY <2>2, <2>3, <2>4, <2>5 DEF Inv, Tied, Safe
  <1> QED BY <1>1, <1>2, <1>3, <1>4, <1>5, <1>6 DEF Next

LEMMA Invariance == Spec => []Inv
  BY InitInv, NextInv, PTL DEF Spec

-----------------------------------------------------------------------------
\* Every row and every request stays within the schema's types.
THEOREM TypeCorrect == Spec => []TypeOK
  BY Invariance, PTL DEF Inv

\* However requests cross it, a reset starts every lecture over: no steps read before it
\* are written back after it, but the one step of one request that found no row
\* (completeStep).
THEOREM ResetsStartOver == Spec => []ResetStartsOver
  BY Invariance, PTL DEF Inv, Safe

\* No submission is lost between the candidate's write and the marker's queue, unless
\* the request died there (submitDrafting).
THEOREM SubmissionsAreQueued == Spec => []SubmittedIsQueued
  BY Invariance, PTL DEF Inv, Safe

\* The programme result never shows a score that no returned mark of the lecture has
\* held since the last reset, in whatever order returns and moderations commit
\* (recomputeProgrammeResult).
THEOREM StandingStandsReturned == Spec => []StandingWasReturned
  BY Invariance, PTL DEF Inv, Safe

\* A write puts an attempt with the markers, or takes a place that was free.
LEMMA AttemptWrites ==
  ASSUME Inv, [Next]_vars, ~ResetEnrolmentProgress, NEW l \in Lecture, NEW n \in Attempt
  PROVE  \/ submission'[l, n] = submission[l, n]
         \/ submission'[l, n] \in {"SUBMITTED", "RETURNED"}
         \/ submission[l, n] = "NONE"
  <1> DEFINE Kept == \/ submission'[l, n] = submission[l, n]
                     \/ submission'[l, n] \in {"SUBMITTED", "RETURNED"}
                     \/ submission[l, n] = "NONE"
  <1>0. submission \in [Lecture \X Attempt -> SubmissionState]
    BY DEF Inv, TypeOK
  <1>1. CASE \E w \in Worker : Studying(w)
    BY <1>1 DEF Studying, FindToSubmit, CompleteStep, ReadSteps, FindToGrade, GradeAttempt, rows
  <1>2. CASE \E w \in Worker : Continuing(w)
    BY <1>0, <1>2
    DEF Continuing, CompleteOwnStep, ReadSteps, WriteSteps, WriteSubmitted, CreateMark, rows
  <1>3. CASE \E w \in Worker : Marking(w)
    <2>1. PICK w \in Worker : Marking(w)
      BY <1>3
    <2>2. CASE CommitReturn(w)
      BY <1>0, <2>2 DEF CommitReturn
    <2>3. CASE RequestResubmission(w)
      <3> DEFINE x == job[w].lecture
                 y == job[w].attempt
      <3>1. \/ submission' = submission
            \/ /\ submission[x, y + 1] = "NONE"
               /\ submission' = [[submission EXCEPT ![<<x, y>>] = "RETURNED"]
                                   EXCEPT ![<<x, y + 1>>] = "RESUBMITTED"]
        BY <2>3 DEF RequestResubmission, NextAttemptAdmitted
      <3>2. CASE <<l, n>> = <<x, y + 1>>
        BY <3>1, <3>2
      <3>3. CASE <<l, n>> # <<x, y + 1>>
        <4>1. submission'[l, n] \in {submission[l, n], "RETURNED"}
          BY <1>0, <3>1, <3>3
        <4> QED BY <4>1
      <3> QED BY <3>2, <3>3
    <2>4. CASE ~CommitReturn(w) /\ ~RequestResubmission(w)
      BY <2>1, <2>4 DEF Marking, FindMark, WriteMark, CommitModeration, rows
    <2> QED BY <2>2, <2>3, <2>4
  <1>4. CASE \/ \E s \in Marker, k \in WithDrafting, m \in Attempt : ClaimForMarking(s, k, m)
             \/ \E k \in Lecture : SavePosition(k)
             \/ \E q \in QuizAttempt : StartQuizAttempt(q)
             \/ UNCHANGED vars
    BY <1>4 DEF ClaimForMarking, SavePosition, StartQuizAttempt, vars, rows
  <1>5. CASE \E k \in Lecture : Autosave(k)
    <2>1. PICK k \in Lecture : Autosave(k)
      BY <1>5
    <2>2. submission[k, 1] = "NONE" /\ submission' = [submission EXCEPT ![<<k, 1>>] = "DRAFT"]
      <3>1. 1 \in Attempt
        BY CourseworkAssumption DEF Attempt
      <3> QED BY <2>1, <3>1 DEF Autosave, Attempts
    <2>3. CASE <<l, n>> = <<k, 1>>
      <3>1. submission[l, n] = submission[k, 1]
        BY <2>3
      <3> QED BY <3>1, <2>2
    <2>4. CASE <<l, n>> # <<k, 1>>
      BY <1>0, <2>2, <2>4
    <2> QED BY <2>3, <2>4
  <1> QED BY <1>1, <1>2, <1>3, <1>4, <1>5 DEF Next

\* What is with the markers is never reopened or removed but by a reset
\* (requestResubmission, under the unique index on attempts).
THEOREM AttemptsStay == Spec => AttemptsAreRetained
  <1> DEFINE Retained == \A l \in Lecture, n \in Attempt :
               submission[l, n] \in {"SUBMITTED", "RETURNED"}
                 => \/ submission'[l, n] \in {"SUBMITTED", "RETURNED"}
                    \/ \A x \in Lecture \X Attempt : submission'[x] = "NONE"
  <1>1. Inv /\ [Next]_vars => [Retained]_vars
    <2> SUFFICES ASSUME Inv, [Next]_vars PROVE Retained
      OBVIOUS
    <2>1. CASE ResetEnrolmentProgress
      <3>1. \A x \in Lecture \X Attempt : submission'[x] = "NONE"
        BY <2>1 DEF ResetEnrolmentProgress
      <3> QED BY <3>1
    <2>2. CASE ~ResetEnrolmentProgress
      <3> SUFFICES ASSUME NEW l \in Lecture, NEW n \in Attempt,
                          submission[l, n] \in {"SUBMITTED", "RETURNED"}
                   PROVE  submission'[l, n] \in {"SUBMITTED", "RETURNED"}
        OBVIOUS
      <3> QED BY <2>2, AttemptWrites
    <2> QED BY <2>1, <2>2
  <1> QED BY <1>1, Invariance, PTL DEF Spec, AttemptsAreRetained
=============================================================================
