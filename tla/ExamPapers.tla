------------------------------ MODULE ExamPapers ------------------------------
(***************************************************************************)
(* An examination's question bank (src/lib/exam-builder-actions.ts), the   *)
(* paper drawn from it (src/lib/exam-draw.ts) and the objective marking of *)
(* that paper (src/lib/exam-sitting-actions.ts), while staff go on editing *)
(* the bank.                                                               *)
(*                                                                         *)
(* A paper is a copy: questions and the ids of their options, without the  *)
(* key.  The key is read from the bank when the paper is marked.  An edit  *)
(* of an objective question replaces its options by new rows, and a        *)
(* candidate's saved choice points at the old ones: the foreign key sets   *)
(* it to NULL.                                                             *)
(*                                                                         *)
(* Who may sit, the conduct review and the release are ExamSittings'; the  *)
(* wording of a question and its number of marks are left out.             *)
(***************************************************************************)
EXTENDS Naturals, FiniteSets

CONSTANTS
  Null,       \* SQL's NULL where a chosen option could stand
  Module,     \* modules of the examination's programme
  Question,   \* question rows that can be created
  Written,    \* those of type WRITTEN: no options
  ModuleOf,   \* [Question -> Module]
  Draws,      \* the numbers of objective questions a module may be set to draw
  Sitting,
  Worker,     \* requests in flight at once
  MaxEdits    \* bound on the edits of questions

Objective == Question \ Written

\* An option row's id: its question, the list it was written with, its place in it.
Option == [question : Question, list : 0 .. MaxEdits, place : {1, 2}]

ASSUME PaperAssumption ==
  /\ Written \subseteq Question
  /\ ModuleOf \in [Question -> Module]
  /\ Draws \subseteq Nat
  /\ Draws # {}
  /\ Null \notin Option /\ Null \notin Question
  /\ MaxEdits \in Nat

VARIABLES
  draw,       \* Module.examQuestionDraw
  status,     \* ExamQuestion.status; NONE before the row exists
  options,    \* ids of the question's ExamQuestionOption rows
  correct,    \* those with isCorrect
  edits,      \* edits committed: where the fresh ids of option rows come from
  sitting,    \* Sitting: its state, whether its time is up, questions marked right
  paper,      \* Sitting.paperSnapshot
  chosen,     \* SittingAnswer.selectedOptionId
  answerKey,  \* history: the options that were right when the paper was drawn
  saved,      \* history: every choice saved for the sitting
  job         \* what each request is in the middle of

bank == <<draw, status, options, correct, edits>>
sat == <<sitting, paper, answerKey>>
answers == <<chosen, saved>>
vars == <<bank, sat, answers, job>>

-----------------------------------------------------------------------------
\* IN_REVIEW is treated as DRAFT by every reader: only APPROVED is ever tested.
QuestionStatus == {"NONE", "DRAFT", "APPROVED", "RETIRED"}
SittingState == {"NONE", "IN_PROGRESS", "SUBMITTED", "EXPIRED"}

\* A paper: its questions and, once read, the options it shows of each.
Blank(Q) == [asked |-> Q, shows |-> [q \in Question |-> {}]]
NoPaper == Blank({})
NoAnswers == [q \in Objective |-> Null]
Idle == [pc |-> "idle", question |-> Null, status |-> "NONE", doomed |-> {},
         sitting |-> Null, draw |-> Null, paper |-> NoPaper, key |-> {},
         option |-> Null, ends |-> "NONE", answers |-> NoAnswers, right |-> {}]

On(w, pc) == job[w].pc = pc
Becomes(w, j) == job' = [job EXCEPT ![w] = j]
Ends(w) == Becomes(w, Idle)

\* mutant: an edit rewrites the rows it finds, keeping their ids
RowsKept(q, n) == {[question |-> q, list |-> 0, place |-> p] : p \in {1, 2}}

\* The ids of the list an edit writes, and of the first list (n = 0).
Rows(q, n) == {[question |-> q, list |-> n, place |-> p] : p \in {1, 2}}

Exists(q) == status[q] # "NONE"
Approved(m) == {q \in Question : ModuleOf[q] = m /\ status[q] = "APPROVED"}

\* mutant: the question's row is written after its options
NeverLocked(q) == FALSE

\* The row an edit has updated is locked until it commits.
QuestionLocked(q) ==
  \E w \in Worker : job[w].pc \in {"edit", "replace"} /\ job[w].question = q

\* Option rows an uncommitted edit has deleted: a save that names one waits.
BeingDeleted == UNION {job[w].doomed : w \in Worker}

Init ==
  /\ draw \in [Module -> Draws]
  /\ status = [q \in Question |-> "NONE"]
  /\ options = [q \in Question |-> {}]
  /\ correct = [q \in Question |-> {}]
  /\ edits = 0
  /\ sitting = [s \in Sitting |-> [state |-> "NONE", overdue |-> FALSE, right |-> {}]]
  /\ paper = [s \in Sitting |-> NoPaper]
  /\ chosen = [s \in Sitting |-> NoAnswers]
  /\ answerKey = [s \in Sitting |-> {}]
  /\ saved = [s \in Sitting |-> {}]
  /\ job = [w \in Worker |-> Idle]

-----------------------------------------------------------------------------
(* The bank.                                                               *)

CreateExamQuestion(q) ==
  /\ ~Exists(q)
  /\ \E st \in {"DRAFT", "APPROVED"} : status' = [status EXCEPT ![q] = st]
  /\ IF q \in Written
     THEN UNCHANGED <<options, correct>>
     ELSE /\ options' = [options EXCEPT ![q] = Rows(q, 0)]
          /\ \E o \in Rows(q, 0) : correct' = [correct EXCEPT ![q] = {o}]
  /\ UNCHANGED <<draw, edits, sat, answers, job>>

UpdateExamModule(m) ==
  /\ \E n \in Draws : draw' = [draw EXCEPT ![m] = n]
  /\ UNCHANGED <<status, options, correct, edits, sat, answers, job>>

\* retireExamQuestion and restoreExamQuestion: one UPDATE each.
RetireExamQuestion(q) ==
  /\ Exists(q) /\ ~QuestionLocked(q)
  /\ status' = [status EXCEPT ![q] = "RETIRED"]
  /\ UNCHANGED <<draw, options, correct, edits, sat, answers, job>>

RestoreExamQuestion(q) ==
  /\ Exists(q) /\ ~QuestionLocked(q)
  /\ status' = [status EXCEPT ![q] = "APPROVED"]
  /\ UNCHANGED <<draw, options, correct, edits, sat, answers, job>>

\* mutant: the foreign key was created without its action
LeftDangling(o, gone) == o

\* SittingAnswer.selectedOptionId is ON DELETE SET NULL.
AfterDelete(o, gone) == IF o \in gone THEN Null ELSE o

\* updateExamQuestion's transaction begins with the question's own row ...
UpdateExamQuestion(w, q) ==
  /\ On(w, "idle")
  /\ Exists(q) /\ ~QuestionLocked(q)
  /\ edits < MaxEdits
  /\ \E st \in {"DRAFT", "APPROVED"} :
       Becomes(w, [Idle EXCEPT !.pc = "edit", !.question = q, !.status = st])
  /\ UNCHANGED <<bank, sat, answers>>

\* ... deletes the options it sees ...
DeleteOptions(w) ==
  /\ On(w, "edit")
  /\ Becomes(w, [job[w] EXCEPT !.pc = "replace", !.doomed = options[job[w].question]])
  /\ UNCHANGED <<bank, sat, answers>>

\* ... creates the new ones, exactly one of them right, and commits.  Choices that
\* pointed at a deleted row are set to NULL.
ReplaceOptions(w) ==
  /\ On(w, "replace")
  /\ edits < MaxEdits
  /\ LET q == job[w].question
         n == edits + 1
         doomed == job[w].doomed
         kept == options[q] \ doomed
     IN /\ status' = [status EXCEPT ![q] = job[w].status]
        /\ edits' = n
        /\ IF q \in Written
           THEN UNCHANGED <<options, correct, chosen>>
           ELSE /\ options' = [options EXCEPT ![q] = kept \cup Rows(q, n)]
                /\ \E o \in Rows(q, n) :
                     correct' = [correct EXCEPT ![q] = (@ \cap kept) \cup {o}]
                /\ chosen' = [s \in Sitting |-> [p \in Objective |->
                     AfterDelete(chosen[s][p], doomed \ options'[q])]]
  /\ Ends(w)
  /\ UNCHANGED <<draw, sat, saved>>

-----------------------------------------------------------------------------
(* The paper.                                                              *)

\* drawPaper: of each module, as many approved objective questions as it draws or
\* has, and every approved written one.
Drawable(draws) ==
  {Q \in SUBSET Question : \A m \in Module :
     LET on == {q \in Q : ModuleOf[q] = m}
         pool == Approved(m) \cap Objective
         n == Cardinality(on \cap Objective)
     IN /\ on \subseteq Approved(m)
        /\ Approved(m) \cap Written \subseteq on
        /\ n = IF draws[m] < Cardinality(pool) THEN draws[m] ELSE Cardinality(pool)}

\* startSitting finds no sitting for the registration and reads the modules ...
FindToStart(w, s) ==
  /\ On(w, "idle")
  /\ sitting[s].state = "NONE"
  /\ Becomes(w, [Idle EXCEPT !.pc = "draw", !.sitting = s, !.draw = draw])
  /\ UNCHANGED <<bank, sat, answers>>

\* ... then the questions ...
DrawPaper(w) ==
  /\ On(w, "draw")
  /\ \E Q \in Drawable(job[w].draw) :
       Becomes(w, [job[w] EXCEPT !.pc = "options", !.draw = Null,
                                 !.paper = Blank(Q)])
  /\ UNCHANGED <<bank, sat, answers>>

\* ... then their options, in a query of its own ...
ReadOptions(w) ==
  /\ On(w, "options")
  /\ LET Q == job[w].paper.asked
     IN Becomes(w, [job[w] EXCEPT !.pc = "start",
                      !.paper = [asked |-> Q,
                                 shows |-> [q \in Question |-> IF q \in Q THEN options[q] ELSE {}]],
                      !.key = UNION {correct[q] : q \in Q}])
  /\ UNCHANGED <<bank, sat, answers>>

\* Sitting.registrationId is unique.
Inserted(s) == sitting[s].state = "NONE"

\* ... and inserts the sitting; the loser of two requests returns the winner's.
StartSitting(w) ==
  /\ On(w, "start")
  /\ LET s == job[w].sitting
     IN IF Inserted(s)
        THEN /\ sitting' = [sitting EXCEPT ![s].state = "IN_PROGRESS"]
             /\ paper' = [paper EXCEPT ![s] = job[w].paper]
             /\ answerKey' = [answerKey EXCEPT ![s] = job[w].key]
        ELSE UNCHANGED sat
  /\ Ends(w)
  /\ UNCHANGED <<bank, answers>>

\* expiresAt passes.
TimeRunsOut(s) ==
  /\ sitting[s].state = "IN_PROGRESS" /\ ~sitting[s].overdue
  /\ sitting' = [sitting EXCEPT ![s].overdue = TRUE]
  /\ UNCHANGED <<bank, paper, answerKey, answers, job>>

\* saveSittingAnswer: the sitting is read, the answer upserted by its key.  The ids come
\* from the candidate's page, which offers the options of the paper: the action itself
\* does not compare them with it.
FindToSave(w, s) ==
  /\ On(w, "idle")
  /\ sitting[s].state = "IN_PROGRESS" /\ ~sitting[s].overdue
  /\ \E q \in paper[s].asked : \E o \in paper[s].shows[q] :
       Becomes(w, [Idle EXCEPT !.pc = "save", !.sitting = s, !.option = o])
  /\ UNCHANGED <<bank, sat, answers>>

\* The foreign key refuses an option whose row is gone.
SaveSittingAnswer(w) ==
  /\ On(w, "save")
  /\ LET s == job[w].sitting
         o == job[w].option
     IN /\ o \notin BeingDeleted
        /\ IF o \in options[o.question]
           THEN /\ chosen' = [chosen EXCEPT ![s][o.question] = o]
                /\ saved' = [saved EXCEPT ![s] = @ \cup {o}]
           ELSE UNCHANGED answers
  /\ Ends(w)
  /\ UNCHANGED <<bank, sat>>

-----------------------------------------------------------------------------
(* Its objective marking.                                                  *)

\* submitSitting in time, expireOneSitting after it: each reads the sitting with its
\* answers ...
FindToMark(w, s) ==
  /\ On(w, "idle")
  /\ sitting[s].state = "IN_PROGRESS"
  /\ Becomes(w, [Idle EXCEPT !.pc = "mark", !.sitting = s, !.answers = chosen[s],
                   !.ends = IF sitting[s].overdue THEN "EXPIRED" ELSE "SUBMITTED"])
  /\ UNCHANGED <<bank, sat, answers>>

\* The option chosen is the one the bank now marks right.
IsRight(q, o) == o \in correct[q]

\* ... then the questions of its paper with their options, as they are now ...
MarkObjectives(w) ==
  /\ On(w, "mark")
  /\ LET given == job[w].answers
         asked == paper[job[w].sitting].asked \cap Objective
     IN Becomes(w, [job[w] EXCEPT !.pc = "finish", !.answers = NoAnswers,
                      !.right = {q \in asked : IsRight(q, given[q])}])
  /\ UNCHANGED <<bank, sat, answers>>

\* ... and writes the sitting by id.
FinishSitting(w) ==
  /\ On(w, "finish")
  /\ LET s == job[w].sitting
     IN sitting' = [sitting EXCEPT ![s].state = job[w].ends, ![s].right = job[w].right]
  /\ Ends(w)
  /\ UNCHANGED <<bank, paper, answerKey, answers>>

\* A request dies, and with it its transaction.
RequestDies(w) ==
  /\ ~On(w, "idle")
  /\ Ends(w)
  /\ UNCHANGED <<bank, sat, answers>>

-----------------------------------------------------------------------------
EditBank ==
  \/ \E m \in Module : UpdateExamModule(m)
  \/ \E q \in Question : \/ CreateExamQuestion(q)
                         \/ RetireExamQuestion(q)
                         \/ RestoreExamQuestion(q)

Arrive(w) ==
  \/ \E q \in Question : UpdateExamQuestion(w, q)
  \/ \E s \in Sitting : FindToStart(w, s) \/ FindToSave(w, s) \/ FindToMark(w, s)

Proceed(w) ==
  \/ DeleteOptions(w) \/ ReplaceOptions(w)
  \/ DrawPaper(w) \/ ReadOptions(w) \/ StartSitting(w)
  \/ SaveSittingAnswer(w)
  \/ MarkObjectives(w) \/ FinishSitting(w)
  \/ RequestDies(w)

Next ==
  \/ EditBank
  \/ \E s \in Sitting : TimeRunsOut(s)
  \/ \E w \in Worker : Arrive(w) \/ Proceed(w)

Spec == Init /\ [][Next]_vars

-----------------------------------------------------------------------------
Paper == [asked : SUBSET Question, shows : [Question -> SUBSET Option]]
SittingRow == [state : SittingState, overdue : BOOLEAN, right : SUBSET Question]
Job == [pc : {"idle", "edit", "replace", "draw", "options", "start", "save", "mark", "finish"},
        question : Question \cup {Null}, status : QuestionStatus, doomed : SUBSET Option,
        sitting : Sitting \cup {Null}, draw : [Module -> Draws] \cup {Null},
        paper : Paper, key : SUBSET Option, option : Option \cup {Null},
        ends : SittingState, answers : [Objective -> Option \cup {Null}],
        right : SUBSET Question]

\* Every variable holds rows of the shape the schema gives them; an option is filed
\* under its own question, and a saved choice is an option row that exists.
TypeOK ==
  /\ draw \in [Module -> Draws]
  /\ status \in [Question -> QuestionStatus]
  /\ options \in [Question -> SUBSET Option] /\ correct \in [Question -> SUBSET Option]
  /\ edits \in 0 .. MaxEdits
  /\ sitting \in [Sitting -> SittingRow]
  /\ paper \in [Sitting -> Paper]
  /\ chosen \in [Sitting -> [Objective -> Option \cup {Null}]]
  /\ answerKey \in [Sitting -> SUBSET Option] /\ saved \in [Sitting -> SUBSET Option]
  /\ job \in [Worker -> Job]
  /\ \A q \in Question : correct[q] \subseteq options[q] /\ \A o \in options[q] : o.question = q
  /\ \A s \in Sitting : \A q \in Objective : chosen[s][q] \in options[q] \cup {Null}

\* However the edits of a question cross, it is left with the list of one of them,
\* whole and alone, and one right option in it: the reader of the key
\* (options.find(isCorrect)) has exactly one to find.
OneKey ==
  \A q \in Objective : Exists(q) =>
    /\ \E n \in 0 .. edits : options[q] = Rows(q, n)
    /\ Cardinality(correct[q]) = 1

\* A question marked right is on the sitting's paper, and the candidate at some
\* time saved the option that was right on that paper: no edit of the key, before
\* or during the marking, turns a wrong answer into marks.
NoUnearnedMark ==
  \A s \in Sitting : \A q \in sitting[s].right :
    /\ q \in paper[s].asked
    /\ \E o \in saved[s] \cap answerKey[s] : o.question = q

\* A paper once drawn is never drawn again, by a second request that started the
\* same sitting or by an edit of the bank.
OnePaper ==
  [][\A s \in Sitting : sitting[s].state # "NONE" =>
        paper'[s] = paper[s] /\ answerKey'[s] = answerKey[s]]_vars
==============================================================================
