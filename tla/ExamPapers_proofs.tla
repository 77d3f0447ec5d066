--------------------------- MODULE ExamPapers_proofs ---------------------------
(***************************************************************************)
(* Theorems of ExamPapers, for any bank, any number of sittings, edits and *)
(* requests in flight: type correctness, the one key of a question however *)
(* its edits cross, the marks nobody has without the answer that was right *)
(* on the paper, and the paper drawn once.                                 *)
(***************************************************************************)
EXTENDS ExamPapers, FiniteSetTheorems, TLAPS

Editing(j) == j.pc \in {"edit", "replace"}

\* What a paper shows was in the bank when it was read, under numbers given by then.
PaperTied(p) ==
  \A q \in p.asked :
    Exists(q) /\ \A o \in p.shows[q] : o.list <= edits /\ o.question = q

\* What is right of the options shown, as far as it still is in the bank, was right
\* when the paper was read: a row never becomes right afterwards.
Agrees(p, key) == \A q \in p.asked : p.shows[q] \cap correct[q] \subseteq key

Started(s) == s \in Sitting /\ sitting[s].state # "NONE"
Shown(s, o) == o.question \in paper[s].asked /\ o \in paper[s].shows[o.question]
Earned(s, q) ==
  q \in paper[s].asked /\ \E o \in saved[s] \cap answerKey[s] : o.question = q

\* The bank: one list and one right option to a question, none to a written one.
BankInv ==
  /\ \A q \in Objective : Exists(q) =>
       \E n \in 0 .. edits : \E o \in Rows(q, n) :
         options[q] = Rows(q, n) /\ correct[q] = {o}
  /\ \A q \in Question : q \in Written \/ ~Exists(q) => options[q] = {}

SatTied(s) ==
  /\ PaperTied(paper[s]) /\ Agrees(paper[s], answerKey[s])
  /\ saved[s] # {} => Started(s)
  /\ \A o \in saved[s] : Shown(s, o)
  /\ \A q \in Objective : chosen[s][q] # Null => chosen[s][q] \in saved[s]
  /\ \A q \in sitting[s].right : Earned(s, q)
SatInv == \A s \in Sitting : SatTied(s)

\* What a request under way relies on.
JobTied(j) ==
  /\ Editing(j) => j.question \in Question /\ Exists(j.question) /\ j.status # "NONE"
  /\ j.pc = "replace" => j.doomed = options[j.question]
  /\ j.pc \in {"draw", "options", "start"} => j.sitting \in Sitting
  /\ j.pc \in {"options", "start"} => PaperTied(j.paper)
  /\ j.pc = "start" => Agrees(j.paper, j.key)
  /\ j.pc \in {"save", "mark", "finish"} => Started(j.sitting)
  /\ j.pc = "save" => j.option \in Option /\ Shown(j.sitting, j.option)
  /\ j.pc \in {"mark", "finish"} => j.ends # "NONE"
  /\ j.pc = "mark" => \A q \in Objective : j.answers[q] # Null =>
       j.answers[q] \in saved[j.sitting] /\ j.answers[q].question = q
  /\ j.pc = "finish" => \A q \in j.right : Earned(j.sitting, q)

\* The row lock: one edit at a time of a question.
OneEditor ==
  \A v, w \in Worker :
    Editing(job[v]) /\ Editing(job[w]) /\ job[v].question = job[w].question => v = w

JobsInv == (\A w \in Worker : JobTied(job[w])) /\ OneEditor
Inv == TypeOK /\ BankInv /\ SatInv /\ JobsInv

\* The action of OnePaper.
PapersStay ==
  \A s \in Sitting : sitting[s].state # "NONE" =>
    paper'[s] = paper[s] /\ answerKey'[s] = answerKey[s]

-----------------------------------------------------------------------------
LEMMA RowsAreOptions ==
  ASSUME NEW q \in Question, NEW n \in 0 .. MaxEdits
  PROVE  \A o \in Rows(q, n) : o \in Option /\ o.question = q /\ o.list = n
BY DEF Rows, Option

LEMMA Blanks ==
  ASSUME NEW Q \in SUBSET Question
  PROVE  /\ Blank(Q) \in Paper /\ Blank(Q).asked = Q
         /\ \A q \in Question : Blank(Q).shows[q] = {}
BY DEF Blank, Paper

LEMMA Empties == /\ NoPaper \in Paper /\ NoPaper.asked = {}
                 /\ NoAnswers \in [Objective -> Option \cup {Null}]
                 /\ \A q \in Objective : NoAnswers[q] = Null
BY Blanks DEF NoPaper, NoAnswers

LEMMA IdleIsJob == Idle \in Job /\ Idle.pc = "idle"
BY Empties DEF Idle, Job, QuestionStatus, SittingState

LEMMA IdleIsTied == JobTied(Idle) /\ ~Editing(Idle)
BY IdleIsJob DEF JobTied, Editing

LEMMA NothingOnIt == ASSUME NEW k PROVE PaperTied(NoPaper) /\ Agrees(NoPaper, k)
BY Empties DEF PaperTied, Agrees

LEMMA JobIsTyped == ASSUME TypeOK, NEW w \in Worker PROVE job[w] \in Job
BY DEF TypeOK

LEMMA JobsTyped ==
  ASSUME TypeOK, NEW w \in Worker, NEW j \in Job, job' = [job EXCEPT ![w] = j]
  PROVE  /\ job' \in [Worker -> Job]
         /\ job'[w] = j
         /\ \A v \in Worker : v # w => job'[v] = job[v]
BY DEF TypeOK

LEMMA InitInv == Init => Inv
<1> SUFFICES ASSUME Init PROVE Inv
  OBVIOUS
<1>1. /\ status = [q \in Question |-> "NONE"]
      /\ options = [q \in Question |-> {}] /\ correct = [q \in Question |-> {}]
      /\ edits = 0 /\ draw \in [Module -> Draws]
      /\ sitting = [s \in Sitting |-> [state |-> "NONE", overdue |-> FALSE, right |-> {}]]
      /\ paper = [s \in Sitting |-> NoPaper]
      /\ chosen = [s \in Sitting |-> NoAnswers]
      /\ answerKey = [s \in Sitting |-> {}] /\ saved = [s \in Sitting |-> {}]
      /\ job = [w \in Worker |-> Idle]
  BY DEF Init
<1>2. [state |-> "NONE", overdue |-> FALSE, right |-> {}] \in SittingRow
  BY DEF SittingRow, SittingState
<1>3. TypeOK
  BY <1>1, <1>2, Empties, IdleIsJob, PaperAssumption DEF TypeOK, QuestionStatus
<1>4. BankInv
  BY <1>1 DEF BankInv, Exists, Objective
<1>5. SatInv
  <2>1. ASSUME NEW s \in Sitting PROVE SatTied(s)
    <3>1. PaperTied(paper[s]) /\ Agrees(paper[s], answerKey[s])
      BY <1>1, NothingOnIt DEF PaperTied, Agrees
    <3> QED BY <1>1, <3>1, Empties DEF SatTied
  <2> QED BY <2>1 DEF SatInv
<1>6. JobsInv
  <2>1. ASSUME NEW w \in Worker PROVE JobTied(job[w]) /\ ~Editing(job[w])
    BY <1>1, IdleIsTied
  <2> QED BY <2>1 DEF JobsInv, OneEditor
<1> QED BY <1>3, <1>4, <1>5, <1>6 DEF Inv

-----------------------------------------------------------------------------
(* What a step may do to the bank and to the sittings.                     *)

\* A question stays, and an option becomes right only as a new row.
BankKept ==
  /\ draw' \in [Module -> Draws] /\ status' \in [Question -> QuestionStatus]
  /\ options' \in [Question -> SUBSET Option] /\ correct' \in [Question -> SUBSET Option]
  /\ edits' \in 0 .. MaxEdits /\ edits <= edits'
  /\ \A q \in Question : correct'[q] \subseteq options'[q]
  /\ \A q \in Question : \A o \in options'[q] : o.question = q
  /\ \A q \in Question : Exists(q) => Exists(q)'
  /\ \A q \in Question : \A o \in correct'[q] :
       o \in correct[q] \/ o.list > edits \/ ~Exists(q)
  /\ BankInv'

\* A sitting once started keeps its paper, and choices are added to those saved.
SatKept ==
  /\ sitting' \in [Sitting -> SittingRow] /\ paper' \in [Sitting -> Paper]
  /\ chosen' \in [Sitting -> [Objective -> Option \cup {Null}]]
  /\ answerKey' \in [Sitting -> SUBSET Option] /\ saved' \in [Sitting -> SUBSET Option]
  /\ \A s \in Sitting : \A q \in Objective : chosen'[s][q] \in options'[q] \cup {Null}
  /\ \A s \in Sitting : Started(s) => Started(s)'
  /\ \A s \in Sitting : saved[s] \subseteq saved'[s]
  /\ PapersStay
  /\ SatInv'

LEMMA OptionsAreOld ==
  ASSUME Inv, NEW q \in Question, NEW o \in options[q]
  PROVE  o \in Option /\ o.question = q /\ o.list <= edits /\ Exists(q)
<1>1. q \in Objective /\ Exists(q)
  BY DEF Inv, BankInv, Objective
<1>2. PICK n \in 0 .. edits : options[q] = Rows(q, n)
  BY <1>1 DEF Inv, BankInv
<1>3. n \in 0 .. MaxEdits
  BY PaperAssumption DEF Inv, TypeOK
<1> QED BY <1>1, <1>2, <1>3, RowsAreOptions DEF Inv, TypeOK

LEMMA PaperStays ==
  ASSUME Inv, BankKept, NEW p \in Paper, PaperTied(p)
  PROVE  PaperTied(p)' /\ \A k : Agrees(p, k) => Agrees(p, k)'
<1>1. /\ p.asked \subseteq Question
      /\ \A q \in p.asked : \A o \in p.shows[q] : o \in Option /\ o.list \in Nat
  BY DEF Paper, Option
<1>2. edits \in Nat /\ edits' \in Nat /\ edits <= edits'
  BY DEF BankKept, Inv, TypeOK
<1>3. PaperTied(p)'
  BY <1>1, <1>2 DEF PaperTied, BankKept
<1>4. ASSUME NEW k, Agrees(p, k) PROVE Agrees(p, k)'
  BY <1>1, <1>2, <1>4 DEF PaperTied, Agrees, BankKept
<1> QED BY <1>3, <1>4

LEMMA BankSame == ASSUME Inv, UNCHANGED bank PROVE BankKept
<1>1. UNCHANGED <<draw, status, options, correct, edits>>
  BY DEF bank
<1>2. BankInv'
  BY <1>1 DEF Inv, BankInv, Exists
<1> QED BY <1>1, <1>2 DEF Inv, TypeOK, BankKept, Exists

\* No step but a start touches the papers.
LEMMA PapersTied ==
  ASSUME Inv, BankKept, UNCHANGED <<paper, answerKey>>, NEW s \in Sitting
  PROVE  PaperTied(paper[s])' /\ Agrees(paper[s], answerKey[s])'
<1>1. PICK p \in Paper, k \in SUBSET Option : p = paper[s] /\ k = answerKey[s]
  BY DEF Inv, TypeOK
<1>2. PaperTied(p)' /\ Agrees(p, k)'
  BY <1>1, PaperStays DEF Inv, SatInv, SatTied
<1>3. p = paper'[s] /\ k = answerKey'[s]
  BY <1>1
<1> QED BY <1>2, <1>3 DEF PaperTied, Agrees

\* Choices may be lost, or set to one the sitting has just been told of.
LEMMA ChoicesMove ==
  ASSUME Inv, BankKept, UNCHANGED sat, saved' \in [Sitting -> SUBSET Option],
         chosen' \in [Sitting -> [Objective -> Option \cup {Null}]],
         \A s \in Sitting : \A q \in Objective :
           /\ chosen'[s][q] \in options'[q] \cup {Null}
           /\ chosen'[s][q] # Null => chosen'[s][q] \in saved'[s],
         \A s \in Sitting : saved[s] \subseteq saved'[s],
         \A s \in Sitting : \A o \in saved'[s] : Started(s) /\ Shown(s, o)
  PROVE  SatKept
<1>1. UNCHANGED <<sitting, paper, answerKey>>
  BY DEF sat
<1>2. ASSUME NEW s \in Sitting PROVE SatTied(s)'
  <2>1. PaperTied(paper[s])' /\ Agrees(paper[s], answerKey[s])'
    BY <1>1, PapersTied
  <2>2. \A o \in saved'[s] : Started(s)' /\ Shown(s, o)'
    BY <1>1 DEF Started, Shown
  <2>3. \A q \in sitting'[s].right : Earned(s, q)'
    BY <1>1 DEF Inv, SatInv, SatTied, Earned
  <2> QED BY <2>1, <2>2, <2>3 DEF SatTied
<1>3. SatInv'
  BY <1>2 DEF SatInv
<1> QED BY <1>1, <1>3 DEF SatKept, PapersStay, Started, Inv, TypeOK

LEMMA SatSame ==
  ASSUME Inv, BankKept, UNCHANGED <<sat, answers>>, UNCHANGED options PROVE SatKept
<1>1. UNCHANGED <<chosen, saved>>
  BY DEF answers
<1>2. \A s \in Sitting : saved[s] # {} => Started(s)
  BY DEF Inv, SatInv, SatTied
<1> QED BY <1>1, <1>2, ChoicesMove DEF Inv, TypeOK, SatInv, SatTied

\* One sitting goes on, its marks earned.
LEMMA SittingMoves ==
  ASSUME Inv, UNCHANGED <<bank, paper, answerKey, answers>>, NEW s \in Sitting,
         NEW r \in SittingRow, sitting' = [sitting EXCEPT ![s] = r],
         r.state # "NONE", \A q \in r.right : Earned(s, q)
  PROVE  BankKept /\ SatKept
<1>1. BankKept /\ UNCHANGED <<chosen, saved, options>>
  BY BankSame DEF bank, answers
<1>2. sitting \in [Sitting -> SittingRow]
  BY DEF Inv, TypeOK
<1>3. ASSUME NEW t \in Sitting PROVE SatTied(t)' /\ (Started(t) => Started(t)')
  <2>1. PaperTied(paper[t])' /\ Agrees(paper[t], answerKey[t])'
    BY <1>1, PapersTied
  <2>2. Started(t) => Started(t)'
    BY <1>2 DEF Started
  <2>3. \A q \in sitting'[t].right : Earned(t, q)
    BY <1>2 DEF Inv, SatInv, SatTied
  <2>4. \A q : Earned(t, q) => Earned(t, q)'
    BY <1>1 DEF Earned
  <2> QED BY <1>1, <2>1, <2>2, <2>3, <2>4 DEF Inv, SatInv, SatTied, Shown
<1> QED BY <1>1, <1>2, <1>3 DEF SatKept, PapersStay, SatInv, Inv, TypeOK

\* What a request relies on is kept as long as nobody else writes its question's list.
LEMMA TiedStays ==
  ASSUME Inv, BankKept, SatKept, NEW j \in Job, JobTied(j),
         Editing(j) => options'[j.question] = options[j.question]
  PROVE  JobTied(j)'
<1>1. j.paper \in Paper
  BY DEF Job
<1>2. PaperTied(j.paper) =>
        PaperTied(j.paper)' /\ (Agrees(j.paper, j.key) => Agrees(j.paper, j.key)')
  BY <1>1, PaperStays
<1>3. \A s \in Sitting : Started(s) => Started(s)' /\ paper'[s] = paper[s]
                          /\ answerKey'[s] = answerKey[s] /\ saved[s] \subseteq saved'[s]
  BY DEF SatKept, PapersStay, Started
<1>4. \A s : Started(s) => s \in Sitting
  BY DEF Started
<1>5. \A s, q : Started(s) /\ Earned(s, q) => Earned(s, q)'
  BY <1>3, <1>4 DEF Earned
<1>6. \A s, o : Started(s) /\ Shown(s, o) => Shown(s, o)'
  BY <1>3, <1>4 DEF Shown
<1>7. Editing(j) => /\ j.question \in Question /\ Exists(j.question)'
                    /\ j.status # "NONE"
  BY DEF JobTied, BankKept
<1>8. j.pc = "replace" => j.doomed = options'[j.question]
  BY DEF JobTied, Editing
<1>9. j.pc = "mark" => \A q \in Objective : j.answers[q] # Null =>
        j.answers[q] \in saved'[j.sitting] /\ j.answers[q].question = q
  BY <1>3, <1>4 DEF JobTied
<1>10. j.pc \in {"save", "mark", "finish"} => Started(j.sitting)'
  BY <1>3, <1>4 DEF JobTied
<1>11. j.pc = "save" => j.option \in Option /\ Shown(j.sitting, j.option)'
  BY <1>6 DEF JobTied
<1>12. j.pc = "finish" => \A q \in j.right : Earned(j.sitting, q)'
  BY <1>5 DEF JobTied
<1>13. /\ j.pc \in {"options", "start"} => PaperTied(j.paper)'
       /\ j.pc = "start" => Agrees(j.paper, j.key)'
  BY <1>2 DEF JobTied
<1>14. /\ j.pc \in {"draw", "options", "start"} => j.sitting \in Sitting
       /\ j.pc \in {"mark", "finish"} => j.ends # "NONE"
  BY DEF JobTied
<1> QED BY <1>7, <1>8, <1>9, <1>10, <1>11, <1>12, <1>13, <1>14 DEF JobTied

LEMMA TiedThere ==
  ASSUME NEW w \in Worker, NEW j \in Job, j = job'[w], JobTied(j)' PROVE JobTied(job[w])'
BY DEF JobTied, Editing

\* A step that touches no job.
LEMMA SparesJobs ==
  ASSUME Inv, BankKept, SatKept, UNCHANGED job,
         \A w \in Worker : Editing(job[w]) =>
           options'[job[w].question] = options[job[w].question]
  PROVE  Inv' /\ PapersStay
<1>1. ASSUME NEW w \in Worker PROVE JobTied(job[w])'
  <2>1. PICK j \in Job : j = job[w]
    BY DEF Inv, TypeOK
  <2>2. JobTied(j)'
    BY <2>1, TiedStays DEF Inv, JobsInv
  <2> QED BY <2>1, <2>2, TiedThere
<1>2. JobsInv'
  BY <1>1 DEF Inv, JobsInv, OneEditor, Editing
<1>3. TypeOK'
  BY DEF Inv, TypeOK, BankKept, SatKept
<1> QED BY <1>2, <1>3 DEF Inv, BankKept, SatKept

\* A step of a request.
LEMMA GivesJob ==
  ASSUME Inv, BankKept, SatKept,
         NEW w \in Worker, NEW j \in Job, job' = [job EXCEPT ![w] = j], JobTied(j)',
         \A v \in Worker : v # w /\ Editing(job[v]) =>
           /\ options'[job[v].question] = options[job[v].question]
           /\ Editing(j) => job[v].question # j.question
  PROVE  Inv' /\ PapersStay
<1>1. /\ job' \in [Worker -> Job] /\ job'[w] = j
      /\ \A v \in Worker : v # w => job'[v] = job[v]
  BY JobsTyped DEF Inv
<1>2. ASSUME NEW v \in Worker PROVE JobTied(job[v])'
  <2>1. CASE v = w
    BY <1>1, <2>1, TiedThere
  <2>2. CASE v # w
    <3>1. PICK i \in Job : i = job[v]
      BY DEF Inv, TypeOK
    <3>2. JobTied(i)'
      BY <2>2, <3>1, TiedStays DEF Inv, JobsInv
    <3> QED BY <1>1, <2>2, <3>1, <3>2, TiedThere
  <2> QED BY <2>1, <2>2
<1>3. OneEditor'
  BY <1>1 DEF Inv, JobsInv, OneEditor, Editing
<1>4. TypeOK'
  BY <1>1 DEF Inv, TypeOK, BankKept, SatKept
<1> QED BY <1>2, <1>3, <1>4 DEF Inv, JobsInv, BankKept, SatKept

\* A step of a request that leaves bank, sittings and choices alone.
LEMMA Takes ==
  ASSUME Inv, UNCHANGED <<bank, sat, answers>>,
         NEW w \in Worker, NEW j \in Job, job' = [job EXCEPT ![w] = j], JobTied(j),
         Editing(j) => \A v \in Worker :
           v # w /\ Editing(job[v]) => job[v].question # j.question
  PROVE  Inv' /\ PapersStay
<1>1. BankKept /\ SatKept /\ UNCHANGED options
  BY BankSame, SatSame DEF bank
<1>2. JobTied(j)'
  BY <1>1, TiedStays
<1> QED BY <1>1, <1>2, GivesJob

\* A request ends and leaves everything as it was.
LEMMA EndsQuietly ==
  ASSUME Inv, UNCHANGED <<bank, sat, answers>>, NEW w \in Worker, job' = [job EXCEPT ![w] = Idle]
  PROVE  Inv' /\ PapersStay
BY IdleIsJob, IdleIsTied, Takes

-----------------------------------------------------------------------------
(* The bank.                                                               *)

\* A question's status, and the number of edits, move alone.
LEMMA Restated ==
  ASSUME Inv, NEW q \in Question, NEW st \in QuestionStatus \ {"NONE"},
         Exists(q) \/ q \in Written, status' = [status EXCEPT ![q] = st],
         edits' \in 0 .. MaxEdits, edits <= edits', UNCHANGED <<draw, options, correct>>
  PROVE  BankKept
<1>1. \A p \in Question : Exists(p) => Exists(p)'
  BY DEF Exists, Inv, TypeOK
<1>2. \A p \in Objective : Exists(p)' => Exists(p)
  BY DEF Exists, Inv, TypeOK, Objective
<1>3. edits \in Nat /\ edits' \in Nat /\ 0 .. edits \subseteq 0 .. edits'
  BY DEF Inv, TypeOK
<1>4. BankInv'
  BY <1>1, <1>2, <1>3 DEF Inv, BankInv
<1> QED BY <1>1, <1>4 DEF BankKept, Inv, TypeOK

\* A question is given a new list.
LEMMA Rewritten ==
  ASSUME Inv, NEW q \in Objective, NEW st \in QuestionStatus \ {"NONE"},
         status' = [status EXCEPT ![q] = st],
         edits' \in 0 .. MaxEdits, edits <= edits', UNCHANGED draw,
         NEW n \in 0 .. edits', n > edits \/ ~Exists(q), NEW o \in Rows(q, n),
         options' = [options EXCEPT ![q] = Rows(q, n)],
         correct' = [correct EXCEPT ![q] = {o}]
  PROVE  BankKept
<1>1. q \in Question /\ q \notin Written /\ n \in 0 .. MaxEdits
  BY PaperAssumption DEF Objective
<1>2. \A x \in Rows(q, n) : x \in Option /\ x.question = q /\ x.list = n
  BY <1>1, RowsAreOptions
<1>3. \A p \in Question : Exists(p) => Exists(p)'
  BY DEF Exists, Inv, TypeOK
<1>4. \A p \in Question : p # q => (Exists(p) <=> Exists(p)')
  BY DEF Exists, Inv, TypeOK
<1>5. /\ options'[q] = Rows(q, n) /\ correct'[q] = {o}
      /\ \A p \in Question : p # q => options'[p] = options[p] /\ correct'[p] = correct[p]
      /\ options' \in [Question -> SUBSET Option] /\ correct' \in [Question -> SUBSET Option]
  BY <1>1, <1>2 DEF Inv, TypeOK
<1>6. edits \in Nat /\ edits' \in Nat /\ 0 .. edits \subseteq 0 .. edits'
  BY DEF Inv, TypeOK
<1>7. BankInv'
  <2>1. ASSUME NEW p \in Objective, Exists(p)'
        PROVE  \E k \in 0 .. edits' : \E x \in Rows(p, k) :
                 options'[p] = Rows(p, k) /\ correct'[p] = {x}
    <3>1. CASE p = q
      BY <1>5, <3>1
    <3>2. CASE p # q
      BY <1>4, <1>5, <1>6, <2>1, <3>2 DEF Inv, BankInv, Objective
    <3> QED BY <3>1, <3>2
  <2>2. \A p \in Question : p \in Written \/ ~Exists(p)' => options'[p] = {}
    <3>1. Exists(q)'
      BY <1>1 DEF Exists, Inv, TypeOK
    <3> QED BY <1>1, <1>4, <1>5, <3>1 DEF Inv, BankInv
  <2>3. \A p, k : Rows(p, k)' = Rows(p, k)
    BY DEF Rows
  <2> QED BY <2>1, <2>2, <2>3 DEF BankInv
<1>8. \A p \in Question :
        /\ correct'[p] \subseteq options'[p]
        /\ \A x \in options'[p] : x.question = p
        /\ \A x \in correct'[p] :
              x \in correct[p] \/ x.list > edits \/ ~Exists(p)
  BY <1>2, <1>5 DEF Inv, TypeOK
<1> QED BY <1>1, <1>3, <1>5, <1>7, <1>8 DEF BankKept, Inv, TypeOK

LEMMA EditingExists ==
  ASSUME Inv, NEW w \in Worker, Editing(job[w])
  PROVE  job[w].question \in Question /\ Exists(job[w].question)
BY DEF Inv, JobsInv, JobTied

LEMMA CreateStep ==
  ASSUME Inv, NEW q \in Question, CreateExamQuestion(q) PROVE Inv' /\ PapersStay
<1>1. /\ ~Exists(q) /\ UNCHANGED <<draw, edits, sat, answers, job>>
      /\ edits \in 0 .. MaxEdits /\ edits <= edits
  BY DEF CreateExamQuestion, Inv, TypeOK
<1>2. PICK st \in {"DRAFT", "APPROVED"} : status' = [status EXCEPT ![q] = st]
  BY DEF CreateExamQuestion
<1>3. st \in QuestionStatus \ {"NONE"}
  BY DEF QuestionStatus
<1>4. BankKept
  <2>1. CASE q \in Written
    BY <1>1, <1>2, <1>3, <2>1, Restated DEF CreateExamQuestion
  <2>2. CASE q \notin Written
    <3>1. options' = [options EXCEPT ![q] = Rows(q, 0)]
      BY <2>2 DEF CreateExamQuestion
    <3>2. PICK o \in Rows(q, 0) : correct' = [correct EXCEPT ![q] = {o}]
      BY <2>2 DEF CreateExamQuestion
    <3>3. q \in Objective /\ 0 \in 0 .. edits'
      BY <1>1, <2>2 DEF Objective
    <3> QED BY <1>1, <1>2, <1>3, <3>1, <3>2, <3>3, Rewritten
  <2> QED BY <2>1, <2>2
<1>5. \A p \in Question : p # q => options'[p] = options[p]
  BY <1>1 DEF CreateExamQuestion, Inv, TypeOK
<1>6. options[q] = {}
  BY <1>1 DEF Inv, BankInv
<1>7. SatKept
  <2>1. \A s \in Sitting : \A p \in Objective : chosen[s][p] \in options'[p] \cup {Null}
    BY <1>5, <1>6 DEF Inv, TypeOK, Objective
  <2>2. \A s \in Sitting : saved[s] # {} => Started(s)
    BY DEF Inv, SatInv, SatTied
  <2> QED BY <1>1, <1>4, <2>1, <2>2, ChoicesMove DEF answers, Inv, TypeOK, SatInv, SatTied
<1>8. \A w \in Worker : Editing(job[w]) => options'[job[w].question] = options[job[w].question]
  BY <1>1, <1>5, EditingExists
<1> QED BY <1>1, <1>4, <1>7, <1>8, SparesJobs

\* The other statements on the bank leave its lists alone.
LEMMA QuestionStep ==
  ASSUME Inv, NEW q \in Question, RetireExamQuestion(q) \/ RestoreExamQuestion(q)
  PROVE  Inv' /\ PapersStay
<1>1. UNCHANGED <<draw, options, correct, edits, sat, answers, job>> /\ Exists(q)
  BY DEF RetireExamQuestion, RestoreExamQuestion
<1>2. PICK st \in {"RETIRED", "APPROVED"} : status' = [status EXCEPT ![q] = st]
  BY DEF RetireExamQuestion, RestoreExamQuestion
<1>3. /\ st \in QuestionStatus \ {"NONE"}
      /\ edits' \in 0 .. MaxEdits /\ edits <= edits'
  BY <1>1 DEF QuestionStatus, Inv, TypeOK
<1>4. BankKept
  BY <1>1, <1>2, <1>3, Restated
<1> QED BY <1>1, <1>4, SatSame, SparesJobs

LEMMA ModuleStep ==
  ASSUME Inv, NEW m \in Module, UpdateExamModule(m) PROVE Inv' /\ PapersStay
<1>1. UNCHANGED <<status, options, correct, edits, sat, answers, job>>
  BY DEF UpdateExamModule
<1>2. draw' \in [Module -> Draws]
  BY DEF UpdateExamModule, Inv, TypeOK
<1>3. BankInv'
  BY <1>1 DEF Inv, BankInv, Exists
<1>4. BankKept
  BY <1>1, <1>2, <1>3 DEF BankKept, Inv, TypeOK, Exists
<1> QED BY <1>1, <1>4, SatSame, SparesJobs

LEMMA UpdateStep ==
  ASSUME Inv, NEW w \in Worker, NEW q \in Question, UpdateExamQuestion(w, q)
  PROVE  Inv' /\ PapersStay
<1>1. PICK st \in {"DRAFT", "APPROVED"} :
        job' = [job EXCEPT ![w] = [Idle EXCEPT !.pc = "edit", !.question = q, !.status = st]]
  BY DEF UpdateExamQuestion, Becomes
<1>2. PICK j : j = [Idle EXCEPT !.pc = "edit", !.question = q, !.status = st]
  OBVIOUS
<1>3. j \in Job /\ j.pc = "edit" /\ j.question = q /\ j.status = st
  BY <1>2, IdleIsJob DEF Job, QuestionStatus
<1>4. JobTied(j)
  BY <1>3 DEF JobTied, Editing, UpdateExamQuestion
<1>5. \A v \in Worker : Editing(job[v]) => job[v].question # q
  BY DEF UpdateExamQuestion, QuestionLocked, Editing
<1>6. job' = [job EXCEPT ![w] = j] /\ UNCHANGED <<bank, sat, answers>>
  BY <1>1, <1>2 DEF UpdateExamQuestion
<1> QED BY <1>3, <1>4, <1>5, <1>6, Takes

LEMMA DeleteStep ==
  ASSUME Inv, NEW w \in Worker, DeleteOptions(w) PROVE Inv' /\ PapersStay
<1>1. PICK q : q = job[w].question
  OBVIOUS
<1>2. job[w] \in Job /\ JobTied(job[w]) /\ Editing(job[w]) /\ q \in Question /\ Exists(q)
  BY <1>1, JobIsTyped, EditingExists DEF DeleteOptions, On, Editing, Inv, JobsInv
<1>3. PICK j : j = [job[w] EXCEPT !.pc = "replace", !.doomed = options[q]]
  OBVIOUS
<1>4. options[q] \in SUBSET Option
  BY <1>2 DEF Inv, TypeOK
<1>5. j \in Job /\ j.pc = "replace" /\ j.question = q /\ j.doomed = options[q]
      /\ j.status = job[w].status
  BY <1>1, <1>2, <1>3, <1>4 DEF Job
<1>6. JobTied(j)
  BY <1>2, <1>5 DEF JobTied, Editing
<1>7. \A v \in Worker : v # w /\ Editing(job[v]) => job[v].question # q
  BY <1>1, <1>2 DEF Inv, JobsInv, OneEditor
<1>8. job' = [job EXCEPT ![w] = j] /\ UNCHANGED <<bank, sat, answers>>
  BY <1>1, <1>3 DEF DeleteOptions, Becomes
<1> QED BY <1>5, <1>6, <1>7, <1>8, Takes

\* An edit commits: it has deleted every option there was.
LEMMA ReplaceStep ==
  ASSUME Inv, NEW w \in Worker, ReplaceOptions(w) PROVE Inv' /\ PapersStay
<1>1. PICK q, n, doomed, st : /\ q = job[w].question /\ n = edits + 1
                             /\ doomed = job[w].doomed /\ st = job[w].status
  OBVIOUS
<1>2. /\ job[w] \in Job /\ JobTied(job[w]) /\ Editing(job[w])
      /\ q \in Question /\ Exists(q) /\ doomed = options[q]
      /\ edits < MaxEdits /\ edits' = n /\ status' = [status EXCEPT ![q] = st]
      /\ UNCHANGED <<draw, sat, saved>> /\ job' = [job EXCEPT ![w] = Idle]
  BY <1>1, JobIsTyped, EditingExists
     DEF ReplaceOptions, On, Editing, Inv, JobsInv, JobTied, Ends, Becomes
<1>3. edits \in 0 .. MaxEdits /\ n \in 0 .. MaxEdits /\ edits <= edits' /\ n > edits
      /\ n \in 0 .. edits'
  BY <1>1, <1>2, PaperAssumption DEF Inv, TypeOK
<1>4. st \in QuestionStatus \ {"NONE"}
  BY <1>1, <1>2 DEF Job, JobTied
<1>5. CASE q \in Written
  <2>1. UNCHANGED <<options, correct, chosen>>
    BY <1>1, <1>5 DEF ReplaceOptions
  <2>2. BankKept
    BY <1>2, <1>3, <1>4, <1>5, <2>1, Restated
  <2>3. SatKept
    BY <1>2, <2>1, <2>2, SatSame DEF answers
  <2> QED BY <1>2, <2>1, <2>2, <2>3, IdleIsJob, IdleIsTied, TiedStays, GivesJob
<1>6. CASE q \notin Written
  <2>1. q \in Objective
    BY <1>2, <1>6 DEF Objective
  <2>2. /\ options' = [options EXCEPT ![q] = (options[q] \ doomed) \cup Rows(q, n)]
        /\ \E o \in Rows(q, n) :
             correct' = [correct EXCEPT ![q] = (correct[q] \cap (options[q] \ doomed)) \cup {o}]
        /\ chosen' = [s \in Sitting |-> [p \in Objective |->
                       AfterDelete(chosen[s][p], doomed \ options'[q])]]
    <3>1. /\ options' = [options EXCEPT ![q] = (options[q] \ doomed) \cup Rows(q, n)]
          /\ \E o \in Rows(q, n) :
               correct' = [correct EXCEPT ![q] = (@ \cap (options[q] \ doomed)) \cup {o}]
          /\ chosen' = [s \in Sitting |-> [p \in Objective |->
                         AfterDelete(chosen[s][p], doomed \ options'[q])]]
      BY <1>1, <1>6 DEF ReplaceOptions
    <3> QED BY <3>1
  <2>3. options[q] \ doomed = {}
    BY <1>2
  <2>4. options' = [options EXCEPT ![q] = Rows(q, n)]
    BY <2>2, <2>3
  <2>5. PICK o \in Rows(q, n) : correct' = [correct EXCEPT ![q] = {o}]
    BY <2>2, <2>3
  <2>6. BankKept
    BY <1>2, <1>3, <1>4, <2>1, <2>4, <2>5, Rewritten
  <2>7. /\ \A p \in Question : p # q => options'[p] = options[p]
        /\ options' \in [Question -> SUBSET Option]
    BY <2>4, <2>6 DEF BankKept, Inv, TypeOK
  <2>8. ASSUME NEW s \in Sitting, NEW p \in Objective
        PROVE  /\ chosen'[s][p] \in options'[p] \cup {Null}
               /\ chosen'[s][p] \in {chosen[s][p], Null}
    <3>1. chosen'[s][p] = AfterDelete(chosen[s][p], doomed \ options'[q])
      BY <2>2
    <3>2. chosen[s][p] \in options[p] \cup {Null} /\ p \in Question
      BY DEF Inv, TypeOK, Objective
    <3> QED BY <1>2, <2>7, <3>1, <3>2 DEF AfterDelete
  <2>9. chosen' \in [Sitting -> [Objective -> Option \cup {Null}]]
    <3>1. ASSUME NEW s \in Sitting, NEW p \in Objective
          PROVE  chosen'[s][p] \in Option \cup {Null}
      BY <2>8 DEF Inv, TypeOK
    <3> QED BY <2>2, <3>1
  <2>10. SatKept
    <3>1. \A s \in Sitting : saved[s] # {} => Started(s)
      BY DEF Inv, SatInv, SatTied
    <3> QED BY <1>2, <2>6, <2>8, <2>9, <3>1, ChoicesMove DEF Inv, TypeOK, SatInv, SatTied
  <2>11. \A v \in Worker : v # w /\ Editing(job[v]) =>
           options'[job[v].question] = options[job[v].question]
    BY <1>1, <1>2, <2>7, EditingExists DEF Inv, JobsInv, OneEditor
  <2> QED BY <1>2, <2>6, <2>10, <2>11, IdleIsJob, IdleIsTied, TiedStays, GivesJob
<1> QED BY <1>5, <1>6

-----------------------------------------------------------------------------
(* The paper.                                                              *)

LEMMA DrawnExist ==
  ASSUME NEW d, NEW Q \in Drawable(d)
  PROVE  Q \in SUBSET Question /\ \A q \in Q : Exists(q)
<1>1. ASSUME NEW q \in Q PROVE q \in Question /\ Exists(q)
  <2>1. q \in Question /\ ModuleOf[q] \in Module
    BY PaperAssumption DEF Drawable
  <2>2. PICK m \in Module : m = ModuleOf[q]
    BY <2>1
  <2>3. {p \in Q : ModuleOf[p] = m} \subseteq Approved(m)
    BY DEF Drawable
  <2> QED BY <2>1, <2>2, <2>3 DEF Approved, Exists
<1> QED BY <1>1

LEMMA FindToStartStep ==
  ASSUME Inv, NEW w \in Worker, NEW s \in Sitting, FindToStart(w, s)
  PROVE  Inv' /\ PapersStay
<1>1. PICK j : j = [Idle EXCEPT !.pc = "draw", !.sitting = s, !.draw = draw]
  OBVIOUS
<1>2. draw \in [Module -> Draws]
  BY DEF Inv, TypeOK
<1>3. j \in Job /\ j.pc = "draw" /\ j.sitting = s
  BY <1>1, <1>2, IdleIsJob DEF Job
<1>4. JobTied(j) /\ ~Editing(j)
  BY <1>3 DEF JobTied, Editing
<1> QED BY <1>1, <1>3, <1>4, Takes DEF FindToStart, Becomes

LEMMA DrawStep ==
  ASSUME Inv, NEW w \in Worker, DrawPaper(w) PROVE Inv' /\ PapersStay
<1>1. PICK Q \in Drawable(job[w].draw) :
        job' = [job EXCEPT ![w] = [job[w] EXCEPT !.pc = "options", !.draw = Null,
                                                 !.paper = Blank(Q)]]
  BY DEF DrawPaper, Becomes
<1>2. Q \in SUBSET Question /\ \A q \in Q : Exists(q)
  BY DrawnExist
<1>3. PICK p : p = Blank(Q)
  OBVIOUS
<1>4. p \in Paper /\ p.asked = Q /\ \A q \in Question : p.shows[q] = {}
  BY <1>2, <1>3, Blanks
<1>5. PaperTied(p)
  BY <1>2, <1>4 DEF PaperTied
<1>6. PICK j : j = [job[w] EXCEPT !.pc = "options", !.draw = Null, !.paper = p]
  OBVIOUS
<1>7. job[w] \in Job /\ job[w].sitting \in Sitting
  BY JobIsTyped DEF Inv, JobsInv, JobTied, DrawPaper, On
<1>8. j \in Job /\ j.pc = "options" /\ j.sitting \in Sitting /\ j.paper = p
  BY <1>4, <1>6, <1>7 DEF Job
<1>9. JobTied(j) /\ ~Editing(j)
  BY <1>5, <1>8 DEF JobTied, Editing
<1> QED BY <1>1, <1>3, <1>6, <1>8, <1>9, Takes DEF DrawPaper

LEMMA ReadOptionsStep ==
  ASSUME Inv, NEW w \in Worker, ReadOptions(w) PROVE Inv' /\ PapersStay
<1>1. PICK Q : Q = job[w].paper.asked
  OBVIOUS
<1>2. job[w] \in Job /\ job[w].sitting \in Sitting /\ PaperTied(job[w].paper)
  BY JobIsTyped DEF Inv, JobsInv, JobTied, ReadOptions, On
<1>3. Q \in SUBSET Question /\ \A q \in Q : Exists(q)
  BY <1>1, <1>2 DEF Job, Paper, PaperTied
<1>4. PICK f : f = [q \in Question |-> IF q \in Q THEN options[q] ELSE {}]
  OBVIOUS
<1>5. f \in [Question -> SUBSET Option] /\ \A q \in Q : f[q] = options[q]
  BY <1>3, <1>4 DEF Inv, TypeOK
<1>6. PICK p, k : p = [asked |-> Q, shows |-> f] /\ k = UNION {correct[q] : q \in Q}
  OBVIOUS
<1>7. p \in Paper /\ p.asked = Q /\ p.shows = f
  BY <1>3, <1>5, <1>6 DEF Paper
<1>8. k \in SUBSET Option
  BY <1>3, <1>6 DEF Inv, TypeOK
<1>9. PaperTied(p)
  <2>1. ASSUME NEW q \in Q, NEW o \in options[q] PROVE o.list <= edits /\ o.question = q
    BY <1>3, OptionsAreOld
  <2> QED BY <1>3, <1>5, <1>7, <2>1 DEF PaperTied
<1>10. Agrees(p, k)
  BY <1>6, <1>7 DEF Agrees
<1>11. PICK j : j = [job[w] EXCEPT !.pc = "start", !.paper = p, !.key = k]
  OBVIOUS
<1>12. j \in Job /\ j.pc = "start" /\ j.sitting \in Sitting /\ j.paper = p /\ j.key = k
  BY <1>2, <1>7, <1>8, <1>11 DEF Job
<1>13. JobTied(j) /\ ~Editing(j)
  BY <1>9, <1>10, <1>12 DEF JobTied, Editing
<1>14. job' = [job EXCEPT ![w] = j]
  BY <1>1, <1>4, <1>6, <1>11 DEF ReadOptions, Becomes
<1> QED BY <1>12, <1>13, <1>14, Takes DEF ReadOptions

\* The insert: a sitting that was not there has the paper of the request.
LEMMA StartStep ==
  ASSUME Inv, NEW w \in Worker, StartSitting(w) PROVE Inv' /\ PapersStay
<1>1. PICK j \in Job : j = job[w]
  BY DEF Inv, TypeOK
<1>2. PICK s : s = j.sitting
  OBVIOUS
<1>3. /\ s \in Sitting /\ PaperTied(j.paper) /\ Agrees(j.paper, j.key)
      /\ job' = [job EXCEPT ![w] = Idle] /\ UNCHANGED <<bank, answers>>
  BY <1>1, <1>2 DEF Inv, JobsInv, JobTied, StartSitting, On, Ends, Becomes
<1>4. CASE ~Inserted(s)
  <2>1. UNCHANGED sat
    BY <1>1, <1>2, <1>4 DEF StartSitting
  <2> QED BY <1>3, <2>1, EndsQuietly
<1>5. CASE Inserted(s)
  <2>1. /\ sitting' = [sitting EXCEPT ![s].state = "IN_PROGRESS"]
        /\ paper' = [paper EXCEPT ![s] = j.paper]
        /\ answerKey' = [answerKey EXCEPT ![s] = j.key]
        /\ sitting[s].state = "NONE"
    BY <1>1, <1>2, <1>5 DEF StartSitting, Inserted
  <2>2. BankKept /\ UNCHANGED <<chosen, saved, options>>
    BY <1>3, BankSame DEF bank, answers
  <2>3. j.paper \in Paper /\ j.key \in SUBSET Option /\ sitting[s] \in SittingRow
    BY <1>3 DEF Job, Inv, TypeOK
  <2>4. PICK r : r = [sitting[s] EXCEPT !.state = "IN_PROGRESS"]
    OBVIOUS
  <2>5. r \in SittingRow /\ r.state = "IN_PROGRESS" /\ r.right = sitting[s].right
    BY <2>3, <2>4 DEF SittingRow, SittingState
  <2>6. sitting' = [sitting EXCEPT ![s] = r]
    BY <1>3, <2>1, <2>4 DEF Inv, TypeOK
  <2>7. /\ sitting' \in [Sitting -> SittingRow] /\ paper' \in [Sitting -> Paper]
        /\ answerKey' \in [Sitting -> SUBSET Option]
        /\ sitting'[s] = r /\ paper'[s] = j.paper /\ answerKey'[s] = j.key
        /\ \A t \in Sitting : t # s => /\ sitting'[t] = sitting[t] /\ paper'[t] = paper[t]
                                     /\ answerKey'[t] = answerKey[t]
    <3>1. /\ sitting \in [Sitting -> SittingRow] /\ paper \in [Sitting -> Paper]
          /\ answerKey \in [Sitting -> SUBSET Option]
      BY DEF Inv, TypeOK
    <3>2. paper' \in [Sitting -> Paper] /\ answerKey' \in [Sitting -> SUBSET Option]
      BY <1>3, <2>1, <2>3, <3>1
    <3>3. sitting' \in [Sitting -> SittingRow]
      BY <1>3, <2>5, <2>6, <3>1
    <3>4. sitting'[s] = r /\ paper'[s] = j.paper /\ answerKey'[s] = j.key
      BY <1>3, <2>1, <2>6, <3>1
    <3>5. \A t \in Sitting : t # s => /\ sitting'[t] = sitting[t] /\ paper'[t] = paper[t]
                                      /\ answerKey'[t] = answerKey[t]
      BY <1>3, <2>1, <2>6, <3>1
    <3> QED BY <3>2, <3>3, <3>4, <3>5
  <2>8. saved[s] = {} /\ sitting[s].right = {}
    BY <1>3, <2>1 DEF Inv, SatInv, SatTied, Started, Earned
  <2>9. ASSUME NEW t \in Sitting PROVE SatTied(t)'
    <3>1. PICK p \in Paper, k \in SUBSET Option : p = paper'[t] /\ k = answerKey'[t]
      BY <2>7
    <3>2. PaperTied(p) /\ Agrees(p, k)
      BY <1>3, <2>7, <3>1 DEF Inv, SatInv, SatTied
    <3>3. PaperTied(p)' /\ Agrees(p, k)'
      BY <2>2, <3>2, PaperStays
    <3>4. PaperTied(paper[t])' /\ Agrees(paper[t], answerKey[t])'
      BY <3>1, <3>3 DEF PaperTied, Agrees
    <3>5. CASE t = s
      <4>1. \A q \in Objective : chosen[s][q] = Null
        BY <1>3, <2>8 DEF Inv, SatInv, SatTied
      <4> QED BY <2>2, <2>5, <2>7, <2>8, <3>4, <3>5, <4>1 DEF SatTied
    <3>6. CASE t # s
      <4>1. SatTied(t)
        BY DEF Inv, SatInv
      <4> QED BY <2>2, <2>7, <3>4, <3>6, <4>1 DEF SatTied, Shown, Earned, Started
    <3> QED BY <3>5, <3>6
  <2>10. PapersStay /\ \A t \in Sitting : Started(t) => Started(t)'
    BY <2>1, <2>5, <2>7 DEF PapersStay, Started
  <2>11. SatKept
    BY <2>2, <2>7, <2>9, <2>10 DEF SatKept, SatInv, Inv, TypeOK
  <2> QED BY <1>3, <2>2, <2>11, IdleIsJob, IdleIsTied, TiedStays, GivesJob
<1> QED BY <1>4, <1>5

LEMMA TimeStep ==
  ASSUME Inv, NEW s \in Sitting, TimeRunsOut(s) PROVE Inv' /\ PapersStay
<1>1. PICK r : r = [sitting[s] EXCEPT !.overdue = TRUE]
  OBVIOUS
<1>2. sitting[s] \in SittingRow /\ sitting[s].state = "IN_PROGRESS"
  BY DEF Inv, TypeOK, TimeRunsOut
<1>3. r \in SittingRow /\ r.state # "NONE" /\ r.right = sitting[s].right
  BY <1>1, <1>2 DEF SittingRow
<1>4. sitting' = [sitting EXCEPT ![s] = r]
  BY <1>1 DEF TimeRunsOut, Inv, TypeOK
<1>5. UNCHANGED <<bank, paper, answerKey, answers, job>>
  BY DEF TimeRunsOut
<1>6. BankKept /\ SatKept
  BY <1>3, <1>4, <1>5, SittingMoves DEF Inv, SatInv, SatTied
<1> QED BY <1>5, <1>6, SparesJobs DEF bank

LEMMA FindToSaveStep ==
  ASSUME Inv, NEW w \in Worker, NEW s \in Sitting, FindToSave(w, s)
  PROVE  Inv' /\ PapersStay
<1>1. PICK q \in paper[s].asked : \E o \in paper[s].shows[q] :
        job' = [job EXCEPT ![w] = [Idle EXCEPT !.pc = "save", !.sitting = s, !.option = o]]
  BY DEF FindToSave, Becomes
<1>0. PICK o \in paper[s].shows[q] :
        job' = [job EXCEPT ![w] = [Idle EXCEPT !.pc = "save", !.sitting = s, !.option = o]]
  BY <1>1
<1>2. paper[s] \in Paper /\ PaperTied(paper[s]) /\ Started(s)
  BY DEF Inv, TypeOK, SatInv, SatTied, Started, FindToSave
<1>3. o \in Option /\ o.question = q
  BY <1>2 DEF Paper, PaperTied
<1>4. PICK j : j = [Idle EXCEPT !.pc = "save", !.sitting = s, !.option = o]
  OBVIOUS
<1>5. j \in Job /\ j.pc = "save" /\ j.sitting = s /\ j.option = o
  BY <1>3, <1>4, IdleIsJob DEF Job
<1>6. JobTied(j) /\ ~Editing(j)
  BY <1>2, <1>3, <1>5 DEF JobTied, Editing, Shown
<1>7. job' = [job EXCEPT ![w] = j] /\ UNCHANGED <<bank, sat, answers>>
  BY <1>0, <1>4 DEF FindToSave
<1> QED BY <1>5, <1>6, <1>7, Takes

LEMMA SaveStep ==
  ASSUME Inv, NEW w \in Worker, SaveSittingAnswer(w) PROVE Inv' /\ PapersStay
<1>1. PICK s, o : s = job[w].sitting /\ o = job[w].option
  OBVIOUS
<1>2. /\ s \in Sitting /\ Started(s) /\ o \in Option /\ Shown(s, o)
      /\ job' = [job EXCEPT ![w] = Idle] /\ UNCHANGED <<bank, sat>>
  BY <1>1 DEF Inv, JobsInv, JobTied, Started, SaveSittingAnswer, On, Ends, Becomes
<1>3. CASE o \notin options[o.question]
  <2>1. UNCHANGED answers
    BY <1>1, <1>3 DEF SaveSittingAnswer
  <2> QED BY <1>2, <2>1, EndsQuietly
<1>4. CASE o \in options[o.question]
  <2>1. PICK q : q = o.question
    OBVIOUS
  <2>2. q \in Question
    BY <1>2, <2>1 DEF Option
  <2>3. q \in Objective
    BY <1>4, <2>1, <2>2 DEF Inv, BankInv, Objective
  <2>4. /\ chosen' = [chosen EXCEPT ![s][q] = o]
        /\ saved' = [saved EXCEPT ![s] = saved[s] \cup {o}]
    <3>1. /\ chosen' = [chosen EXCEPT ![s][q] = o]
          /\ saved' = [saved EXCEPT ![s] = @ \cup {o}]
      BY <1>1, <1>4, <2>1 DEF SaveSittingAnswer
    <3> QED BY <3>1
  <2>5. /\ saved' \in [Sitting -> SUBSET Option] /\ saved'[s] = saved[s] \cup {o}
        /\ \A t \in Sitting : t # s => saved'[t] = saved[t]
    BY <1>2, <2>4 DEF Inv, TypeOK
  <2>6. /\ chosen' \in [Sitting -> [Objective -> Option \cup {Null}]]
        /\ \A t \in Sitting, p \in Objective :
             chosen'[t][p] = IF t = s /\ p = q THEN o ELSE chosen[t][p]
    BY <1>2, <2>3, <2>4 DEF Inv, TypeOK
  <2>7. BankKept /\ UNCHANGED options
    BY <1>2, BankSame DEF bank
  <2>8. ASSUME NEW t \in Sitting, NEW p \in Objective
        PROVE  /\ chosen'[t][p] \in options'[p] \cup {Null}
               /\ chosen'[t][p] # Null => chosen'[t][p] \in saved'[t]
    <3>1. /\ chosen[t][p] \in options[p] \cup {Null}
          /\ chosen[t][p] # Null => chosen[t][p] \in saved[t]
      BY DEF Inv, TypeOK, SatInv, SatTied
    <3>2. CASE t = s /\ p = q
      BY <1>4, <2>1, <2>5, <2>6, <2>7, <3>2
    <3>3. CASE ~(t = s /\ p = q)
      <4>1. chosen'[t][p] = chosen[t][p]
        BY <2>6, <3>3
      <4> QED BY <2>5, <2>7, <3>1, <4>1
    <3> QED BY <3>2, <3>3
  <2>9. ASSUME NEW t \in Sitting, NEW x \in saved'[t] PROVE Started(t) /\ Shown(t, x)
    BY <1>2, <2>5 DEF Inv, SatInv, SatTied
  <2>10. \A t \in Sitting : saved[t] \subseteq saved'[t]
    BY <2>5
  <2>11. SatKept
    BY <1>2, <2>5, <2>6, <2>7, <2>8, <2>9, <2>10, ChoicesMove
  <2> QED BY <1>2, <2>7, <2>11, IdleIsJob, IdleIsTied, TiedStays, GivesJob
<1> QED BY <1>3, <1>4

-----------------------------------------------------------------------------
(* Its marking.                                                            *)

LEMMA FindToMarkStep ==
  ASSUME Inv, NEW w \in Worker, NEW s \in Sitting, FindToMark(w, s)
  PROVE  Inv' /\ PapersStay
<1>1. PICK e \in {"EXPIRED", "SUBMITTED"} :
        job' = [job EXCEPT ![w] = [Idle EXCEPT !.pc = "mark", !.sitting = s,
                                               !.answers = chosen[s], !.ends = e]]
  BY DEF FindToMark, Becomes
<1>2. PICK a : a = chosen[s]
  OBVIOUS
<1>3. Started(s) /\ a \in [Objective -> Option \cup {Null}]
  BY <1>2 DEF Inv, TypeOK, Started, FindToMark
<1>4. ASSUME NEW q \in Objective, a[q] # Null PROVE a[q] \in saved[s] /\ a[q].question = q
  <2>1. q \in Question /\ a[q] \in options[q] /\ s \in Sitting
    BY <1>2, <1>4 DEF Inv, TypeOK, Objective
  <2> QED BY <1>2, <1>4, <2>1 DEF Inv, TypeOK, SatInv, SatTied
<1>5. PICK j : j = [Idle EXCEPT !.pc = "mark", !.sitting = s, !.answers = a, !.ends = e]
  OBVIOUS
<1>6. j \in Job /\ j.pc = "mark" /\ j.sitting = s /\ j.answers = a /\ j.ends = e
  BY <1>3, <1>5, IdleIsJob DEF Job, SittingState
<1>7. JobTied(j) /\ ~Editing(j)
  BY <1>3, <1>4, <1>6 DEF JobTied, Editing
<1>8. job' = [job EXCEPT ![w] = j] /\ UNCHANGED <<bank, sat, answers>>
  BY <1>1, <1>2, <1>5 DEF FindToMark
<1> QED BY <1>6, <1>7, <1>8, Takes

\* The answer marked right was right on the paper: a row does not become right later.
LEMMA MarkStep ==
  ASSUME Inv, NEW w \in Worker, MarkObjectives(w) PROVE Inv' /\ PapersStay
<1>1. PICK i \in Job : i = job[w]
  BY DEF Inv, TypeOK
<1>2. PICK s : s = i.sitting
  OBVIOUS
<1>3. PICK right : right = {q \in paper[s].asked \cap Objective : IsRight(q, i.answers[q])}
  OBVIOUS
<1>4. i.pc = "mark" /\ JobTied(i) /\ Started(s) /\ s \in Sitting
  BY <1>1, <1>2 DEF Inv, JobsInv, JobTied, MarkObjectives, On, Started
<1>5. ASSUME NEW q \in right PROVE q \in Question /\ Earned(s, q)
  <2>1. /\ q \in paper[s].asked /\ q \in Objective /\ q \in Question
        /\ i.answers[q] \in correct[q]
    BY <1>3 DEF IsRight, Objective
  <2>2. i.answers[q] \in Option /\ i.answers[q] # Null
    BY <2>1, PaperAssumption DEF Inv, TypeOK
  <2>3. i.answers[q] \in saved[s] /\ i.answers[q].question = q
    BY <1>2, <1>4, <2>1, <2>2 DEF JobTied
  <2>4. i.answers[q] \in paper[s].shows[q]
    BY <1>4, <2>3 DEF Inv, SatInv, SatTied, Shown
  <2>5. i.answers[q] \in answerKey[s]
    BY <1>4, <2>1, <2>4 DEF Inv, SatInv, SatTied, Agrees
  <2> QED BY <2>1, <2>3, <2>5 DEF Earned
<1>6. PICK j : j = [i EXCEPT !.pc = "finish", !.answers = NoAnswers, !.right = right]
  OBVIOUS
<1>7. /\ j \in Job /\ j.pc = "finish" /\ j.sitting = s /\ j.right = right
      /\ j.ends = i.ends
  BY <1>2, <1>5, <1>6, Empties DEF Job
<1>8. JobTied(j) /\ ~Editing(j)
  BY <1>4, <1>5, <1>7 DEF JobTied, Editing
<1>9. job' = [job EXCEPT ![w] = j] /\ UNCHANGED <<bank, sat, answers>>
  BY <1>1, <1>2, <1>3, <1>6 DEF MarkObjectives, Becomes
<1> QED BY <1>7, <1>8, <1>9, Takes

LEMMA FinishStep ==
  ASSUME Inv, NEW w \in Worker, FinishSitting(w) PROVE Inv' /\ PapersStay
<1>1. PICK i \in Job : i = job[w]
  BY DEF Inv, TypeOK
<1>2. PICK s : s = i.sitting
  OBVIOUS
<1>3. i.pc = "finish" /\ JobTied(i) /\ s \in Sitting
  BY <1>1, <1>2 DEF Inv, JobsInv, JobTied, FinishSitting, On, Started
<1>4. PICK r : r = [sitting[s] EXCEPT !.state = i.ends, !.right = i.right]
  OBVIOUS
<1>5. r \in SittingRow /\ r.state # "NONE" /\ r.right = i.right
  <2>1. /\ sitting[s] \in SittingRow /\ i.right \in SUBSET Question
        /\ i.ends \in SittingState /\ i.ends # "NONE"
    BY <1>3 DEF Inv, TypeOK, Job, JobTied
  <2> QED BY <1>4, <2>1 DEF SittingRow
<1>6. sitting' = [sitting EXCEPT ![s] = r]
  BY <1>1, <1>2, <1>3, <1>4 DEF FinishSitting, Inv, TypeOK
<1>7. UNCHANGED <<bank, paper, answerKey, answers>> /\ job' = [job EXCEPT ![w] = Idle]
  BY DEF FinishSitting, Ends, Becomes
<1>8. \A q \in r.right : Earned(s, q)
  BY <1>2, <1>3, <1>5 DEF JobTied
<1>9. BankKept /\ SatKept /\ UNCHANGED options
  BY <1>3, <1>5, <1>6, <1>7, <1>8, SittingMoves DEF bank
<1> QED BY <1>7, <1>9, IdleIsJob, IdleIsTied, TiedStays, GivesJob

LEMMA DiesStep ==
  ASSUME Inv, NEW w \in Worker, RequestDies(w) PROVE Inv' /\ PapersStay
BY EndsQuietly DEF RequestDies, Ends, Becomes

-----------------------------------------------------------------------------
LEMMA NextKeeps == Inv /\ [Next]_vars => Inv' /\ PapersStay
<1> SUFFICES ASSUME Inv, [Next]_vars PROVE Inv' /\ PapersStay
  OBVIOUS
<1>1. ASSUME EditBank PROVE Inv' /\ PapersStay
  <2>1. CASE \E q \in Question : CreateExamQuestion(q)
    BY <2>1, CreateStep
  <2>2. CASE \E m \in Module : UpdateExamModule(m)
    BY <2>2, ModuleStep
  <2>3. CASE \E q \in Question : RetireExamQuestion(q) \/ RestoreExamQuestion(q)
    BY <2>3, QuestionStep
  <2> QED BY <1>1, <2>1, <2>2, <2>3 DEF EditBank
<1>2. ASSUME NEW w \in Worker, Arrive(w) PROVE Inv' /\ PapersStay
  BY <1>2, UpdateStep, FindToStartStep, FindToSaveStep, FindToMarkStep DEF Arrive
<1>3. ASSUME NEW w \in Worker, Proceed(w) PROVE Inv' /\ PapersStay
  BY <1>3, DeleteStep, ReplaceStep, DrawStep, ReadOptionsStep, StartStep, SaveStep,
     MarkStep, FinishStep, DiesStep DEF Proceed
<1>4. CASE UNCHANGED vars
  <2>1. UNCHANGED <<bank, sat, answers, job>>
    BY <1>4 DEF vars
  <2> QED BY <2>1, BankSame, SatSame, SparesJobs DEF bank
<1> QED BY <1>1, <1>2, <1>3, <1>4, TimeStep DEF Next

\* The inductive invariant: types; one list and one right option to a question, and one
\* edit at a time of it, which has seen them all; papers made of rows whose being right
\* is of the time of the paper; choices and marks that point into them.
THEOREM Invariance == Spec => []Inv
BY InitInv, NextKeeps, PTL DEF Spec

\* Type correctness: the bank, the sittings and the requests under way hold only rows
\* the schema admits, and no saved choice points at a deleted option.
THEOREM TypeCorrect == Spec => []TypeOK
<1>1. Inv => TypeOK
  BY DEF Inv
<1> QED BY <1>1, Invariance, PTL

\* One list, whole, and one right option to each objective question, however its edits
\* cross (exam-builder-actions.ts, updateExamQuestion).
THEOREM OneKeyAlways == Spec => []OneKey
<1>1. Inv => OneKey
  <2> SUFFICES ASSUME Inv, NEW q \in Objective, Exists(q)
               PROVE  /\ \E n \in 0 .. edits : options[q] = Rows(q, n)
                      /\ Cardinality(correct[q]) = 1
    BY DEF OneKey
  <2>1. PICK n \in 0 .. edits : \E o \in Rows(q, n) :
          options[q] = Rows(q, n) /\ correct[q] = {o}
    BY DEF Inv, BankInv
  <2>2. \A o : Cardinality({o}) = 1
    BY FS_Singleton
  <2> QED BY <2>1, <2>2
<1> QED BY <1>1, Invariance, PTL

\* No mark without the answer that was right on the paper, whatever staff edit between
\* the paper and its marking (exam-sitting-actions.ts, submitSitting).
THEOREM MarksAreEarned == Spec => []NoUnearnedMark
<1>1. Inv => NoUnearnedMark
  BY DEF Inv, SatInv, SatTied, Earned, NoUnearnedMark
<1> QED BY <1>1, Invariance, PTL

\* A paper is drawn once: neither the loser of two starts nor an edit of the bank
\* replaces it (exam-sitting-actions.ts, startSitting).
THEOREM PaperIsDrawnOnce == Spec => OnePaper
<1>1. Inv /\ [Next]_vars => [PapersStay]_vars
  BY NextKeeps
<1> QED BY <1>1, Invariance, PTL DEF Spec, OnePaper, PapersStay
=============================================================================
