---------------------------- MODULE MCExamPapers -----------------------------
EXTENDS ExamPapers, TLC

CONSTANTS only, w1, w2

OneModule == [q \in Question |-> only]
Alike == Permutations(Worker) \cup Permutations(Objective)
==============================================================================
