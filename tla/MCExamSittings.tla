---------------------------- MODULE MCExamSittings ----------------------------
(* Instances of ExamSittings for TLC. *)
EXTENDS ExamSittings, TLC

TwoPlaces == [v \in Window |-> 2]

Alike == Permutations(Worker)
=============================================================================
