---------------------------- MODULE MCCoursework ----------------------------
(* Instances of Coursework for TLC. *)
EXTENDS Coursework, TLC

Alike == Permutations(Worker) \cup Permutations(Marker)
=============================================================================
