-------------------------- MODULE MCCandidateAccess --------------------------
EXTENDS CandidateAccess, TLC

Alike == Permutations(Worker)
==============================================================================
