---------------------------- MODULE MCEnrolments ----------------------------
(* Instances of Enrolments for TLC. *)
EXTENDS Enrolments, TLC

CONSTANTS ada, bello, chidi

\* One programme, two intakes, a cohort of one place in each.
TwoIntakes == {1, 2}
TwoCohorts == {1, 2}
OneProgrammeOf == [h \in Cohort |-> CHOOSE g \in Programme : TRUE]
IntakeOfCohort == [h \in Cohort |-> h]
OnePlace == [h \in Cohort |-> 1]

\* The rows tests/enrolment-transaction.test.ts starts from: enrolments awaiting
\* payment with an intake.
SeedRowOf(c) == [candidate |-> c, programme |-> CHOOSE g \in Programme : TRUE,
                 intake |-> 1]
SeedOne == <<SeedRowOf(ada)>>
SeedTwo == <<SeedRowOf(ada), SeedRowOf(bello)>>

NoCohorts == {}

Alike == Permutations(Worker)
=============================================================================
