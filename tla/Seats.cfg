\* Two candidates and a guest, one place in each of two intakes, Squadco notices;
\* refunds and completions cross the confirmations.
SPECIFICATION Spec
CONSTANTS
  ada = ada
  bello = bello
  chidi = chidi
  Null = Null
  Candidate = {ada, bello, chidi}
  Programme = {prog}
  Guest = {chidi}
  Intake <- TwoIntakes
  Cohort <- TwoCohorts
  CohortProgramme <- OneProgrammeOf
  CohortIntake <- IntakeOfCohort
  CohortCapacity <- OnePlace
  Seeded <- SeedTwo
  Worker = {w1, w2}
  Requests = {"webhook", "transfer", "refund", "guest", "register", "complete"}
  Provider = "squadco"
  NombaBypass = FALSE
  MaxPayments = 3
  MaxEnrolments = 3
  MaxCards = 3
  Deaths = TRUE
SYMMETRY Alike
INVARIANTS ActiveOnlyIfPaid CountedRoomStays
CHECK_DEADLOCK FALSE
