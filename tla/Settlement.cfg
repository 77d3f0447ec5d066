\* One candidate: checkouts, notices, staff entries, refunds, completion, reset, reissue,
\* examination fees.
SPECIFICATION Spec
CONSTANTS
  ada = ada
  bello = bello
  chidi = chidi
  Null = Null
  Candidate = {ada}
  Programme = {prog}
  Guest = {}
  Intake = {1}
  Cohort <- NoCohorts
  CohortProgramme <- OneProgrammeOf
  CohortIntake <- IntakeOfCohort
  CohortCapacity <- OnePlace
  Seeded <- SeedOne
  Worker = {w1, w2}
  Requests = {"checkout", "webhook", "record", "refund", "complete", "reset", "reissue", "exam"}
  Provider = "nomba"
  NombaBypass = FALSE
  MaxPayments = 2
  MaxEnrolments = 2
  MaxCards = 3
  Deaths = FALSE
SYMMETRY Alike
INVARIANTS TypeOK OneLiveEnrolment ActiveOnlyIfPaid NumberIffConfirmed OneLiveCard ScheduledIfDated
PROPERTIES NumberIsForLife
