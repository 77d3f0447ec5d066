\* Checkouts, notices, staff entries and failure marks of one candidate's fee.
SPECIFICATION FairSpec
CONSTANTS
  ada = ada
  bello = bello
  chidi = chidi
  Null = Null
  Candidate = {ada}
  Programme = {prog}
  Guest = {}
  Intake = {1}
  Cohort = {1}
  CohortProgramme <- OneProgrammeOf
  CohortIntake <- IntakeOfCohort
  CohortCapacity <- OnePlace
  Seeded <- SeedOne
  Worker = {w1, w2}
  Requests = {"checkout", "webhook", "fail", "record"}
  Provider = "nomba"
  NombaBypass = FALSE
  MaxPayments = 2
  MaxEnrolments = 1
  MaxCards = 2
  Deaths = FALSE
CHECK_DEADLOCK FALSE
PROPERTIES PaidIsConfirmed AppliedOnce
