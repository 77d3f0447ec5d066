\* A staff entry and a failure mark cross.
SPECIFICATION Spec
CONSTANTS
  ada = ada
  bello = bello
  chidi = chidi
  Null = Null
  Candidate = {ada}
  Programme = {prog}
  Guest = {}
  Intake = {1}
  Cohort = {1}
  CohortProgramme <- OneProgrammeOf
  CohortIntake <- IntakeOfCohort
  CohortCapacity <- OnePlace
  Seeded <- SeedOne
  Worker = {w1, w2}
  Requests = {"record", "fail"}
  Provider = "nomba"
  NombaBypass = FALSE
  MaxPayments = 1
  MaxEnrolments = 1
  MaxCards = 2
  Deaths = FALSE
SYMMETRY Alike
CHECK_DEADLOCK FALSE
PROPERTIES SuccessIsIrreversible
