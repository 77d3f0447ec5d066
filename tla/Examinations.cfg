\* One candidate, one window, two attempts: registrations, submission, forfeiture, expiry and two releases cross.
SPECIFICATION Spec
CONSTANTS
  Null = Null
  Candidate = {ada}
  Window = {may}
  Capacity <- TwoPlaces
  AttemptPolicy = "TWO_ATTEMPTS"
  Question = {q1}
  Worker = {w1, w2}
  MaxRegistrations = 2
  MaxDeaths = 0
SYMMETRY Alike
CHECK_DEADLOCK FALSE
INVARIANTS TypeOK OneLiveRegistration ReleasedIsMarked
PROPERTIES NeverReopened CertificatesAsPromised
