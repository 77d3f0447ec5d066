\* One sitting of one written question, which must end; one request may die.
SPECIFICATION FairSpec
CONSTANTS
  Null = Null
  Candidate = {ada}
  Window = {may}
  Capacity <- TwoPlaces
  AttemptPolicy = "ONE_ATTEMPT"
  Question = {q1}
  Worker = {w1, w2}
  MaxRegistrations = 1
  MaxDeaths = 1
CHECK_DEADLOCK FALSE
PROPERTIES SittingsEnd
