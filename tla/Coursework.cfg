\* One lecture with every step but the scenario; two requests in flight,
\* one resubmission, and resets without a bound.
SPECIFICATION Spec
CONSTANTS
  None = None
  Lecture = {deeds}
  WithScenario = {}
  WithDrafting = {deeds}
  QuizLecture = deeds
  Worker = {w1, w2}
  Marker = {m1}
  MarkerScore = {40}
  ModeratorScore = {70}
  MaxAttempts = 2
  MaxQuizzes = 1
SYMMETRY Alike
CHECK_DEADLOCK FALSE
INVARIANTS TypeOK ResetStartsOver SubmittedIsQueued StandingWasReturned
PROPERTIES AttemptsAreRetained
