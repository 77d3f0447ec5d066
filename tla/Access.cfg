\* Two codes, one session, two sittings, two requests at once, any of which may die.
SPECIFICATION Spec
CONSTANTS
  MaxCodes = 2
  MaxSessions = 1
  MaxSittings = 2
  Worker = {w1, w2}
SYMMETRY Alike
CHECK_DEADLOCK FALSE
INVARIANTS TypeOK CodeUsedOnce
PROPERTIES GoneIsFinal RevokedIsFinal
