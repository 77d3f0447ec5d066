\* An objective and a written question in a module that draws the objective one or none, one sitting, two requests at once.
SPECIFICATION Spec
CONSTANTS
  Null = Null
  only = only
  w1 = w1
  w2 = w2
  Module = {only}
  Question = {q1, essay}
  Written = {essay}
  ModuleOf <- OneModule
  Draws = {0, 1}
  Sitting = {s1}
  Worker = {w1, w2}
  MaxEdits = 2
SYMMETRY Alike
CHECK_DEADLOCK FALSE
INVARIANTS TypeOK OneKey NoUnearnedMark
