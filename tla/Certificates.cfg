\* One examined candidate and one course without an examination; four certificates.
SPECIFICATION Spec
CONSTANTS
  Null = Null
  Holder = {examined, taught}
  Course = {taught}
  Sitting = {s1}
  Worker = {w1, w2, w3}
  MaxCertificates = 4
SYMMETRY Alike
CHECK_DEADLOCK FALSE
INVARIANTS TypeOK LinksAgree OneValidPerAward
PROPERTIES NeverValidAgain
