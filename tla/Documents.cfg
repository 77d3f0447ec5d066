\* One candidate, one template whose price may change, one code for one redemption.
SPECIFICATION FairSpec
CONSTANTS
  Null = Null
  Candidate = {ada}
  Template = {will}
  Code = {spring}
  Price = {2, 3}
  Discount = 1
  MaxRedemptions = 1
  NombaBypass = FALSE
  Worker = {w1, w2}
  MaxPayments = 2
  MaxDeaths = 1
  MaxEdits = 1
CHECK_DEADLOCK FALSE
INVARIANTS TypeOK BooksBalance
PROPERTIES OwnedAsPromised PaidIsOwned
