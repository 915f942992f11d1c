SPECIFICATION Spec
CONSTANTS
  s1 = s1
  s2 = s2
  Prices = {1, 2}
  Agreed = 1
  Slots = {s1, s2}
  MaxDisputes = 2
  MayRestart = FALSE
INVARIANTS FrozenPayoutUnderReview
CHECK_DEADLOCK FALSE
