SPECIFICATION FairSpec
CONSTANTS
  s1 = s1
  s2 = s2
  Prices = {1, 2}
  Agreed = 1
  Slots = {s1, s2}
  MaxDisputes = 1
  MayRestart = TRUE
INVARIANTS TypeOK HeldMoneyStaysHeld OnePrice CreditIsOnItsWay
PROPERTIES ImplementsContract SilentRequesterSettles SettledIsCredited
CHECK_DEADLOCK FALSE
