SPECIFICATION WalletSpec
CONSTANTS
  Slots = {s1}
  Collectors = {u1}
  Pickups = {p1}
  Earning = 2
  Payouts = {1}
  PlanKeys = {"pro"}
  PlanPrice = 1
  Bonus = 1
  Referrals = {}
  MaxRequests = 2
  MaxPurchases = 0
  MaxMonths = 0
  NoRef = noRef
PROPERTY ApprovedIsDebited
CHECK_DEADLOCK FALSE
