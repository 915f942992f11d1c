SPECIFICATION OfficeFairSpec
CONSTANTS
  Parts = {"chat", "kyc", "accounts"}
  Slots = {s1}
  Collectors = {u1, u2}
  Pickups = {p1}
  Earning = 2
  Payouts = {1}
  PlanKeys = {"pro"}
  PlanPrice = 1
  Bonus = 1
  Referrals = {r1}
  MaxRequests = 2
  MaxPurchases = 1
  MaxMonths = 1
  NoRef = noRef
  Requesters = {u1, u2}
  Orders = {p1, p2, p3}
  Values = {1, 2}
  Totals = {1, 2}
  MinOrder = 2
  MaxRedemptions = 1
  PerUserLimit = 1
  NoUser = nobody
  Jobs = {p1, p2, p3}
  Scores = {1, 5}
  MinRatings = 2
  Threshold = 35
  MaxSubmissions = 2
  Owners = {o1}
  Members = {u1, u2}
  NoTeam = noTeam
  MaxSaves = 5
  Requester = requester
  Couriers = {c1}
  Nobody = nobody
  MaxMessages = 1
  MaxWire = 1
  ChatWork = {"drop"}
  Templates = {t1}
  Periods = {1, 2}
  NoDate = noDate
  MaxDay = 3
  Horizon = 4
  Holders = {c1}
  NoHolder = nobody
  MaxVersion = 2
  Me = me
  Other = other
  NoParty = nobody
  MaxWrites = 2
  MaxCalls = 1
  Notes = {n1, n2}
  BellLimit = 1
  MaxAsks = 2
  Crew = {u1, u2}
  Customer = customer
  Reasons = {"weight", "payment"}
  NoOne = nobody
  MaxFlight = 2
  Visitors = {a1, a2}
  Null = null
  SignedOut = nobody
  MaxAwaited = 1
  ScrapTypes = {"metal", "plastic"}
  FirstType = "metal"
  MaxItems = 2
  MaxPicks = 2
  MaxPosts = 2
  Parties = {"user", "collector"}
  Hauls = {l1, l2}
  Partners = {r1, r2}
  NoPartner = undelivered
  MaxActive = 1
  MaxMade = 2
  Width = 4
  Height = 2
  MaxStops = 4
  MaxCluster = 3
  MaxLeg = 1
CHECK_DEADLOCK FALSE
PROPERTIES MessageReachesWindow LapsedIsMarked SocketsClose
