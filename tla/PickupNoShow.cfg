SPECIFICATION Spec
CONSTANTS
  c1 = c1
  c2 = c2
  c3 = c3
  s1 = s1
  s2 = s2
  s3 = s3
  Collectors = {c1, c2}
  Requester = Requester
  NoOne = NoOne
  Amounts = {1}
  ListPrice = 1
  Crews <- NoCrews
  Slots = {s1, s2}
  Workload <- NoShowWork
  MaxOffers = 0
  MaxNoShows = 1
  NoShowLimit = 1
  OtpLimit = 2
SYMMETRY SymmetricUsers
INVARIANTS FreshAcceptNotReportable OneNoShowPerStall
PROPERTIES ImplementsContract
CHECK_DEADLOCK FALSE
