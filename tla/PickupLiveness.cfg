SPECIFICATION FairSpec
CONSTANTS
  c1 = c1
  c2 = c2
  c3 = c3
  s1 = s1
  s2 = s2
  s3 = s3
  Collectors = {c1, c2}
  Requester = Requester
  NoOne = NoOne
  Amounts = {1}
  ListPrice = 1
  Crews <- OwnerC1
  Slots = {s1}
  Workload <- PatienceWork
  MaxOffers = 2
  MaxNoShows = 0
  NoShowLimit = 1
  OtpLimit = 2
INVARIANTS TypeOK
PROPERTIES AbandonedOfferEnds SilentCollectorReportable
CHECK_DEADLOCK FALSE
