SPECIFICATION Spec
CONSTANTS
  c1 = c1
  c2 = c2
  c3 = c3
  s1 = s1
  s2 = s2
  s3 = s3
  Collectors = {c1, c2, c3}
  Requester = Requester
  NoOne = NoOne
  Amounts = {1, 2}
  ListPrice = 1
  Crews <- OwnerC1
  Slots = {s1, s2}
  Workload <- AssignedWork
  MaxOffers = 0
  MaxNoShows = 1
  NoShowLimit = 1
  OtpLimit = 2
INVARIANT AssignedWithinTeam
CHECK_DEADLOCK FALSE
