SPECIFICATION Spec
CONSTANTS
  c1 = c1
  c2 = c2
  c3 = c3
  s1 = s1
  s2 = s2
  s3 = s3
  Collectors = {c1, c2}
  Requester = Requester
  NoOne = NoOne
  Amounts = {1, 2}
  ListPrice = 1
  Crews <- NoCrews
  Slots = {s1, s2}
  Workload <- StaleTermsWork
  MaxOffers = 2
  MaxNoShows = 0
  NoShowLimit = 1
  OtpLimit = 2
INVARIANT AcceptsMostRecentOffer
CHECK_DEADLOCK FALSE
