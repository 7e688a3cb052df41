SPECIFICATION FairSpec
CONSTANTS
  p1 = p1
  v1 = v1
  r1 = r1
  r2 = r2
  Nil = Nil
  Ids <- MCIds
  Vendors <- MCVendors
  Requests <- MCRequests
  Terms <- MCTerms
  Year = 2
  BanPeriod = 1
  MaxNow = 3
  MaxDeaths = 1
INVARIANTS
  ClosedByRequestIsFinal
  ClosedHasExpired
  NightClosesExpired
PROPERTIES
  VendorTermKept
  ExpiredProductClosed
