SPECIFICATION FairSpec
CONSTANTS
  b1 = b1
  b2 = b2
  b3 = b3
  b4 = b4
  Nil = Nil
  Bids <- MCBids
  Products = {1, 2}
  Contents <- MCContents
  PerDay = 2
  DaysBack = 3
  BatchSize = 1
  MaxNow = 6
  MaxFaults = 1
INVARIANTS
  TypeOK
  NightPrices
PROPERTIES
  WindowComplete
  DaysIncrease
  BidPriced
