SPECIFICATION Spec
CONSTANTS
  v1 = v1
  v2 = v2
  r1 = r1
  r2 = r2
  Nil = Nil
  Ids <- MCIds
  Identifiers <- MCIdentifiers
  Requests <- MCRequests
  LeapDays <- MCLeapDays
  BanPeriod = 1
  MaxNow = 3
  MaxDeaths = 1
INVARIANT
  BanShownWhileInForce
