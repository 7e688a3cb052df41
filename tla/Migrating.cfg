SPECIFICATION Spec
CONSTANTS
  None = None
  Listed <- MCListed
  Target = "k"
  NewClass = "new"
  Iso <- MCIso
  UnitNames <- MCUnitNames
  ThisYear = 2024
  Latin <- MCLatin
  Worlds <- AllWorlds
  Feed <- MCFeed
  BulkSize = 2
  MaxRuns = 2
  MaxEdits = 1
  Copies <- MCCopies
INVARIANTS
  TypeOK
  Settled
  FeedShowsTheRest
PROPERTIES
  NothingOverwritten
CHECK_DEADLOCK FALSE
