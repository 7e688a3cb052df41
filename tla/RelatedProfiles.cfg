SPECIFICATION FairSpec
CONSTANTS
  p1 = p1
  c1 = c1
  c2 = c2
  f1 = f1
  r1 = r1
  r2 = r2
  Nil = Nil
  Ids <- MCIds
  Categories <- MCCategories
  Profiles <- MCProfiles
  Home <- MCHome
  Answers <- MCAnswers
  Demands <- MCDemands
  Fit <- MCFit
  Requests <- MCRequests
  MaxDeaths = 1
INVARIANTS
  NightSettles
  NothingForNothing
PROPERTIES
  RelatedProfilesConverge
  QuietNights
