SPECIFICATION Spec
CONSTANTS
  k1 = k1
  f1 = f1
  p1 = p1
  q1 = q1
  r1 = r1
  r2 = r2
  r3 = r3
  a1 = a1
  a2 = a2
  Nil = Nil
  IsoMapping <- MCIsoMapping
  Localization = "LOC"
  Category = k1
  Profiles = {f1}
  Products = {p1}
  ProductRequests = {q1}
  Agreements = {a1, a2}
  Classes = {"LOC", "TECH"}
  Requests <- MCRequests
  CategoryPosts <- MCCategoryPosts
  ProfilePosts <- MCProfilePosts
  Patches <- MCPatches
  Responses <- MCResponses
  Probes <- MCProbes
  FirstCriteria <- MCFirstCriteria
  FirstProfiles <- MCFirstProfiles
SYMMETRY Symmetry
INVARIANTS
  TypeOK
  FollowersAgree
PROPERTIES
  ProfileNarrower
  ArchivedNotAnsweredAnew
CHECK_DEADLOCK FALSE
