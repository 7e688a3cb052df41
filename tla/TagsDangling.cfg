SPECIFICATION Spec
CONSTANTS
  t1 = t1
  t2 = t2
  n1 = n1
  n2 = n2
  k1 = k1
  p1 = p1
  r1 = r1
  r2 = r2
  r3 = r3
  Nil = Nil
  Codes <- MCCodes
  Names <- MCNames
  Categories <- MCCategories
  Profiles <- MCProfiles
  Requests <- MCRequests
SYMMETRY Interchangeable
INVARIANT
  NoDanglingTag
CHECK_DEADLOCK FALSE
