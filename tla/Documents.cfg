SPECIFICATION Spec
CONSTANTS
  d1 = d1
  d2 = d2
  r1 = r1
  r2 = r2
  r3 = r3
  j1 = j1
  Nil = Nil
  Docs <- MCDocs
  Legacy <- MCLegacy
  Requests <- MCRequests
  Jobs <- MCJobs
SYMMETRY Interchangeable
INVARIANTS
  TypeOK
  RevisionNamesContent
PROPERTIES
  NoEditLost
  ConflictsJustified
  ImplementsAtomic
CHECK_DEADLOCK FALSE
