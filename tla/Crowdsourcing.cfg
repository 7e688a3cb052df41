SPECIFICATION Spec
CONSTANTS
  e1 = e1
  r1 = r1
  r2 = r2
  r3 = r3
  k1 = k1
  k2 = k2
  a1 = a1
  a2 = a2
  Nil = Nil
  Requests <- MCRequests
  Earlier <- MCEarlier
  Identifiers <- MCIdentifiers
  Categories <- MCCategories
  Admins <- MCAdmins
  AdminOf <- MCAdminOf
  MaxNow = 1
SYMMETRY Interchangeable
INVARIANTS
  ProductsOfAccepted
  OneBanPerAdministrator
PROPERTIES
  BansKept
  NoSubmissionUnderKnownBan
  ImplementsModeration
CHECK_DEADLOCK FALSE
