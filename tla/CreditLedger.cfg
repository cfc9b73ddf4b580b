SPECIFICATION Spec
CONSTANTS
  u1 = u1
  u2 = u2
  s1 = s1
  s2 = s2
  Users = {u1, u2}
  Sessions = {s1, s2}
  NoSession = NoSession
  NoRequest = NoRequest
  Requests <- MCRequests
  TrialBonus <- MCTrialBonus
INVARIANTS
  LedgerBalances
  KeyAppliedOnce
  TrialFlagMeansCredited
PROPERTIES
  LedgerOnlyGrows
