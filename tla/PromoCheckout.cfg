SPECIFICATION Spec
CONSTANTS
  u1 = u1
  u2 = u2
  scarce = scarce
  plenty = plenty
  gift = gift
  p1 = p1
  p2 = p2
  s1 = s1
  s2 = s2
  Users = {u1, u2}
  Codes = {scarce, plenty, gift}
  Payments = {p1, p2}
  Sessions = {s1, s2}
  MaxActivations = 3
  Limit <- MCLimit
  UserLimit <- MCUserLimit
  Instant = {gift}
  Fits <- MCFits
  StarsPayments = {p1}
  NoUser = NoUser
  NoCode = NoCode
  NoPayment = NoPayment
  NoSession = NoSession
SYMMETRY Interchangeable
CHECK_DEADLOCK FALSE
INVARIANTS
  LimitsKept
  
PROPERTIES
  NotSwapped
