SPECIFICATION Spec
CONSTANTS
  credits = credits
  plan = plan
  c1 = c1
  c2 = c2
  s1 = s1
  s2 = s2
  Payments = {plan}
  PlanPayments = {plan}
  Charges = {c1}
  Sessions = {s1, s2}
  MaxPreCheckouts = 1
  NoPayment = NoPayment
  NoCharge = NoCharge
CHECK_DEADLOCK FALSE
INVARIANTS
  PlanExtendedOnce
