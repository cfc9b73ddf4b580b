SPECIFICATION FairSpec
CONSTANTS
  p1 = p1
  p2 = p2
  task = task
  h1 = h1
  h2 = h2
  Payments = {p1, p2}
  Sessions = {task, h1, h2}
  Worker = task
  Offered <- EveryProvider
  CreatedAt <- Oldest1st
  BatchLimit = 1
  NoSession = NoSession
  NoPayment = NoPayment
CHECK_DEADLOCK FALSE
INVARIANTS
  GrantedOnce
PROPERTIES
  ClosedIsNeverPaid
  KeepsPromise
  PaidIsNoticedUnlessCrowded
