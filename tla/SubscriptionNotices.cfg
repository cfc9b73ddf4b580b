SPECIFICATION Spec
CONSTANTS
  ann = ann
  bob = bob
  w1 = w1
  w2 = w2
  Users = {ann}
  Workers = {w1, w2}
  Rows = {1, 2}
  Day = 2
  Lengths = {1}
  DaysBefore = {1}
  DaysAfter = {1}
  MaxTime = 2
  MaxExpiry = 4
  MaxCrashes = 1
  NoUser = NoUser
  NoWorker = NoWorker
  NoKey = NoKey
CHECK_DEADLOCK FALSE
SYMMETRY Interchangeable
INVARIANTS
  SentOnce
PROPERTIES
  RemindersAreCurrent
  TimeIsKept
