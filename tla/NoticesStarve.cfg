SPECIFICATION FairSpec
CONSTANTS
  ann = ann
  bob = bob
  w1 = w1
  w2 = w2
  Users = {ann, bob}
  Workers = {w1}
  Rows = {1, 2}
  Day = 2
  Lengths = {1}
  DaysBefore = {1}
  DaysAfter = {1}
  MaxTime = 3
  MaxExpiry = 5
  MaxCrashes = 0
  NoUser = NoUser
  NoWorker = NoWorker
  NoKey = NoKey
CHECK_DEADLOCK FALSE
PROPERTIES
  DueIsNotified
