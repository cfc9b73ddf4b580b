SPECIFICATION FairSpec
CONSTANTS
  NoWorker = NoWorker
  Orphan = Orphan
  Users = {u1, u2}
  Workers = {w1, w2}
  MaxCrashes = 2
  MaxAttempts = 2
CHECK_DEADLOCK FALSE
INVARIANTS
  AttemptsBounded
  ProgressIsExact
PROPERTIES
  OutcomesAreFinal
  RunningFinishes
