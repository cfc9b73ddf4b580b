SPECIFICATION FairSpec
CONSTANTS
  m1 = m1
  m2 = m2
  m3 = m3
  m4 = m4
  NoUpdate = NoUpdate
  Chats = {m1, m2, m3, m4}
  NewDialogs = {n1}
  Earlier <- TwoTurns
  History = 2
  Trigger = 3
  DayLimit = 3
  Price = 1
  MaxBalance = 1
  TurnsOutlastLease = TRUE
CHECK_DEADLOCK FALSE
INVARIANTS
  ContextIsCurrent
  TurnsStayWhole
  SummaryCoversMarked
  LimitsKept
  ChargedIsAnswered
PROPERTIES
  EveryUpdateEnds
