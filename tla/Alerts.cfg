SPECIFICATION AlertsSpec
CONSTANTS
  c1 = c1
  c2 = c2
  hi = hi
  Calls = {c1, c2}
  EnvAdmins = {1, 2}
  Former = {3}
  Texts = {hi}
  Blank = Blank
  NotText = NotText
  MaxParts = 1
  Cooldown = 1
  Forms <- MCForms
  MaxTime = 1
  MaxEdits = 1
  MaxDeaths = 1
  Never = Never
  NoRow = NoRow
CHECK_DEADLOCK FALSE
SYMMETRY Interchangeable
INVARIANTS
  ProcessedOnce
  AlertSentOnce
  CooldownKept
  EveryRecipientTold
