SPECIFICATION Spec
CONSTANTS
  Rows <- MCRows
  Given <- MCGiven
  GivenSettings <- MCSettings
  Subscribed <- MCSubscribed
  Typed <- MCTyped
  Forms <- MCForms
  WizardFields <- MCWizardFields
  Openings <- MCOpenings
  FallbackUrl = ""
  Texts = {a, b}
  a = a
  b = b
  Bad = Bad
  NoRow = NoRow
  Gone = Gone
  None = None
  Unset = Unset
  Unknown = Unknown
  Tasks = {t1, t2}
  MaxUpdates = 2
  MaxCrashes = 1
SYMMETRY Interchangeable
INVARIANTS TypeOK AuditAgrees CodesDiffer MessagesAreRecorded
PROPERTIES PlansInUseStay
CHECK_DEADLOCK FALSE
