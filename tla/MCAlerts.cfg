CONSTANTS
  Keys = {k1}
  Alerts = {a1, a2}
  Pages = {p1}
  Job = Job
  Users = {u1}
  None = None
SPECIFICATION Spec
INVARIANTS
  AlertsTypeOK
  SnoozeIsSeen
PROPERTIES
  ResolvedStaysHidden
  ConditionsAreShown
  GoneAlertsClose
  SnoozedComeBack
CHECK_DEADLOCK FALSE
