SPECIFICATION Spec
CONSTANTS
  Tabs = {t1}
  Slots = {q1}
  Invitations = {"open"}
  MaxSessions = 2
  MaxChecks = 2
  MaxEvents = 2
PROPERTY SilentRefreshFirst
CHECK_DEADLOCK FALSE
