SPECIFICATION Spec
CONSTANTS
  Tabs = {t1, t2}
  Slots = {q1}
  Invitations = {"open", "used"}
  MaxSessions = 2
  MaxChecks = 1
  MaxEvents = 3
SYMMETRY Interchangeable
INVARIANTS TypeOK TokenNotStranded
PROPERTY OnlyOwnCallsSignOut
CHECK_DEADLOCK FALSE
