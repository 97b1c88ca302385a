SPECIFICATION Spec
CONSTANTS
  Events = {e1, e2}
  Refused = {}
  Transports = {"http", "syslog"}
  BatchLimit = 2
  MaxFaults = 2
INVARIANT NothingDiscarded
CHECK_DEADLOCK FALSE
