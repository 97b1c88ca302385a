SPECIFICATION FairSpec
CONSTANTS
  Events = {e1, e2, e3}
  Refused = {e1}
  Transports = {"http", "syslog"}
  BatchLimit = 2
  MaxFaults = 2
INVARIANTS TypeOK OnlyUnnoticedLosses
PROPERTIES DeliversAtLeastOnce EventuallyReceived
CHECK_DEADLOCK FALSE
