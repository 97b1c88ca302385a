SPECIFICATION Spec
CONSTANTS
  Tabs = {t1}
  Slots = {q1, q2}
  Invitations = {"open"}
  MaxSessions = 2
  MaxChecks = 2
  MaxEvents = 3
PROPERTIES SharesOneRefresh
  DeniedQueriesSettle
  ExpiredTabReachesLogin
CHECK_DEADLOCK FALSE
