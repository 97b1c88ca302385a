SPECIFICATION FairSpec
CONSTANTS
  Endpoints = {n1}
  Products = {edr}
  Runs = {job, request}
  Scheduled = job
  NoState = NoState
  NoRow = NoRow
  MaxChanges = 3
INVARIANTS TypeOK LogFollowsSnapshot
PROPERTY EventuallyAccurate
CHECK_DEADLOCK FALSE
