SPECIFICATION Spec
CONSTANTS
  Endpoints = {n1}
  Products = {edr}
  Runs = {job}
  Scheduled = job
  NoState = NoState
  NoRow = NoRow
  MaxChanges = 1
INVARIANT RealChanges
CHECK_DEADLOCK FALSE
