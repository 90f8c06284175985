CONSTANTS
  Runs = {r1, r2}
  LoginRuns = {r1}
  Cancellable = {}
  Capacities = {1}
  MaxGen = 2
SPECIFICATION FairSpec
PROPERTY
  CallsReturn
CHECK_DEADLOCK FALSE
