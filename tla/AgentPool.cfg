CONSTANTS
  Runs = {r1, r2, r3}
  LoginRuns = {r1}
  Cancellable = {r1}
  Capacities = {1}
  MaxGen = 2
SPECIFICATION FairSpec
INVARIANTS
  TypeOK
  SubprocessesBounded
  TokensConserved
  WorkspaceCoversRun
PROPERTIES
  CallsReturnUnlessReplaced
CHECK_DEADLOCK FALSE
