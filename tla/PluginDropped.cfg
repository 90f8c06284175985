CONSTANTS
  d1 = d1
  a = a
  b = b
  NoName = NoName
  Descendants = {d1}
  Limits <- MCLimits
  MaxPrinted = 2
  Models = {a, b}
  Half = 8
  Ranges <- MCRanges
  Default <- MCDefault
  Fold <- MCFold
  EnvNames <- MCEnvNames
  Inherited <- MCInherited
  Requests <- MCRequests
  Trees <- MCTrees
  Nesting <- MCNesting
  Raws <- MCRaws
  Records <- MCRecords
  Clock = {2}
  Statuses <- MCStatuses
  Abouts <- MCAbouts
  Emails = {"me@x"}
  Headers <- MCHeaders
  MaxCalls = 1
  LastRun = 0
  MaxOthers = 0
  MaxDuring = 0
SPECIFICATION Spec
CHECK_DEADLOCK FALSE
INVARIANT
  NonTextNeverDropped
