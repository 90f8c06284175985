CONSTANTS
  d1 = d1
  a = a
  b = b
  NoName = NoName
  Descendants = {d1}
  Limits <- MCLimits
  MaxPrinted = 2
  Models = {a, b}
  Half = 8
  Ranges <- MCRanges
  Default <- MCDefault
  Fold <- MCFold
  EnvNames <- MCEnvNames
  Inherited <- MCInherited
  Requests <- MCRequests
  Trees <- MCTrees
  Nesting <- MCNesting
  Raws <- MCRaws
  Records <- MCRecords
  Clock = {2}
  Statuses <- MCStatuses
  Abouts <- MCAbouts
  Emails = {"me@x"}
  Headers <- MCHeaders
  MaxCalls = 3
  LastRun = 1
  MaxOthers = 1
  MaxDuring = 1
SPECIFICATION FairSpec
CHECK_DEADLOCK FALSE
INVARIANTS
  AgentDeadOnReturn
  OutputQuietOnReturn
  OutputWholeOrRefused
  RefusedNeverRuns
  RunsUnderOneConfig
  EachCountedOnce
  UsageMatchesRecords
  WindowCoversUse
  PromptCounted
  StatusFailClosed
  ExtractedInside
  ExtractedAsListed
PROPERTY
  RunsAreProcesses
  CallAnswered
