CONSTANTS
  v1 = v1
  v2 = v2
  r1 = r1
  r2 = r2
  c1 = c1
  c2 = c2
  NoVersion = NoVersion
  NoCaller = NoCaller
  Versions = {v1}
  Layouts = {r1}
  Callers = {c1, c2}
  Disturbances = {"rename", "remove", "check", "reconfigure"}
SPECIFICATION FairSpec
INVARIANTS
  NoLitter
PROPERTIES
  RequestsAnswered
