CONSTANTS
  v1 = v1
  v2 = v2
  r1 = r1
  c1 = c1
  NoVersion = NoVersion
  NoCaller = NoCaller
  Versions = {v1, v2}
  Layouts = {r1}
  Callers = {c1}
  Disturbances = {"rename", "remove"}
SPECIFICATION ObserverSpec
SYMMETRY MCSymmetry
INVARIANTS
  TypeOK
  PlacedIsVerified
  LinksAgree
  NoLitter
  StatusTellsActive
PROPERTIES
  AgentNeverDisappears
  ImplementsAtomicInstall
