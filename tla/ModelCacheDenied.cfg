CONSTANTS
  m1 = m1
  m2 = m2
  c1 = c1
  c2 = c2
  Callers = {c1, c2}
  Listers = {}
  Models = {m1, m2}
  AutoModel = m2
  Configs <- MCConfigs
  MaxTime = 1
  MaxGen = 1
SPECIFICATION Spec
SYMMETRY MCSymmetry
INVARIANT
  DeniedNotServed
