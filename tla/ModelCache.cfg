CONSTANTS
  m1 = m1
  m2 = m2
  c1 = c1
  c2 = c2
  Callers = {c1, c2}
  Listers = {c2}
  Models = {m1, m2}
  AutoModel = m2
  Configs <- MCConfigs
  MaxTime = 1
  MaxGen = 2
SPECIFICATION Spec
INVARIANTS
  AnswersFresh
  StaleOnlyIfRaced
  OnlyListedResolve
