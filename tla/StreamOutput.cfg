CONSTANTS
  a = a
  b = b
  Chars = {a, b}
  Blank = b
  Chunks <- MCChunks
  Canonical <- MCCanonical
  MaxText = 4
  MaxLines = 5
SPECIFICATION FairSpec
INVARIANTS
  StreamWellFormed
  DeltasSpellText
PROPERTY
  StreamCloses
CHECK_DEADLOCK FALSE
