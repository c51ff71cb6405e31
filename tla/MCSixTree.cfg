CONSTANTS
  Position <- MCPosition
  Dim <- MCDim
  Digit <- MCDigit
  Seeds <- MCDeep
  LeafMax = 1
  BatchPercent = 50
  Detections = {TRUE, FALSE}
  ProbesPerValue = 1
  MinSuspicious = 4
  MaxNormal = 4
  Alias <- MCAlias
  Verdicts <- MCVerdicts
  Buffers = {8}
  Chunks = {1}
SPECIFICATION Spec
INVARIANTS
  PlainNeverStarves
  ExhaustedIsComplete
PROPERTIES
  ScannedOnce
