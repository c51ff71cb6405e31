CONSTANTS
  Position <- MCPosition
  Dim <- MCDim
  Digit <- MCDigit
  Seeds <- MCSeeds
  LeafMax = 2
  BatchPercent = 100
  Detections = {TRUE}
  ProbesPerValue = 1
  MinSuspicious = 4
  MaxNormal = 4
  Alias = {}
  Verdicts <- MCTwo
  Buffers = {8}
  Chunks = {8}
SPECIFICATION Spec
INVARIANTS
  NeverStarves
