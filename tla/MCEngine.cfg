CONSTANTS
  Worker = {w1, w2}
  SourceLen = 3
  Planned = 3
  BatchSize = 2
  Burst = 2
  TxCap = 1
  ResultCap = 1
  EventCap = 1
  MaxReplies = 2
  Window = TRUE
  Faults = TRUE
SPECIFICATION FairSpec
INVARIANTS
  CompletedIsWhole
  CountFollowsWire
PROPERTIES
  ScanEnds
\* A scan stops once its outcome is named and read.
CHECK_DEADLOCK FALSE
