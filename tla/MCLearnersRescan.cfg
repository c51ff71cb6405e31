CONSTANTS
  DetSeeds = 2
SPECIFICATION DetSpec
INVARIANTS
  NoRescan
\* DET has nothing left to ask.
CHECK_DEADLOCK FALSE
