CONSTANTS
  Ops <- AllOps
  Batches <- MCBatches
  MaxRevision = 2
  Rounds = 2
  Aliased = {2}
  Stumbles = TRUE
  Faulty <- AllFaults
  OutCap = 1
  WriteFails = TRUE
  Targets <- MCTargets
  BatchMax = 2
  InputCap = 1
  InFlight = 3
  EventCap = 1
  DriveFails = TRUE
SPECIFICATION FairSpec
INVARIANTS
  InStep
  JournalIsReplayable
  OutputIsWhole
PROPERTIES
  SavedIsWhole
  CommandEnds
