CONSTANTS
  Width = 2
  Lengths = {0, 1}
  Addr <- MCAddr
  Depth <- MCDepth
  Prefix <- MCPrefix
  PrefixAt <- MCPrefixAt
  NoPrefix <- MCNoPrefix
  InitAliases <- NoAddresses
  Sender = {s1}
  Batches <- TwoBatches
  Asked <- OneAddress
  MaxSubmit = 1
  MaxInFlight = 3
  TxCap = 1
  AckCap = 1
  ResultCap = 2
  DrainMax = 1
  MaxReplies = 3
  Faults = FALSE
SPECIFICATION SessionSpec
INVARIANTS
  QueuedUncovered
  WaitersServed
  SettledIsComplete
PROPERTIES
  CleanStaysClean
  RepliesBeatDeadlines
  DetectorSpec
  KeepsPromise
