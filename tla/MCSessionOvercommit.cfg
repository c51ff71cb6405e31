CONSTANTS
  Width = 2
  Lengths = {0, 1}
  Addr <- MCAddr
  Depth <- MCDepth
  Prefix <- MCPrefix
  PrefixAt <- MCPrefixAt
  NoPrefix <- MCNoPrefix
  InitAliases <- NoAddresses
  Sender = {s1}
  Batches <- TwoBatches
  Asked <- NoAddresses
  MaxSubmit = 1
  MaxInFlight = 3
  TxCap = 1
  AckCap = 1
  ResultCap = 2
  DrainMax = 1
  MaxReplies = 3
  Faults = FALSE
SPECIFICATION SessionSpec
INVARIANTS
  ProbesWithinMax
