CONSTANTS
  Width = 2
  Lengths = {0}
  Addr <- MCAddr
  Depth <- MCDepth
  Prefix <- MCPrefix
  PrefixAt <- MCPrefixAt
  NoPrefix <- MCNoPrefix
  InitAliases <- OneAlias
  Sender = {s1, s2}
  Batches <- RepeatBatches
  Asked <- NoAddresses
  MaxSubmit = 2
  MaxInFlight = 4
  TxCap = 1
  AckCap = 1
  ResultCap = 1
  DrainMax = 2
  MaxReplies = 2
  Faults = TRUE
SPECIFICATION SessionFairSpec
INVARIANTS
  EveryProbeCounted
  OneVerdict
PROPERTIES
  SessionEnds
