CONSTANTS
  a1 = a1
  a2 = a2
  Addr <- Addresses
  InitAliases = {}
  Alias <- Found
  Exclude = {}
  Count = 2
  MaxAttempts = 3
  BatchSize = 2
  MaxInFlight = 2
  FeedbackMax = 2
  Faults = TRUE
SPECIFICATION FairSpec
INVARIANTS
  EveryCandidateAnswered
  JournalIsApplied
  AliasFirst
PROPERTIES
  RoundIsWhole
  ScanEnds
