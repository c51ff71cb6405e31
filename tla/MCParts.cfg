CONSTANTS
  Width = 3
  Top <- MCTop
  Prefix <- MCPrefix
  Stream <- MCStream
  Options <- MCOptions
  Buffer = 2
  MayFail = TRUE
  FrameCount = 5
  RingCount = 3
  TxBatch = 2
  WakeBatch = 3
  TxSlots = 3
  RxSlots = 3
  KickBatch = 2
  MaxFrames = 8
  MaxRefusals = 2
  KernelFails = TRUE
SPECIFICATION MCSpec
INVARIANTS
  QueriesAgree
  ListingIsMinimal
  InOrder
  FramesAccounted
  ReceivedInOrder
PROPERTIES
  GenerationEnds
  CallsReturn
