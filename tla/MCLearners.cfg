CONSTANTS
  DetSeeds = 2
SPECIFICATION LearnerSpec
INVARIANTS
  NeverAgain
  ExhaustedIsWhole
  SharesFollowEvidence
  SeedsInOnePlace
  SavedModelLoads
  EvidenceHolds
  FastIsExact
