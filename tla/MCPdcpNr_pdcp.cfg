SPECIFICATION MCSpec
CONSTANTS
  SnMod = 8
  HfnMod = 2
  Configs <- Deployments
  Corrupt = Corrupt
  Sdus <- AllCounts
  StartCount = 7
  MaxAmSdus = 6

INVARIANTS
  CountsUnique
  EntityConsistent

PROPERTIES
  DeliveredInOrder
  NothingLost
  HeldPdusReleased

CHECK_DEADLOCK FALSE
