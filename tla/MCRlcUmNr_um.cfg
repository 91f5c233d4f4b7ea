SPECIFICATION Spec
CONSTANTS
  UM_Window_Size = 4
  sn_bytes = 1
  N_bytes = 5
  Grants = {3, 5, 8}
  TxQueueLength = 2
  MaxInFlight = 2
  Sdus <- Sdus_of
  StartSn = 6
INVARIANTS
  ReceiverConsistent
  DeliveredWhole
  NothingDropped
PROPERTIES
  ImplementsBearer
  HeldSegmentsReleased
CHECK_DEADLOCK FALSE
