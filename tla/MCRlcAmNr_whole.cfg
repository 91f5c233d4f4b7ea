SPECIFICATION Safety
CONSTANTS
  mod_nr = 4
  AM_Window_Size = 2
  Sdus <- FiveSdus
  N_bytes = 2
  min_hdr_size = 2
  so_size = 2
  NackRangeMod = 256
  OutOfBuffers = {"rx"}
  Pdus <- NoPdus
  StatusGrants <- WholeGrant
  StatusProhibitSet = TRUE
  PollPdu = 2
  PollByte = 0
  max_retx_thresh = 2
  TxQueueLength = 2
  Grants <- WholeGrant
  MaxInFlight = 2
  LenMod = 1000
  Reordered <- NoReordering
  WithDiscard = TRUE
  WithReestablish = FALSE

INVARIANTS
  BearerConsistent

PROPERTIES
  ImplementsBearer

CHECK_DEADLOCK FALSE
