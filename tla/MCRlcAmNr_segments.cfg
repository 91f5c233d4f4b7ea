SPECIFICATION Safety
CONSTANTS
  mod_nr = 6
  AM_Window_Size = 3
  Sdus <- TwoSdus
  N_bytes = 2
  min_hdr_size = 2
  so_size = 2
  NackRangeMod = 256
  OutOfBuffers = {"tx"}
  Pdus <- NoPdus
  StatusGrants <- WholeGrant
  StatusProhibitSet = TRUE
  PollPdu = 0
  PollByte = 3
  max_retx_thresh = 2
  TxQueueLength = 3
  Grants <- SmallOrWhole
  MaxInFlight = 1
  LenMod = 1000
  Reordered <- NoReordering
  WithDiscard = TRUE
  WithReestablish = TRUE

INVARIANTS
  BearerConsistent

PROPERTIES
  ImplementsBearer

CHECK_DEADLOCK FALSE
