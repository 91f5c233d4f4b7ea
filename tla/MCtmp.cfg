SPECIFICATION Safety
CONSTANTS
  mod_nr = 4
  AM_Window_Size = 2
  Sdus <- OneSdu
  N_bytes = 3
  min_hdr_size = 2
  so_size = 2
  NackRangeMod = 256
  OutOfBuffers = {"rx"}
  Pdus <- NoPdus
  StatusGrants <- WholeGrant
  StatusProhibitSet = TRUE
  PollPdu = 0
  PollByte = 0
  max_retx_thresh = 2
  TxQueueLength = 3
  Grants <- CutsOrWhole
  MaxInFlight = 2
  LenMod = 1000
  Reordered <- NoReordering
  WithDiscard = FALSE
  WithReestablish = FALSE

INVARIANTS
  SegmentListsTile
  ExactlyOnce

CHECK_DEADLOCK FALSE
