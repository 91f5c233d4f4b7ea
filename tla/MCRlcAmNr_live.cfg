SPECIFICATION Spec
CONSTANTS
  mod_nr = 4
  AM_Window_Size = 2
  Sdus <- TwoSdus
  N_bytes = 2
  min_hdr_size = 2
  so_size = 2
  NackRangeMod = 256
  OutOfBuffers = {}
  Pdus <- NoPdus
  StatusGrants <- WholeGrant
  StatusProhibitSet = TRUE
  PollPdu = 0
  PollByte = 0
  max_retx_thresh = 2
  TxQueueLength = 3
  Grants <- WholeGrant
  MaxInFlight = 1
  LenMod = 1000
  Reordered <- NoReordering
  WithDiscard = FALSE
  WithReestablish = FALSE
PROPERTIES
  FirstSduAcknowledged
  EventuallyQuiet
CHECK_DEADLOCK FALSE
