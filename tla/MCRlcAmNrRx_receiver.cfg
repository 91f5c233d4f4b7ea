SPECIFICATION RxSpec
CONSTANTS
  mod_nr = 6
  AM_Window_Size = 3
  Sdus <- OneSdu
  N_bytes = 3
  min_hdr_size = 2
  so_size = 2
  NackRangeMod = 3
  OutOfBuffers = {"rx"}
  Pdus <- WholeOrHalves
  StatusGrants <- Grants
  StatusProhibitSet = TRUE

INVARIANTS
  RxConsistent
  SegmentsDisjoint
  StatusExact
  TrimmedStatusSound

CHECK_DEADLOCK FALSE
