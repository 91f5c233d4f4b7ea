SPECIFICATION Spec
CONSTANTS
  Pids = {0}
  MaxRetx = 1
  max_harq_tx = 2
  SlotMod = 7
  TxDelay = 2
  K = 1
  Workers = 2
  Blocks = {1, 2, 3}
  MaxMissed = 1
  FailsAt = {"again"}

INVARIANTS
  AcksTrue
  BlocksApart
  DeliveredOnce

PROPERTIES
  BlocksResolved
