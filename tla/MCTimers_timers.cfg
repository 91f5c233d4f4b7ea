SPECIFICATION Spec
CONSTANTS
  Capacity = 1
  MaxTimers = 2
  WHEEL_SIZE = 2
  TicMod = 4
  Durations <- ShortDurations
  Uses <- NoUses

INVARIANTS
  TimersConsistent
  ElapsedWithinDuration

PROPERTIES
  NoTimerRunsForEver
