SPECIFICATION Spec
CONSTANTS
  preambleTransMax = 2
  MaxTasks = 2

INVARIANTS
  TypeOK
  RaConsistent
  StaleTasksIgnored

PROPERTIES
  RaReported
