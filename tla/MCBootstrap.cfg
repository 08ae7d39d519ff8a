SPECIFICATION Spec
CONSTANTS
  q1 = q1
  q2 = q2
  defaults = defaults
  changed = changed
  Query <- Queries
  Config <- Configs
  DefaultConfig = defaults
  HasPassword = FALSE
  MaxBoots = 2
  MaxChanges = 1
  MaxOutages = 1
INVARIANTS
  TypeOK
  ConfigMirrored
  RunsOnceOnOpenPool
  ReadyMeansPool
PROPERTIES
  PoolOpensOnceDatabaseStays
  BlockedQueriesRun
  StopEndsWorker
CHECK_DEADLOCK FALSE
