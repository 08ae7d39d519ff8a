SPECIFICATION Spec
CONSTANTS
  q1 = q1
  q2 = q2
  defaults = defaults
  changed = changed
  Query <- Queries
  Config <- Configs
  DefaultConfig = defaults
  HasPassword = TRUE
  MaxBoots = 1
  MaxChanges = 0
  MaxOutages = 1
PROPERTIES
  PoolOpensOnceDatabaseStays
CHECK_DEADLOCK FALSE
