SPECIFICATION SafeSpec
CONSTANTS
  t1 = t1
  t2 = t2
  k1 = k1
  k2 = k2
  NoTxn = NoTxn
  NoConn = NoConn
  Txn <- Transactions
  Conn <- Threads
  MaxQueries = 2
  PoolSize = 1
  Propagate = TRUE
  Faults <- AllButStray
SYMMETRY Interchangeable
INVARIANTS
  TypeOK
  OwnWorkOnly
  AllOrNothing
  TrueIsDurable
PROPERTIES
  ImplementsOutcome
CHECK_DEADLOCK FALSE
