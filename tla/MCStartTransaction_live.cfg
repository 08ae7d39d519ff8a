SPECIFICATION Spec
CONSTANTS
  t1 = t1
  t2 = t2
  k1 = k1
  k2 = k2
  NoTxn = NoTxn
  NoConn = NoConn
  Txn <- Transactions
  Conn <- Threads
  MaxQueries = 1
  PoolSize = 1
  Propagate = TRUE
  Faults <- OrderlyFaults
INVARIANTS
  NoQueryBesideEnd
  IdleIsClean
PROPERTIES
  NoResultAfterAbort
  ConnectionsComeBack
CHECK_DEADLOCK FALSE
