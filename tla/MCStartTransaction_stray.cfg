SPECIFICATION SafeSpec
CONSTANTS
  t1 = t1
  t2 = t2
  k1 = k1
  k2 = k2
  NoTxn = NoTxn
  NoConn = NoConn
  Txn <- Transactions
  Conn <- Threads
  MaxQueries = 1
  PoolSize = 1
  Propagate = FALSE
  Faults <- StrayCallbacks
INVARIANTS
  OwnWorkOnly
CHECK_DEADLOCK FALSE
