SPECIFICATION Spec
CONSTANTS
  c1 = c1
  c2 = c2
  k1 = k1
  k2 = k2
  police = police
  shop = shop
  id = id
  v0 = v0
  v1 = v1
  v2 = v2
  NoConn = NoConn
  ConvertNamed = TRUE
  Base = 4
  NarrowBytes = 2
  SafeMax = 31
  AllRows = 2
  Window = 2
  Changes = 1
  Call <- Calls
  Conn <- Conns
  Resource <- Resources
  Request <- Requests
  Matches <- RowsFound
INVARIANTS
  TypeOK
  ValuesSurvive
  ExecutedAsAsked
  AnswerFollowsTable
  LoggedOnceWithOwnTime
PROPERTIES
  NothingAfterAnswer
  EveryCallAnswered
CHECK_DEADLOCK FALSE
