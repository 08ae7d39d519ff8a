SPECIFICATION CallsSpec
CONSTANTS
  await = await
  js = js
  lua = lua
  async = async
  x = x
  y = y
  NoCall = NoCall
  NoText = NoText
  Call <- AllCalls
  Timed <- TimedCalls
  Unclonable <- UnclonableCalls
  Asks <- Asked
  Texts <- StoredTexts
  ReturnErrors = TRUE
INVARIANTS
  TypeOK
  AnswersMatch
  SettledAtMostOnce
  NoCallIsForgotten
  TimersFollowBook
  HeardWhatWasAnswered
PROPERTIES
  TimedCallsSettle
  ExitSettlesAll
  ImplementsBook
  CallersHearBack
CHECK_DEADLOCK FALSE
