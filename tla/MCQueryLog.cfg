SPECIFICATION Spec
CONSTANTS
  None = None
  Resource <- Resources
  Sample <- Samples
  Found <- Searches
  Sort <- Sorts
  Sizes <- LogSizes
  DebugSize = 3
  PageSize = 2
  Entries = 4
  Changes = 1
  Clicks = 4
INVARIANTS
  BufferKeepsNewest
  QuietShowsOwnPage
CHECK_DEADLOCK FALSE
