SPECIFICATION Spec
CONSTANTS
  insert = insert
  update = update
  create = create
  Sql <- Texts
  Dml <- BatchedTexts
  MaxLength = 4
  ChunkSize = 2
  Window = 2
  Faults <- CleanFaults
INVARIANTS
  TypeOK
  GroupedLikeUngrouped
  ReleasedClean
  DurationsLogged
PROPERTIES
  ImplementsOutcome
