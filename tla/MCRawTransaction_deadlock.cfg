SPECIFICATION Spec
CONSTANTS
  insert = insert
  update = update
  create = create
  Sql <- Texts
  Dml <- BatchedTexts
  MaxLength = 3
  ChunkSize = 2
  Window = 2
  Faults <- DeadlockFaults
INVARIANTS
  GroupedLikeUngrouped
