SPECIFICATION Spec
CONSTANTS
  Readers = {r1, r2}
  Pages = 6
  Mapped = 4
  MayFail = TRUE
  MaxTx = 4
  Nil = Nil
  MaxThreads = 1
  InsertionMax = 3
  Tables <- MCTables
  Samples <- MCSamples
SYMMETRY Symmetry
INVARIANTS
  TypeOK
  SnapshotIsKept
  RowsAreThoseRead
  NewestFirst
