\* Two requests of one computer write the same blob.
SPECIFICATION BlobSpec
CONSTANTS
  r1 = r1
  r2 = r2
  Computer = {"a"}
  Task = {r1, r2}
  Length = 1
  MaxInodes = 2
  Together = TRUE
SYMMETRY Symmetry
INVARIANTS
  NothingPartialIsLeft
