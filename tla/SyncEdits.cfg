\* Two devices edit one note in turns or at the same time, exchange it in both
\* directions page by page and resolve the conflicts, while more arrives.
SPECIFICATION Spec
CONSTANTS
  r1 = r1
  r2 = r2
  Replica <- Both
  Note = {1}
  VersionId = {1, 2, 3, 4}
  MaxHeads = 3
  MaxClockReplicas = 2
  PageItems = 1
  PagesPerRun = 1
  MaxNotes = 1
  InitialPeers <- Mutual
  Ids <- Alternating
  Pulling <- Both
  MaxGeneration <- NoChanges
  Faulty = {}
  Settling = FALSE
  Observed = {}
INVARIANTS
  TypeOK
  HeadsAreMaxima
  RowsMatchHeads
  ClocksAreCausal
PROPERTIES
  WritesReplaceWhatWasRead
  RevisionFollowsHeads
  ImplementsCausalNotebook
