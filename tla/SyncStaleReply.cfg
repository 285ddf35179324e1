\* The page takes over the revision of a save's reply without its content.
SPECIFICATION Spec
CONSTANTS
  r1 = r1
  r2 = r2
  Replica <- Both
  Note = {1}
  VersionId = {1, 2, 3, 4}
  MaxHeads = 3
  MaxClockReplicas = 2
  PageItems = 1
  PagesPerRun = 1
  MaxNotes = 1
  InitialPeers <- Mutual
  Ids <- AnyId
  Pulling <- Both
  MaxGeneration <- NoChanges
  Faulty = {}
  Settling = FALSE
  Observed = {}
SYMMETRY Symmetry
PROPERTIES
  NoSilentOverwrite
