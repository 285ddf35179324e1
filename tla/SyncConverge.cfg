\* Two devices, with conflicts that take two pages and faults until the
\* environment settles.
SPECIFICATION FairSpec
CONSTANTS
  r1 = r1
  r2 = r2
  Replica <- Both
  Note = {1}
  VersionId = {1, 2, 3}
  MaxHeads = 3
  MaxClockReplicas = 2
  PageItems = 1
  PagesPerRun = 1
  MaxNotes = 1
  InitialPeers <- Mutual
  Ids <- TwoAndOne
  Pulling <- Both
  MaxGeneration <- NoChanges
  Faulty <- OnlySecond
  Settling = TRUE
  Observed = {}
PROPERTIES
  Convergence
