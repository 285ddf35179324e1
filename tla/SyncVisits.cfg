\* r2 traverses the two notes of r1 in pages of one or two versions. Its requests
\* fail, it restarts, its settings change and change back, both sides go on editing,
\* and a second head of a note is one too many, so that pages are refused as a whole,
\* some of them in the middle. A device whose synchronization is off rests.
SPECIFICATION Spec
CHECK_DEADLOCK FALSE
CONSTANTS
  r1 = r1
  r2 = r2
  Replica <- Both
  Note = {1, 2}
  VersionId = {1, 2, 3, 4}
  MaxHeads = 1
  MaxClockReplicas = 2
  PageItems = 2
  PagesPerRun = 2
  MaxNotes = 2
  InitialPeers <- Mutual
  Ids <- MostlyFirst
  Pulling <- OnlySecond
  MaxGeneration <- SecondTwice
  Faulty <- OnlySecond
  Settling = FALSE
  Observed <- SecondOfFirst
INVARIANTS
  SweepMissesNothing
PROPERTIES
  RevocationIsFinal
