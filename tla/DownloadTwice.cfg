\* The client stops after it has published a file and before it has removed the
\* partial download; the peer's file changes and is downloaded again.
SPECIFICATION DownloadSpec
CHECK_DEADLOCK FALSE
CONSTANTS
  Version = {1, 2}
  Size <- OneAndTwo
  MaxFiles = 2
  MaxChanges = 1
  RemovalFails = TRUE
INVARIANTS
  PublishedStays
