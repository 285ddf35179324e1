\* Two phones, two codes and up to two sessions, of which one fits the storage;
\* or one configured device.  Crashes, failing writes, and a file that changed.
SPECIFICATION Spec
CONSTANTS
  p1 = p1
  p2 = p2
  Phone <- Both
  MaxDevices = 1
  MaxTickets = 2
  MaxIds = 2
  Size = 3
  Chunk = 2
  MaxSessions = 2
  MaxStored = 5
  MaxFaults = 2
  Surfaces = {"paired", "configured"}
  Overlap = FALSE
SYMMETRY Symmetry
INVARIANTS
  PairingIsExclusive
  UploadsAreWhole
  ToldIsTrue
  QuotaIsExact
  OnlyTornIsUnreadable
PROPERTIES
  RevokedStaysOut
\* The bounds on codes, sessions and faults end a run.
CHECK_DEADLOCK FALSE
