\* A gateway is started while a request of the one before is still at work.
SPECIFICATION Spec
CONSTANTS
  p1 = p1
  p2 = p2
  Phone <- Both
  MaxDevices = 1
  MaxTickets = 2
  MaxIds = 2
  Size = 3
  Chunk = 2
  MaxSessions = 2
  MaxStored = 5
  MaxFaults = 0
  Surfaces = {"paired", "configured"}
  Overlap = TRUE
SYMMETRY Symmetry
PROPERTIES
  PublishedIsKept
CHECK_DEADLOCK FALSE
