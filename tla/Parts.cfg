\* Parts of one computer that do not interact, each with its own small instance.
SPECIFICATION Spec
CHECK_DEADLOCK FALSE
CONSTANTS
  r1 = r1
  r2 = r2
  nil = nil
  Version = {1, 2}
  Size <- OneAndTwo
  MaxFiles = 3
  MaxChanges = 3
  RemovalFails = FALSE
  MaxUpdates = 2
  WaitFails = FALSE
  Owner = {o1, o2, o3}
  RecoversEarly = FALSE
  MaxCommands = 2
  Device = {"d"}
  MaxSessions = 2
  MaxEpoch = 4
  Page = {r1, r2}
  Value = {1, 2}
  NoOne = nil
  NoFile = nil
  Default = 1
  MaxWrites = 1
  MaxRestarts = 1
  Id = {1, 2, 3}
  Local = {1, 3}
  Content <- SameContent
  Caller = {r1, r2}
  Limit = 2
  ListMax = 2
  PeerFlags = {TRUE, FALSE}
  MaxCalls = 2
  MaxHostEpoch = 2
  MaxPageChanges = 1
  Copy = {r1, r2}
  MaxOps = 3
  MaxParents = 2
  Computer = {"a", "b"}
  Task = {r1, r2}
  Length = 2
  MaxInodes = 4
  Together = FALSE
SYMMETRY Symmetry
INVARIANTS
  HistoryIsBounded
  UseIsApproved
  DeviceIsHandedOn
  ExecutorStaysOut
  LeaseIsQuiet
  ProgramIsKept
  AcceptedChangesStay
  FolderFollowsFile
  HeadsAreLatest
  PublishedStays
  CalmAttemptSucceeds
  PayloadsAreKept
PROPERTIES
  PinsOutliveWork
  HandBackIsFinal
