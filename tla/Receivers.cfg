\* Declarations and events share their numbers here, which bounds the run: there are
\* two declarations, or one and an event.
SPECIFICATION FairSpec
CONSTANTS
  d1 = d1
  d2 = d2
  g1 = g1
  g2 = g2
  Desktop = {d1, d2}
  Group = {g1, g2}
  NoGroup = NoGroup
  InitialToken <- OneGroup
  NextTokens = {g2, NoGroup}
  Operation = {1, 2}
  Event = {1}
  At <- AtSecond
  Session <- FirstSession
  Sessions = 1
  Alerting = {1}
  MaxEvents = 1
  SpoolMax = 1
  AlertMax = 1
  SeenMax = 9
  MaxFaults = 1
  MaxStarts = 1
INVARIANTS
  KnownReceiverIsAlone
  NothingIsReplayed
PROPERTIES
  ReceiversSettle
