\* One request at a time; what peers send is not pinned there.
SPECIFICATION HistorySpec
CONSTANTS
  Id = {1, 2, 3}
  Local = {1, 3}
  Content <- SomeContent
  Caller = {c1}
  Limit = 1
  ListMax = 2
  PeerFlags = {FALSE}
PROPERTIES
  PinnedStaysPinned
