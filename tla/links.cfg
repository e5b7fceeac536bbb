SPECIFICATION MCSpec
CONSTANTS
  Node = {"a", "b"}
  MaxStarts = 3
  NetId <- MCNetId
  QueueCap = 1
  Writers = {"a"}
  Stoppers = {"a"}
  Crashers = {"b"}
  MaxLinks = 2
  MaxAgain = 1
INVARIANTS
  LinksTypeOK
  PeersRead
  SeenArePeers
  ListedOpen
  BootListed
PROPERTIES
  NoHalfOpen
  StopEnds
  StoppedAlone
  BootForgets
CHECK_DEADLOCK FALSE
