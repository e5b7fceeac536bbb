SPECIFICATION MCSpec
CONSTANTS
  Peer = {"p"}
  MaxHeight = 2
  Member <- MCMember
  MemberCnt = 2
  Coinbase = "m2"
  Worker = {1, 2}
  MaxTime = 5
  MaxCalls = 3
  RetryLimit = 2
  RetryTime = 1
  DoneLimit = 1
  DoneTime = 2
INVARIANTS
  NodeTypeOK
  OneBlockPerSlot
  ProducedVerifies
  MinerSubscribed
  SyncDoneOnce
  SendsApart
PROPERTIES
  BlockFetched
  MinerStops
  FirstSyncEnds
CHECK_DEADLOCK FALSE
