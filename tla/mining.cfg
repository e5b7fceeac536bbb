SPECIFICATION FairSpec
CONSTANTS
    Account = {a1}
    Caller = {}
    Miner = {m}
    Snapshot = Snapshot
    None = None
PROPERTY
    MiningReturns
CHECK_DEADLOCK FALSE
