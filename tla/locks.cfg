SPECIFICATION FairSpec
CONSTANTS
    Account = {a1}
    Caller = {c1, c2}
    Miner = {}
    Snapshot = Snapshot
    None = None
INVARIANT
    BodiesApart
PROPERTY
    EveryCallReturns
