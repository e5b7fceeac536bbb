SPECIFICATION Spec
CONSTANTS
    Nil = Nil
    Account = {"A", "F"}
    ABlock = {"a0", "s1", "x1", "s2", "r1", "r2", "d2", "d1"}
    Body <- MCBody
    GenesisOf <- MCGenesisOf
    SBlock = {"S0", "S1", "S2", "U2", "T1"}
    SBody <- MCSBody
    SGenesis = "S0"
    MaxHeight = 2
    Caller = {"c1", "c2"}
    Local = {"s1", "r1"}
    Asked = {"F"}
    Announced = {"r2", "d2", "d1"}
    Branch <- MCBranch
    MaxVersion = 2
CHECK_DEADLOCK FALSE
INVARIANTS
    LedgerTypeOK
    AccountsLinked
    ReceiptsBacked
    MoneyKept
    RequestsOpen
    PointsConfirm
    PanicsExplained
PROPERTY
    ConfirmedStay
