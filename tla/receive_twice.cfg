SPECIFICATION Spec
CONSTANTS
    Nil = Nil
    Account = {"A", "F"}
    ABlock = {"a0", "s1", "r1", "d1"}
    Body <- MCBody
    GenesisOf <- MCGenesisOf
    SBlock = {"S0"}
    SBody <- MCSBody
    SGenesis = "S0"
    MaxHeight = 2
    Caller = {"c1"}
    Local = {"s1", "r1"}
    Asked = {}
    Announced = {"d1"}
    Branch <- MCNoBranch
    MaxVersion = 1
CHECK_DEADLOCK FALSE
INVARIANT
    ReceivedOnce
