SPECIFICATION Spec
CONSTANTS
    g = g  x1 = x1  x2 = x2
    a1 = a1  a2 = a2  a3 = a3
    b1 = b1  b2 = b2  b3 = b3  b4 = b4
    c1 = c1  c2 = c2  c3 = c3
    Nil = Nil
    Disk = Disk
    Genesis = g
    Block <- DeepCBlock
    PreHash <- DeepCPre
    BlockHeight <- DeepCHeights
    Announced <- DeepCAnnounced
    MaxHeight = 4
    ForkMargin = 0
    PointErrors = FALSE
INVARIANT
    NoChainError
