SPECIFICATION Spec
CONSTANTS
    g = g
    a1 = a1
    b1 = b1
    b2 = b2
    Null = Null
    Blocks <- FourBlocks
    Genesis = g
    Parent <- ForkParent
    Height <- ForkHeight
    Anc <- ForkAnc
    Locked <- LongBranch
    Threads <- ThreeThreads
    InitialHeaders <- ShortBranchKnown
    SignOffset = 8
    MaxUpsets = 0
PROPERTY BestNotReplacedByOlder
