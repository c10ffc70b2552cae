SPECIFICATION FairSpec
CONSTANTS
    g = g
    a1 = a1
    b1 = b1
    b2 = b2
    Null = Null
    Blocks <- FourBlocks
    Genesis = g
    Parent <- ForkParent
    Height <- ForkHeight
    Anc <- ForkAnc
    Locked <- AcrossBranches
    Threads <- ThreeThreads
    InitialHeaders <- ShortBranchKnown
    SignOffset = 1
    MaxUpsets = 1
INVARIANT TypeOK
INVARIANT KnownNotAboveBest
PROPERTY SignsNoConflict
 
PROPERTY NoReorgOfLock
PROPERTY Enforced
