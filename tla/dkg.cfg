SPECIFICATION Spec
CONSTANTS
    a = a
    b = b
    c = c
    NoMessage = NoMessage
    Members <- MCMembers
    Faulty <- MCFaulty
    CommitLies <- MCLies
    MinSize = 2
    Threshold = 2
    BadVotes = 2
    VerifyBatch = 2
    MaxMishaps = 1
SYMMETRY Sym
INVARIANTS
    TypeOK
    ViewsAgree
    HonestKept
    QuorumFormed
    
CHECK_DEADLOCK FALSE
