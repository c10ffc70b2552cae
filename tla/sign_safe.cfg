SPECIFICATION Spec
CONSTANTS
    n1 = n1
    n2 = n2
    n3 = n3
    n4 = n4
    q1 = q1
    q2 = q2
    m1 = m1
    m2 = m2
    NoQuorum = NoQuorum
    NoMsg = NoMsg
    NoRec = NoRec
    Honest <- TwoHonest
    Faulty = {}
    Quorums <- OneQuorum
    Members <- TwoOfTwo
    Threshold <- Two
    MaxHeight = 1
    QuorumAt <- AtHeightOne
    Msgs <- TwoMsgs
    MaxAge = 0
    MaxTime = 1
    MaxFaults = 1
SYMMETRY TwoSymmetry

INVARIANT VotesApart
INVARIANT SharesVoted
INVARIANT RecoveredByThreshold
INVARIANT ConflictNeedsExpiredVote
PROPERTY ImplementsOneSigPerQuorum
