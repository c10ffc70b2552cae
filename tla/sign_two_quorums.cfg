SPECIFICATION Spec
CONSTANTS
    n1 = n1
    n2 = n2
    n3 = n3
    n4 = n4
    q1 = q1
    q2 = q2
    m1 = m1
    m2 = m2
    NoQuorum = NoQuorum
    NoMsg = NoMsg
    NoRec = NoRec
    Honest <- FourHonest
    Faulty = {}
    Quorums <- TwoQuorums
    Members <- TwoMembers
    Threshold <- TwoEach
    MaxHeight = 1
    QuorumAt <- SecondAtOne
    Msgs <- TwoMsgs
    MaxAge = 0
    MaxTime = 0
    MaxFaults = 0
INVARIANT OneSigPerId
