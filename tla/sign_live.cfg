SPECIFICATION FairSpec
CONSTANTS
    n1 = n1
    n2 = n2
    n3 = n3
    q1 = q1
    m1 = m1
    m2 = m2
    NoQuorum = NoQuorum
    NoMsg = NoMsg
    NoRec = NoRec
    Honest <- ThreeHonest
    Faulty = {}
    Quorums <- OneQuorum
    Members <- TwoOfTwo
    Threshold <- Two
    MaxHeight = 1
    QuorumAt <- AtHeightOne
    Msgs <- TwoMsgs
    MaxAge = 0
    MaxTime = 0
    MaxFaults = 2
INVARIANT TypeOK
PROPERTY EventuallyRecovered
