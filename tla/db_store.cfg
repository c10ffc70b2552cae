SPECIFICATION Spec
CONSTANTS
    id1 = id1
    m1 = m1
    m2 = m2
    NoMsg = NoMsg
    Ids <- MCIds
    Msgs <- MCMsgs
    Roles = {"worker", "truncater", "reader"}
    MaxAge = 0
    MaxTime = 1
SYMMETRY MsgSymmetry
INVARIANT TypeOK
INVARIANT SigReachableByCleanup
