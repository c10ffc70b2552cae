SPECIFICATION Spec
CONSTANTS
    id1 = id1
    m1 = m1
    m2 = m2
    NoMsg = NoMsg
    Ids <- MCIds
    Msgs <- MCMsgs
    Roles = {"worker", "signer", "truncater"}
    MaxAge = 1
    MaxTime = 2
SYMMETRY MsgSymmetry


INVARIANT VotesPaired
PROPERTY VoteKept
 
 
