-------------------------- MODULE OneSigPerQuorum --------------------------
(***************************************************************************)
(* What a signing quorum promises for one request id, without votes,       *)
(* shares or messages: it signs at most one message hash for as long as    *)
(* the votes on the id are remembered.                                     *)
(***************************************************************************)
CONSTANTS Quorums, Msgs

VARIABLES
    signed,     \* the recovered sigs <<quorum, message>>
    expired     \* -recsigsmaxage has passed since the first votes

Init == signed = {} /\ expired = FALSE

SignOne(q, m) ==
    /\ expired \/ \A m2 \in Msgs : <<q, m2>> \notin signed
    /\ signed' = signed \cup {<<q, m>>}
    /\ UNCHANGED expired

Expire == ~expired /\ expired' = TRUE /\ UNCHANGED signed

Next == Expire \/ \E q \in Quorums, m \in Msgs : SignOne(q, m)

Spec == Init /\ [][Next]_<<signed, expired>>
=============================================================================
