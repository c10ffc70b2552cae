------------------------- MODULE MCSigningProgress -------------------------
(***************************************************************************)
(* SigningProgress for TLC: three honest nodes, two of them the members of *)
(* a quorum that is mined at height 1 and needs both, asked to sign two    *)
(* conflicting messages.                                                   *)
(***************************************************************************)
EXTENDS SigningProgress

CONSTANTS n1, n2, n3, q1, m1, m2

ThreeHonest == {n1, n2, n3}
OneQuorum == {q1}
TwoOfTwo == [q \in {q1} |-> {n1, n2}]
Two == [q \in {q1} |-> 2]
AtHeightOne == [h \in 0 .. 1 |-> IF h = 0 THEN NoQuorum ELSE q1]
TwoMsgs == {m1, m2}
=============================================================================
