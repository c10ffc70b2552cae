--------------------------- MODULE MCQuorumSigning ---------------------------
(***************************************************************************)
(* QuorumSigning for TLC.                                                  *)
(***************************************************************************)
EXTENDS QuorumSigning, TLC

CONSTANTS n1, n2, n3, n4, q1, q2, m1, m2

TwoMsgs == {m1, m2}

OneQuorum == {q1}
Two == [q \in {q1} |-> 2]

\* Two valid members, both needed.
TwoHonest == {n1, n2}
TwoOfTwo == [q \in {q1} |-> {n1, n2}]
TwoSymmetry == Permutations({n1, n2}) \cup Permutations({m1, m2})

\* The quorum is mined at height 1.
AtHeightOne == [h \in 0 .. 1 |-> IF h = 0 THEN NoQuorum ELSE q1]

\* A new quorum with other valid members becomes active at height 1 (llmq3_60:
\* two valid members are enough, and both must sign).
FourHonest == {n1, n2, n3, n4}
TwoQuorums == {q1, q2}
TwoMembers == [q \in {q1, q2} |-> IF q = q1 THEN {n1, n2} ELSE {n3, n4}]
TwoEach == [q \in {q1, q2} |-> 2]
SecondAtOne == [h \in 0 .. 1 |-> IF h = 0 THEN q1 ELSE q2]
=============================================================================
