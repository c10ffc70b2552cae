---------------------------- MODULE MCChainLocks ----------------------------
(***************************************************************************)
(* ChainLocks for TLC: a branch of one block and a branch of two blocks.   *)
(***************************************************************************)
EXTENDS ChainLocks

CONSTANTS g, a1, b1, b2

FourBlocks == {g, a1, b1, b2}

ForkParent == [x \in {a1, b1, b2} |-> IF x = b2 THEN b1 ELSE g]
ForkHeight == [x \in FourBlocks |-> CASE x = g -> 0 [] x = b2 -> 2 [] OTHER -> 1]
ForkAnc == [x \in FourBlocks |-> IF x = b2 THEN {g, b1, b2} ELSE {g, x}]
LongBranch == {b1, b2}
AcrossBranches == {a1, b2}
ThreeThreads == {"msghand", "sigs", "sched"}
ShortBranchKnown == {g, a1}
=============================================================================
