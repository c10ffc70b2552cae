------------------------- MODULE MCRecoveredSigsDb -------------------------
(***************************************************************************)
(* RecoveredSigsDb for TLC: one id, two conflicting messages.              *)
(***************************************************************************)
EXTENDS RecoveredSigsDb, TLC

CONSTANTS id1, m1, m2

MCIds == {id1}
MCMsgs == {m1, m2}
MsgSymmetry == Permutations(MCMsgs)
=============================================================================
