-------------------------- MODULE MCBlockProcessor --------------------------
(***************************************************************************)
(* BlockProcessor for TLC: DKG sessions of three blocks whose commitments  *)
(* are mined in the second and third, and a tree in which two branches     *)
(* mine different commitments for the first quorum.                        *)
(*                                                                         *)
(*      0 -- 1(a) -- 2 -- 3 -- 4(d) -- 14                                  *)
(*       \     \       \-- 10(d: outside the window)                       *)
(*        \     \-- 8(b: second commitment)                                *)
(*         \-- 5(null) -- 6(b) -- 7 -- 11(null: wrong root)                *)
(*                   \-- 9(none: missing)                                  *)
(*                   \-- 12(c: invalid commitment)                         *)
(*                   \-- 13(a: bad smartnode list)                         *)
(***************************************************************************)
EXTENDS BlockProcessor

CONSTANTS qc_a, qc_b, qc_c, qc_d

FourCommitments == {qc_a, qc_b, qc_c, qc_d}
Tree == <<0, 1, 2, 3, 0, 5, 6, 1, 5, 2, 7, 5, 5, 4>>
TreeHeight[x \in 0 .. 14] == IF x = 0 THEN 0 ELSE TreeHeight[Tree[x]] + 1
TreeAnc[x \in 0 .. 14] == IF x = 0 THEN {x} ELSE TreeAnc[Tree[x]] \cup {x}
Carried == [x \in 0 .. 14 |->
    CASE x \in {1, 13} -> qc_a [] x \in {6, 8} -> qc_b [] x = 12 -> qc_c [] x \in {4, 10} -> qc_d
      [] x \in {5, 11} -> NullQc [] OTHER -> NoQc]
Signed == [x \in FourCommitments |-> IF x = qc_d THEN 3 ELSE 0]
Signers == [x \in FourCommitments |-> CASE x = qc_a -> 2 [] x = qc_b -> 3 [] x = qc_c -> 4 [] x = qc_d -> 2]
AllButC == {qc_a, qc_b, qc_d}
OnlyB == {qc_b}
=============================================================================
