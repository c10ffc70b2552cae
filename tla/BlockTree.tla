----------------------------- MODULE BlockTree -----------------------------
(***************************************************************************)
(* The tree of blocks that a node knows (CBlockIndex, src/chain.h): every  *)
(* block but the first has a predecessor, one below it in height.          *)
(***************************************************************************)
EXTENDS Integers, FiniteSets

CONSTANTS
    Blocks,
    Genesis,
    Parent,     \* pprev
    Height,     \* nHeight
    Anc         \* Anc[b]: b and the blocks below it

ASSUME TreeAssumption ==
    /\ Genesis \in Blocks
    /\ Parent \in [Blocks \ {Genesis} -> Blocks]
    /\ Height \in [Blocks -> Nat] /\ Height[Genesis] = 0
    /\ Anc \in [Blocks -> SUBSET Blocks] /\ Anc[Genesis] = {Genesis}
    /\ \A b \in Blocks \ {Genesis} :
          Height[b] = Height[Parent[b]] + 1 /\ Anc[b] = Anc[Parent[b]] \cup {b}

GetAncestor(b, h) == CHOOSE a \in Anc[b] : Height[a] = h

\* What follows for every tree (BlockTreeProofs): a block lies above its other
\* ancestors, and these form one chain with one block at every height.
TreeShape ==
    \A b \in Blocks :
        /\ b \in Anc[b] /\ Genesis \in Anc[b] /\ Anc[b] \subseteq Blocks
        /\ \A x \in Anc[b] : Height[x] <= Height[b] /\ Anc[x] \subseteq Anc[b]
        /\ \A x, y \in Anc[b] : Height[x] <= Height[y] => x \in Anc[y]
        /\ \A x, y \in Anc[b] : Height[x] = Height[y] => x = y
        /\ \A h \in 0 .. Height[b] : \E x \in Anc[b] : Height[x] = h
=============================================================================
