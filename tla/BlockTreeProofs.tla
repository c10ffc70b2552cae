-------------------------- MODULE BlockTreeProofs --------------------------
(***************************************************************************)
(* What follows from TreeAssumption for every tree, by the lowest counter- *)
(* example: the ancestors of a block form one chain with exactly one block *)
(* at every height up to the block's own, and two blocks have a fork.      *)
(***************************************************************************)
EXTENDS BlockTree, TLAPS

LOCAL INSTANCE WellFoundedInduction

LEMMA MinNat == ASSUME NEW S \in SUBSET Nat, S # {} PROVE \E x \in S : \A y \in S : x <= y
<1> DEFINE R == {ss \in Nat \X Nat : ss[1] < ss[2]}
<1>1. IsWellFoundedOn(R, Nat)
  BY NatLessThanWellFounded, Zenon DEF OpToRel
<1>2. PICK x \in S : \A y \in S : <<y, x>> \notin R
  <2> HIDE DEF R
  <2> QED
    BY <1>1, WFMin, Zenon
<1>3. \A y \in S : ~(y < x)
  BY <1>2, Zenon
<1> QED
  BY <1>3

\* A set of blocks has a lowest one, and one of bounded height a highest one.
LEMMA Lowest ==
    ASSUME NEW S \in SUBSET Blocks, S # {}
    PROVE  \E b \in S : \A x \in S : Height[b] <= Height[x]
<1> DEFINE H == {Height[x] : x \in S}
<1>1. H \in SUBSET Nat /\ H # {}
  BY TreeAssumption
<1>2. PICK h \in H : \A y \in H : h <= y
  <2> HIDE DEF H
  <2> QED
    BY <1>1, MinNat
<1> QED
  BY <1>2

LEMMA Highest ==
    ASSUME NEW S \in SUBSET Blocks, S # {}, NEW N \in Nat, \A x \in S : Height[x] <= N
    PROVE  \E b \in S : \A x \in S : Height[x] <= Height[b]
<1> DEFINE H == {N - Height[x] : x \in S}
<1>1. H \in SUBSET Nat /\ H # {}
  BY TreeAssumption
<1>2. PICK h \in H : \A y \in H : h <= y
  <2> HIDE DEF H
  <2> QED
    BY <1>1, MinNat
<1>3. PICK b \in S : h = N - Height[b]
  BY <1>2
<1>4. \A x \in S : N - Height[b] <= N - Height[x]
  BY <1>2, <1>3
<1> QED
  BY <1>4, TreeAssumption

\* Induction up the tree: a set with the first block and, with a block, its
\* successors has all blocks.
LEMMA UpTheTree ==
    ASSUME NEW S \in SUBSET Blocks, Genesis \in S,
           \A b \in Blocks \ {Genesis} : Parent[b] \in S => b \in S
    PROVE  S = Blocks
<1> SUFFICES ASSUME S # Blocks PROVE FALSE
  OBVIOUS
<1> DEFINE T == Blocks \ S
<1>1. PICK b \in T : \A x \in T : Height[b] <= Height[x]
  <2>1. T \in SUBSET Blocks /\ T # {}
    OBVIOUS
  <2> HIDE DEF T
  <2> QED
    BY <2>1, Lowest
<1>2. b \in Blocks \ {Genesis} /\ Parent[b] \in T
  BY <1>1, TreeAssumption
<1>3. Height[b] <= Height[Parent[b]]
  BY <1>1, <1>2
<1> QED
  BY <1>2, <1>3, TreeAssumption

\* Every block is its own ancestor and lies above the others.
LEMMA AncSelf ==
    \A b \in Blocks : /\ b \in Anc[b] /\ Genesis \in Anc[b] /\ Anc[b] \subseteq Blocks
                      /\ \A x \in Anc[b] : Height[x] <= Height[b]
<1> DEFINE S == {b \in Blocks : /\ b \in Anc[b] /\ Genesis \in Anc[b] /\ Anc[b] \subseteq Blocks
                                /\ \A x \in Anc[b] : Height[x] <= Height[b]}
<1>1. Genesis \in S
  BY TreeAssumption
<1>2. ASSUME NEW b \in Blocks \ {Genesis}, Parent[b] \in S PROVE b \in S
  <2>1. /\ Height[b] = Height[Parent[b]] + 1 /\ Anc[b] = Anc[Parent[b]] \cup {b}
        /\ Parent[b] \in Blocks /\ Height[Parent[b]] \in Nat /\ Height[b] \in Nat
    BY TreeAssumption
  <2>2. \A x \in Anc[b] : Height[x] <= Height[b]
    <3> SUFFICES ASSUME NEW x \in Anc[b] PROVE Height[x] <= Height[b]
      OBVIOUS
    <3>1. x = b \/ (x \in Anc[Parent[b]] /\ x \in Blocks /\ Height[x] <= Height[Parent[b]])
      BY <1>2, <2>1
    <3> QED
      BY <2>1, <3>1, TreeAssumption
  <2> QED
    BY <1>2, <2>1, <2>2
<1>3. S = Blocks
  <2>1. S \in SUBSET Blocks
    OBVIOUS
  <2> HIDE DEF S
  <2> QED
    BY <1>1, <1>2, <2>1, UpTheTree
<1> QED
  BY <1>3

\* Ancestors of ancestors are ancestors, two ancestors lie on one chain, and
\* there is one at every height.
LEMMA Ancestry ==
    \A b \in Blocks :
        /\ \A x \in Anc[b] : Anc[x] \subseteq Anc[b]
        /\ \A x, y \in Anc[b] : Height[x] <= Height[y] => x \in Anc[y]
        /\ \A h \in 0 .. Height[b] : \E x \in Anc[b] : Height[x] = h
<1> DEFINE S == {b \in Blocks :
                    /\ \A x \in Anc[b] : Anc[x] \subseteq Anc[b]
                    /\ \A x, y \in Anc[b] : Height[x] <= Height[y] => x \in Anc[y]
                    /\ \A h \in 0 .. Height[b] : \E x \in Anc[b] : Height[x] = h}
<1>1. Genesis \in S
  BY TreeAssumption
<1>2. ASSUME NEW b \in Blocks \ {Genesis}, Parent[b] \in S PROVE b \in S
  <2>1. /\ Height[b] = Height[Parent[b]] + 1 /\ Anc[b] = Anc[Parent[b]] \cup {b}
        /\ Parent[b] \in Blocks /\ Height[Parent[b]] \in Nat /\ Height[b] \in Nat
    BY TreeAssumption
  <2>2. \A x \in Anc[Parent[b]] : x \in Blocks /\ Height[x] \in Nat /\ Height[x] <= Height[Parent[b]]
    BY <2>1, AncSelf, TreeAssumption
  <2>3. \A x \in Anc[b] : Anc[x] \subseteq Anc[b]
    BY <1>2, <2>1
  <2>4. ASSUME NEW x \in Anc[b], NEW y \in Anc[b], Height[x] <= Height[y] PROVE x \in Anc[y]
    <3>1. CASE y = b
      BY <3>1
    <3>2. CASE y # b /\ x = b
      BY <2>1, <2>2, <2>4, <3>2
    <3>3. CASE y # b /\ x # b
      BY <1>2, <2>1, <2>4, <3>3
    <3> QED
      BY <3>1, <3>2, <3>3
  <2>5. ASSUME NEW h \in 0 .. Height[b] PROVE \E x \in Anc[b] : Height[x] = h
    <3>1. CASE h = Height[b]
      BY <2>1, <3>1
    <3>2. CASE h # Height[b]
      <4>1. h \in 0 .. Height[Parent[b]]
        BY <2>1, <3>2
      <4> QED
        BY <1>2, <2>1, <4>1
    <3> QED
      BY <3>1, <3>2
  <2> QED
    BY <2>3, <2>4, <2>5
<1>3. S = Blocks
  <2>1. S \in SUBSET Blocks
    OBVIOUS
  <2> HIDE DEF S
  <2> QED
    BY <1>1, <1>2, <2>1, UpTheTree
<1> QED
  BY <1>3

\* Two blocks of one chain that have the same height are the same block.
LEMMA SameHeightSame ==
    ASSUME NEW b \in Blocks, NEW x \in Anc[b], NEW y \in Anc[b], Height[x] = Height[y]
    PROVE  x = y
<1>1. /\ x \in Blocks /\ y \in Blocks /\ Height[x] \in Nat /\ Height[y] \in Nat
      /\ Height[x] <= Height[y] /\ Height[y] <= Height[x]
  BY TreeAssumption
<1>2. x \in Anc[y]
  BY <1>1, Ancestry
<1>3. CASE y = Genesis
  BY <1>2, <1>3, TreeAssumption
<1>4. CASE y # Genesis /\ y # x
  <2>1. x \in Anc[Parent[y]] /\ Parent[y] \in Blocks /\ Height[Parent[y]] \in Nat
        /\ Height[y] = Height[Parent[y]] + 1
    BY <1>1, <1>2, <1>4, TreeAssumption
  <2>2. Height[x] <= Height[Parent[y]]
    BY <2>1, AncSelf
  <2> QED
    BY <1>1, <2>1, <2>2
<1> QED
  BY <1>3, <1>4

\* A block is not among the ancestors of its predecessor.
LEMMA AboveParent ==
    ASSUME NEW b \in Blocks \ {Genesis}
    PROVE  b \notin Anc[Parent[b]]
BY AncSelf, TreeAssumption

LEMMA TreeShaped == TreeShape
BY AncSelf, Ancestry, SameHeightSame DEF TreeShape

\* Two blocks have a highest common ancestor: FindFork finds it.
LEMMA ForkExists ==
    \A a, b \in Blocks :
        \E f \in Anc[a] \cap Anc[b] : \A x \in Anc[a] \cap Anc[b] : Height[x] <= Height[f]
<1> SUFFICES ASSUME NEW a \in Blocks, NEW b \in Blocks
             PROVE  \E f \in Anc[a] \cap Anc[b] : \A x \in Anc[a] \cap Anc[b] : Height[x] <= Height[f]
  OBVIOUS
<1> DEFINE S == Anc[a] \cap Anc[b]
<1>1. S \in SUBSET Blocks /\ S # {} /\ Height[a] \in Nat /\ \A x \in S : Height[x] <= Height[a]
  BY AncSelf, TreeAssumption
<1> HIDE DEF S
<1>2. \E f \in S : \A x \in S : Height[x] <= Height[f]
  BY <1>1, Highest
<1> QED
  BY <1>2 DEF S
=============================================================================
