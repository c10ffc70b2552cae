------------------------ MODULE BlockProcessorProofs ------------------------
(***************************************************************************)
(* Machine-checked proofs about BlockProcessor, for every block tree,      *)
(* every placement of commitments, every DKG interval, mining window and   *)
(* number of active quorums.                                               *)
(***************************************************************************)
EXTENDS BlockProcessor, TLAPS

-----------------------------------------------------------------------------
(***************************************************************************)
(* The facts that rest on induction, over the heights of blocks and over   *)
(* the size of a finite set.  The proofs assume them as Groundwork up to   *)
(* the last part, which proves it from the libraries.                      *)
(***************************************************************************)
\* The ranks of n heights are 0 .. n-1, each taken once.
RanksExact(H) ==
    /\ Cardinality(H) \in Nat
    /\ \A h \in H : Rank(H, h) \in 0 .. Cardinality(H) - 1
    /\ \A g, h \in H : Rank(H, g) = Rank(H, h) => g = h
    /\ \A i \in 0 .. Cardinality(H) - 1 : \E h \in H : Rank(H, h) = i

\* A new largest height takes rank 0 and moves the others by one.
MovedUp(H, t) ==
    /\ Rank(H \cup {t}, t) = 0
    /\ \A h \in H : Rank(H \cup {t}, h) = Rank(H, h) + 1

Groundwork ==
    /\ TreeShape
    /\ \A n \in Nat : \A H \in SUBSET (1 .. n) : IsFiniteSet(H)
    /\ \A H \in SUBSET Int : IsFiniteSet(H) =>
          RanksExact(H) /\ \A t \in Int : (\A h \in H : h < t) => MovedUp(H, t)

LEMMA AncSelf ==
    ASSUME Groundwork
    PROVE  \A b \in Blocks : /\ b \in Anc[b] /\ Genesis \in Anc[b] /\ Anc[b] \subseteq Blocks
                             /\ \A x \in Anc[b] : Height[x] <= Height[b]
BY Zenon DEF Groundwork, TreeShape

LEMMA Ancestry ==
    ASSUME Groundwork
    PROVE  \A b \in Blocks : /\ \A x \in Anc[b] : Anc[x] \subseteq Anc[b]
                             /\ \A h \in 0 .. Height[b] : \E x \in Anc[b] : Height[x] = h
BY Zenon DEF Groundwork, TreeShape

\* Two blocks of one chain that have the same height are the same block.
LEMMA SameHeightSame ==
    ASSUME Groundwork, NEW b \in Blocks, NEW x \in Anc[b], NEW y \in Anc[b], Height[x] = Height[y]
    PROVE  x = y
BY Zenon DEF Groundwork, TreeShape

\* A block is not among the ancestors of its predecessor.
LEMMA AboveParent ==
    ASSUME Groundwork, NEW b \in Blocks \ {Genesis}
    PROVE  b \notin Anc[Parent[b]]
BY AncSelf, TreeAssumption

\* GetAncestor returns the block of that height on the chain of b.
LEMMA GetAncestorFinds ==
    ASSUME Groundwork, NEW b \in Blocks, NEW h \in 0 .. Height[b]
    PROVE  GetAncestor(b, h) \in Anc[b] /\ Height[GetAncestor(b, h)] = h
<1>1. \E a \in Anc[b] : Height[a] = h
  BY Ancestry, Zenon
<1> QED
  BY <1>1, Zenon DEF GetAncestor

LEMMA GetAncestorOf ==
    ASSUME Groundwork, NEW b \in Blocks, NEW a \in Anc[b]
    PROVE  GetAncestor(b, Height[a]) = a
<1>1. a \in Blocks /\ Height[a] \in 0 .. Height[b]
  BY AncSelf, TreeAssumption
<1>2. GetAncestor(b, Height[a]) \in Anc[b] /\ Height[GetAncestor(b, Height[a])] = Height[a]
  BY <1>1, GetAncestorFinds, Zenon
<1> QED
  BY <1>2, SameHeightSame, Zenon

\* On the chain of b and on that of one of its ancestors it finds the same.
LEMMA GetAncestorBelow ==
    ASSUME Groundwork, NEW b \in Blocks, NEW a \in Anc[b], NEW h \in 0 .. Height[a]
    PROVE  GetAncestor(b, h) = GetAncestor(a, h)
<1>1. a \in Blocks /\ Anc[a] \subseteq Anc[b]
  BY Ancestry, TreeAssumption, Zenon
<1>2. GetAncestor(a, h) \in Anc[a] /\ Height[GetAncestor(a, h)] = h
  BY <1>1, GetAncestorFinds, Zenon
<1> QED
  BY <1>1, <1>2, GetAncestorOf, Zenon

\* Every rank below the number of members is that of exactly one member.
LEMMA RankBijection ==
    ASSUME Groundwork, NEW H \in SUBSET Int, IsFiniteSet(H)
    PROVE  RanksExact(H)
BY Zenon DEF Groundwork

LEMMA RankAbove ==
    ASSUME Groundwork, NEW H \in SUBSET Int, IsFiniteSet(H), NEW t \in Int, \A h \in H : h < t
    PROVE  MovedUp(H, t)
BY Zenon DEF Groundwork

-----------------------------------------------------------------------------
(***************************************************************************)
(* The newest heights of a finite set.                                     *)
(***************************************************************************)
\* NewestFirst lists the members of rank below ActiveCount, in order of rank.
LEMMA NewestFirstType ==
    ASSUME Groundwork, NEW H \in SUBSET Int, IsFiniteSet(H)
    PROVE  \E n \in Nat :
              /\ n = IF Cardinality(H) < ActiveCount THEN Cardinality(H) ELSE ActiveCount
              /\ DOMAIN NewestFirst(H) = 1 .. n
              /\ \A i \in 1 .. n : NewestFirst(H)[i] \in H /\ Rank(H, NewestFirst(H)[i]) = i - 1
              /\ \A h \in H : Rank(H, h) < ActiveCount =>
                    Rank(H, h) + 1 \in 1 .. n /\ NewestFirst(H)[Rank(H, h) + 1] = h
<1> DEFINE n == IF Cardinality(H) < ActiveCount THEN Cardinality(H) ELSE ActiveCount
<1>1. /\ Cardinality(H) \in Nat /\ n \in Nat /\ n <= Cardinality(H)
      /\ \A h \in H : Rank(H, h) \in 0 .. Cardinality(H) - 1
      /\ \A g, h \in H : Rank(H, g) = Rank(H, h) => g = h
      /\ \A i \in 0 .. Cardinality(H) - 1 : \E h \in H : Rank(H, h) = i
  BY RankBijection, CommitmentAssumption DEF RanksExact
<1>2. NewestFirst(H) = [i \in 1 .. n |-> CHOOSE h \in H : Rank(H, h) = i - 1]
  BY Zenon DEF NewestFirst
<1>3. ASSUME NEW i \in 1 .. n
      PROVE  NewestFirst(H)[i] \in H /\ Rank(H, NewestFirst(H)[i]) = i - 1
  <2>1. i - 1 \in 0 .. Cardinality(H) - 1
    BY <1>1
  <2>2. \E h \in H : Rank(H, h) = i - 1
    BY <1>1, <2>1, Zenon
  <2> HIDE DEF n
  <2>3. NewestFirst(H)[i] = CHOOSE h \in H : Rank(H, h) = i - 1
    BY <1>2, Zenon
  <2> QED
    BY <2>2, <2>3, Zenon
<1>4. ASSUME NEW h \in H, Rank(H, h) < ActiveCount
      PROVE  Rank(H, h) + 1 \in 1 .. n /\ NewestFirst(H)[Rank(H, h) + 1] = h
  <2>1. Rank(H, h) + 1 \in 1 .. n /\ Rank(H, h) \in Int
    BY <1>1, <1>4, CommitmentAssumption
  <2> HIDE DEF n
  <2>2. /\ NewestFirst(H)[Rank(H, h) + 1] \in H
        /\ Rank(H, NewestFirst(H)[Rank(H, h) + 1]) = Rank(H, h)
    BY <1>3, <2>1
  <2> QED
    BY <1>1, <2>1, <2>2, Zenon
<1>5. DOMAIN NewestFirst(H) = 1 .. n
  <2> HIDE DEF n
  <2> QED
    BY <1>2, Zenon
<1> QED
  <2>1. n \in Nat /\ n = IF Cardinality(H) < ActiveCount THEN Cardinality(H) ELSE ActiveCount
    BY <1>1, Zenon
  <2> HIDE DEF n
  <2> QED
    BY <1>3, <1>4, <1>5, <2>1, Zenon

-----------------------------------------------------------------------------
(***************************************************************************)
(* The block that names the quorum of a height.                            *)
(***************************************************************************)
LEMMA IntervalStart ==
    ASSUME NEW h \in Nat, NEW n \in Nat \ {0}
    PROVE  h - (h % n) \in 0 .. h /\ (h - (h % n)) % n = 0
<1>1. h - (h % n) \in 0 .. h
  OBVIOUS
<1>2. h \div n \in Nat /\ h - (h % n) = (h \div n) * n
  OBVIOUS
<1>3. ASSUME NEW k \in Nat PROVE (k * n) % n = 0
  OBVIOUS
<1> QED
  BY <1>1, <1>2, <1>3, Zenon

LEMMA Start ==
    ASSUME NEW h \in Nat
    PROVE  h - (h % DkgInterval) \in 0 .. h /\ (h - (h % DkgInterval)) % DkgInterval = 0
<1>1. DkgInterval \in Nat \ {0}
  BY CommitmentAssumption, Zenon
<1> QED
  BY <1>1, IntervalStart, Zenon

LEMMA QuorumBlockHash ==
    ASSUME Groundwork, tip \in Blocks, NEW h \in Nat, GetQuorumBlockHash(h) # NoBlock
    PROVE  /\ h - (h % DkgInterval) <= Height[tip]
           /\ GetQuorumBlockHash(h) = GetAncestor(tip, h - (h % DkgInterval))
           /\ GetQuorumBlockHash(h) \in QuorumBlocks /\ GetQuorumBlockHash(h) \in Anc[tip]
           /\ Height[GetQuorumBlockHash(h)] = h - (h % DkgInterval)
<1> DEFINE start == h - (h % DkgInterval)
<1>1. start \in 0 .. h /\ start % DkgInterval = 0 /\ Height[tip] \in Nat
  BY Start, TreeAssumption, Zenon
<1> HIDE DEF start
<1>2. start <= Height[tip] /\ GetQuorumBlockHash(h) = GetAncestor(tip, start)
  BY <1>1 DEF GetQuorumBlockHash, start
<1>3. /\ start \in 0 .. Height[tip]
      /\ GetAncestor(tip, start) \in Anc[tip] /\ Height[GetAncestor(tip, start)] = start
  BY <1>1, <1>2, GetAncestorFinds
<1>4. GetAncestor(tip, start) \in QuorumBlocks
  BY <1>1, <1>3, AncSelf, Zenon DEF QuorumBlocks
<1> QED
  BY <1>1, <1>2, <1>3, <1>4, Zenon DEF start

\* For a block on the tip it is the first block of the interval on the block's
\* own chain, and unknown when that is the block itself.
LEMMA QuorumBlockOf ==
    ASSUME Groundwork, NEW b \in Blocks \ {Genesis}, Parent[b] = tip, tip \in Blocks
    PROVE  LET first == GetAncestor(b, Height[b] - (Height[b] % DkgInterval)) IN
           /\ first \in Blocks
           /\ GetQuorumBlockHash(Height[b]) = IF first = b THEN NoBlock ELSE first
<1> DEFINE h == Height[b]
           start == h - (h % DkgInterval)
<1>1. h \in Nat /\ Height[tip] \in Nat /\ h = Height[tip] + 1 /\ b \in Anc[b] /\ tip \in Anc[b]
  BY TreeAssumption, AncSelf, Zenon
<1>2. start \in 0 .. h
  BY <1>1, Start, Zenon
<1> HIDE DEF start
<1>3. GetAncestor(b, start) \in Anc[b] /\ Height[GetAncestor(b, start)] = start
      /\ GetAncestor(b, start) \in Blocks
  BY <1>2, GetAncestorFinds, AncSelf, Zenon
<1>4. CASE start > Height[tip]
  <2>1. start = Height[b]
    BY <1>1, <1>2, <1>4
  <2> QED
    BY <1>1, <1>3, <1>4, <2>1, GetAncestorOf, Zenon DEF GetQuorumBlockHash, start
<1>5. CASE ~(start > Height[tip])
  <2>1. start \in 0 .. Height[tip]
    BY <1>1, <1>2, <1>5
  <2>2. GetAncestor(b, start) = GetAncestor(tip, start) /\ GetAncestor(b, start) # b
    BY <1>1, <1>3, <2>1, GetAncestorBelow
  <2> QED
    BY <1>3, <1>5, <2>2, Zenon DEF GetQuorumBlockHash, start
<1> QED
  BY <1>4, <1>5, Zenon

-----------------------------------------------------------------------------
(***************************************************************************)
(* The inductive invariant.                                                *)
(***************************************************************************)
HasQc(a) == Qc[a] \in Commitments

EvoStates ==
    [mined : [QuorumBlocks -> Blocks \cup {NoBlock}],
     byHeight : [Heights -> Heights \cup {-1}], best : Blocks \cup {NoBlock}]

\* The commitments of the chain of x are valid and name a quorum below them.
Legal(x) ==
    \A a \in Anc[x] : HasQc(a) => Qc[a] \in ValidQc /\ QuorumHash[Qc[a]] \in Anc[a] \ {a}

\* e holds the commitments of the chain of x above height k, and nothing else.
\* A k above 0 is what a crash in the first flush leaves: the EvoDB starts
\* empty on a chain that has blocks.
Holds(e, x, k) ==
    /\ k \in 0 .. Height[x]
    /\ \A q \in QuorumBlocks : e.mined[q] # NoBlock =>
          /\ e.mined[q] \in Anc[x] /\ Height[e.mined[q]] > k
          /\ HasQc(e.mined[q]) /\ QuorumHash[Qc[e.mined[q]]] = q
    /\ \A a \in Anc[x] : HasQc(a) /\ Height[a] > k => e.mined[QuorumHash[Qc[a]]] = a
    /\ \A a \in Anc[x] :
          e.byHeight[Height[a]] =
              IF HasQc(a) /\ Height[a] > k THEN Height[QuorumHash[Qc[a]]] ELSE -1
    /\ \A h \in Heights : h > Height[x] => e.byHeight[h] = -1

\* An EvoDB is empty or holds the chain of its best block.
EvoOK(e) ==
    /\ e \in EvoStates
    /\ e.best = NoBlock => e = NothingMined
    /\ e.best # NoBlock =>
          /\ Legal(e.best)
          /\ \E k \in Nat : (CrashInFirstFlush \/ k = 0) /\ Holds(e, e.best, k)

ChainOK ==
    /\ tip \in Blocks /\ coinsTip \in Blocks /\ flushing \in BOOLEAN
    /\ Legal(tip) /\ Legal(coinsTip)
    /\ EvoOK(evo) /\ EvoOK(evoDisk)
    /\ flushing => coinsTip = tip
    /\ ~CrashInFirstFlush =>
          /\ evo.best = NoBlock => tip = Genesis
          /\ ~flushing /\ evoDisk.best = NoBlock => coinsTip = Genesis

\* What hasMinedCommitmentCache answers is what the EvoDB would.
CacheOK ==
    /\ hasMinedCache \in [QuorumBlocks -> {"unknown", "yes", "no"}]
    /\ \A q \in QuorumBlocks : /\ hasMinedCache[q] = "yes" => evo.mined[q] # NoBlock
                               /\ hasMinedCache[q] = "no" => evo.mined[q] = NoBlock

\* The cached hashes are those of commitments to the cached quorums.
RootOK ==
    /\ rootCache.quorums \in Seq(QuorumBlocks) /\ rootCache.hashes \in Seq(Commitments)
    /\ DOMAIN rootCache.hashes = DOMAIN rootCache.quorums
    /\ \A i \in DOMAIN rootCache.quorums :
          /\ QuorumHash[rootCache.hashes[i]] = rootCache.quorums[i]
          /\ \E a \in Blocks : rootCache.hashes[i] = Qc[a]

QuorumsOK == quorumsCache \in [QuorumBlocks -> Blocks \cup {NoBlock}]

\* The commitment to be mined for a quorum is a known one, to that quorum.
MinableOK ==
    /\ minable.known \subseteq Commitments
    /\ minable.byQuorum \in [QuorumBlocks -> minable.known \cup {NoQc}]
    /\ \A q \in QuorumBlocks : minable.byQuorum[q] # NoQc => QuorumHash[minable.byQuorum[q]] = q

BaseInv == ChainOK /\ CacheOK /\ RootOK /\ QuorumsOK /\ MinableOK

-----------------------------------------------------------------------------
(***************************************************************************)
(* What an EvoDB that holds a chain answers.                               *)
(***************************************************************************)
LEMMA HeightsOf ==
    ASSUME Groundwork
    PROVE  \A x \in Blocks : 0 .. Height[x] \subseteq Heights
BY Ancestry, TreeAssumption DEF Heights

LEMMA CommitmentsNamed ==
    ASSUME NEW a \in Blocks, HasQc(a)
    PROVE  QuorumHash[Qc[a]] \in QuorumBlocks /\ QuorumHash[Qc[a]] \in Blocks /\ a # Genesis
BY CommitmentAssumption, Zenon DEF HasQc, QuorumBlocks

\* The entry of a quorum is a block with a commitment to it.
LEMMA MinedNames ==
    ASSUME Groundwork, NEW e, EvoOK(e), NEW q \in QuorumBlocks, e.mined[q] # NoBlock
    PROVE  /\ e.best # NoBlock /\ e.mined[q] \in Blocks /\ e.mined[q] \in Anc[e.best]
           /\ HasQc(e.mined[q]) /\ QuorumHash[Qc[e.mined[q]]] = q
<1>1. e.best # NoBlock
  BY DEF EvoOK, NothingMined
<1>2. PICK k \in Nat : Holds(e, e.best, k)
  BY <1>1, Zenon DEF EvoOK
<1>3. e.best \in Blocks
  BY <1>1, Zenon DEF EvoOK, EvoStates
<1> QED
  BY <1>1, <1>2, <1>3, AncSelf, Zenon DEF Holds

\* The entry of a height is that of the block there, which has both entries.
LEMMA ByHeightNames ==
    ASSUME Groundwork, NEW x \in Blocks, NEW k \in Nat, NEW e, Holds(e, x, k), Legal(x),
           NEW h \in Heights, e.byHeight[h] >= 0
    PROVE  /\ h \in 0 .. Height[x] /\ h > k
           /\ LET a == GetAncestor(x, h) IN
              /\ a \in Anc[x] /\ Height[a] = h /\ HasQc(a)
              /\ QuorumHash[Qc[a]] \in Anc[a] /\ QuorumHash[Qc[a]] \in QuorumBlocks
              /\ e.byHeight[h] = Height[QuorumHash[Qc[a]]] /\ e.byHeight[h] \in 0 .. h
              /\ e.mined[QuorumHash[Qc[a]]] = a
<1> DEFINE a == GetAncestor(x, h)
<1>1. h \in Nat /\ Height[x] \in Nat
  BY TreeAssumption DEF Heights
<1>2. h \in 0 .. Height[x]
  <2>1. CASE h > Height[x]
    BY <2>1 DEF Holds
  <2> QED
    BY <1>1, <2>1
<1>3. a \in Anc[x] /\ Height[a] = h
  BY <1>2, GetAncestorFinds, Zenon
<1>4. a \in Blocks
  BY <1>3, AncSelf, Zenon
<1> HIDE DEF a
<1>5. /\ HasQc(a) /\ h > k /\ e.byHeight[h] = Height[QuorumHash[Qc[a]]]
      /\ e.mined[QuorumHash[Qc[a]]] = a
  BY <1>3 DEF Holds
<1>6. QuorumHash[Qc[a]] \in Anc[a] /\ QuorumHash[Qc[a]] \in QuorumBlocks
  BY <1>3, <1>4, <1>5, CommitmentsNamed, Zenon DEF Legal
<1>7. e.byHeight[h] \in 0 .. h
  BY <1>3, <1>4, <1>5, <1>6, AncSelf, TreeAssumption
<1> QED
  BY <1>2, <1>3, <1>5, <1>6, <1>7, Zenon DEF a

\* The empty EvoDB holds a chain above its last block.
LEMMA NothingMinedHolds ==
    ASSUME Groundwork
    PROVE  /\ NothingMined \in EvoStates /\ NothingMined.best = NoBlock
           /\ \A x \in Blocks : Holds(NothingMined, x, Height[x])
<1>1. NothingMined \in EvoStates /\ NothingMined.best = NoBlock
  BY Zenon DEF NothingMined, EvoStates
<1>2. ASSUME NEW x \in Blocks PROVE Holds(NothingMined, x, Height[x])
  <2>1. Height[x] \in Nat /\ \A a \in Anc[x] : a \in Blocks /\ Height[a] \in Nat /\ ~(Height[a] > Height[x])
    BY AncSelf, TreeAssumption
  <2>2. \A q \in QuorumBlocks : NothingMined.mined[q] = NoBlock
    BY Zenon DEF NothingMined
  <2>3. \A h \in Heights : NothingMined.byHeight[h] = -1
    BY Zenon DEF NothingMined
  <2>4. \A a \in Anc[x] : Height[a] \in Heights
    BY <2>1, Zenon DEF Heights
  <2> QED
    BY <2>1, <2>2, <2>3, <2>4 DEF Holds
<1> QED
  BY <1>1, <1>2, Zenon

-----------------------------------------------------------------------------
(***************************************************************************)
(* Connecting and disconnecting a block.                                   *)
(***************************************************************************)
\* The entries after ProcessCommitment for block b, which names quorum q.
With(e, b, q) ==
    IF HasQc(b)
    THEN [mined |-> [e.mined EXCEPT ![q] = b],
          byHeight |-> [e.byHeight EXCEPT ![Height[b]] = Height[q]], best |-> b]
    ELSE [e EXCEPT !.best = b]

LEMMA HoldsConnect ==
    ASSUME Groundwork, NEW e \in EvoStates, NEW b \in Blocks \ {Genesis}, NEW k \in Nat,
           Holds(e, Parent[b], k), NEW q,
           HasQc(b) => q = QuorumHash[Qc[b]] /\ e.mined[q] = NoBlock
    PROVE  With(e, b, q) \in EvoStates /\ With(e, b, q).best = b /\ Holds(With(e, b, q), b, k)
<1> DEFINE x == Parent[b]
           f == With(e, b, q)
<1>1. /\ x \in Blocks /\ Height[x] \in Nat /\ Height[b] = Height[x] + 1 /\ Height[b] \in Nat
      /\ Anc[b] = Anc[x] \cup {b} /\ b \notin Anc[x] /\ Height[b] \in Heights
      /\ \A a \in Anc[x] : a \in Blocks /\ Height[a] \in Nat /\ Height[a] <= Height[x] /\ Height[a] \in Heights
  BY TreeAssumption, AncSelf, AboveParent DEF Heights
<1>2. k \in 0 .. Height[x] /\ Height[b] > k /\ k \in 0 .. Height[b]
  BY <1>1 DEF Holds
<1>3. HasQc(b) => q \in QuorumBlocks /\ q \in Blocks /\ Height[q] \in Heights
  BY CommitmentsNamed, Zenon DEF Heights
<1>4. CASE HasQc(b)
  <2>1. f = [mined |-> [e.mined EXCEPT ![q] = b],
             byHeight |-> [e.byHeight EXCEPT ![Height[b]] = Height[q]], best |-> b]
    BY <1>4, Zenon DEF With
  <2> HIDE DEF f
  <2>2. f \in EvoStates /\ f.best = b
    BY <1>3, <1>4, <2>1, Zenon DEF EvoStates
  <2>3. /\ f.mined[q] = b /\ \A r \in QuorumBlocks : r # q => f.mined[r] = e.mined[r]
        /\ f.byHeight[Height[b]] = Height[q]
        /\ \A h \in Heights : h # Height[b] => f.byHeight[h] = e.byHeight[h]
    BY <1>1, <1>3, <1>4, <2>1, Zenon DEF EvoStates
  <2>4. \A a \in Anc[x] : HasQc(a) /\ Height[a] > k => QuorumHash[Qc[a]] # q
    BY <1>1, <1>4, CommitmentAssumption DEF Holds
  <2>5. ASSUME NEW r \in QuorumBlocks, f.mined[r] # NoBlock
        PROVE  /\ f.mined[r] \in Anc[b] /\ Height[f.mined[r]] > k
               /\ HasQc(f.mined[r]) /\ QuorumHash[Qc[f.mined[r]]] = r
    <3>1. CASE r = q
      BY <1>1, <1>2, <1>4, <2>3, <3>1, Zenon
    <3>2. CASE r # q
      BY <1>1, <2>3, <2>5, <3>2 DEF Holds
    <3> QED
      BY <3>1, <3>2, Zenon
  <2>6. ASSUME NEW a \in Anc[b], HasQc(a), Height[a] > k
        PROVE  f.mined[QuorumHash[Qc[a]]] = a
    <3>1. CASE a = b
      BY <1>4, <2>3, <3>1, Zenon
    <3>2. CASE a # b
      BY <1>1, <2>3, <2>4, <2>6, <3>2, CommitmentsNamed DEF Holds
    <3> QED
      BY <3>1, <3>2, Zenon
  <2>7. ASSUME NEW a \in Anc[b]
        PROVE  f.byHeight[Height[a]] =
                   IF HasQc(a) /\ Height[a] > k THEN Height[QuorumHash[Qc[a]]] ELSE -1
    <3>1. CASE a = b
      BY <1>2, <1>4, <2>3, <3>1, Zenon
    <3>2. CASE a # b
      <4>1. a \in Anc[x] /\ Height[a] \in Heights /\ Height[a] # Height[b]
        BY <1>1, <3>2
      <4> QED
        BY <2>3, <4>1 DEF Holds
    <3> QED
      BY <3>1, <3>2, Zenon
  <2>8. ASSUME NEW h \in Heights, h > Height[b] PROVE f.byHeight[h] = -1
    <3>1. h # Height[b] /\ h > Height[x]
      BY <1>1, <2>8, TreeAssumption DEF Heights
    <3> QED
      BY <2>3, <3>1 DEF Holds
  <2> QED
    BY <1>2, <2>2, <2>5, <2>6, <2>7, <2>8, Zenon DEF Holds, f
<1>5. CASE ~HasQc(b)
  <2>1. f = [e EXCEPT !.best = b]
    BY <1>5, Zenon DEF With
  <2> HIDE DEF f
  <2>2. f \in EvoStates /\ f.best = b /\ f.mined = e.mined /\ f.byHeight = e.byHeight
    BY <2>1, Zenon DEF EvoStates
  <2>3. e.byHeight[Height[b]] = -1
    BY <1>1 DEF Holds
  <2>4. \A h \in Heights : h > Height[b] => h > Height[x]
    BY <1>1, TreeAssumption DEF Heights
  <2> QED
    BY <1>1, <1>2, <1>5, <2>2, <2>3, <2>4 DEF Holds, f
<1> QED
  BY <1>4, <1>5, Zenon

\* The entries after UndoBlock for block x.
Without(e, x) ==
    LET f == [e EXCEPT !.best = Parent[x]] IN
    IF HasQc(x)
    THEN [f EXCEPT !.mined[QuorumHash[Qc[x]]] = NoBlock, !.byHeight[Height[x]] = -1]
    ELSE f

LEMMA HoldsDisconnect ==
    ASSUME Groundwork, NEW e \in EvoStates, NEW x \in Blocks \ {Genesis}, NEW k \in Nat,
           Holds(e, x, k)
    PROVE  /\ Without(e, x) \in EvoStates /\ Without(e, x).best = Parent[x]
           /\ \E j \in Nat : j <= k /\ Holds(Without(e, x), Parent[x], j)
<1> DEFINE p == Parent[x]
           q == QuorumHash[Qc[x]]
           f == Without(e, x)
           j == IF k <= Height[p] THEN k ELSE Height[p]
<1>1. /\ p \in Blocks /\ Height[p] \in Nat /\ Height[x] = Height[p] + 1
      /\ Anc[x] = Anc[p] \cup {x} /\ x \notin Anc[p] /\ Height[x] \in Heights
      /\ \A a \in Anc[p] : a \in Blocks /\ Height[a] \in Nat /\ Height[a] <= Height[p] /\ Height[a] \in Heights
  BY TreeAssumption, AncSelf, AboveParent DEF Heights
<1>2. HasQc(x) => q \in QuorumBlocks
  BY CommitmentsNamed, Zenon
<1>3. f \in EvoStates /\ f.best = p
  BY <1>1, <1>2, CommitmentAssumption, Zenon DEF EvoStates, Without
<1>4. /\ \A r \in QuorumBlocks : f.mined[r] = IF HasQc(x) /\ r = q THEN NoBlock ELSE e.mined[r]
      /\ \A h \in Heights : f.byHeight[h] = IF HasQc(x) /\ h = Height[x] THEN -1 ELSE e.byHeight[h]
  BY <1>1, <1>2, Zenon DEF EvoStates, Without
<1>5. /\ k \in 0 .. Height[x] /\ j \in 0 .. Height[p] /\ j <= k
      /\ \A a \in Anc[p] : Height[a] > j <=> Height[a] > k
  BY <1>1 DEF Holds
<1> HIDE DEF f, j
<1>6. ASSUME NEW r \in QuorumBlocks, f.mined[r] # NoBlock
      PROVE  /\ f.mined[r] \in Anc[p] /\ Height[f.mined[r]] > j
             /\ HasQc(f.mined[r]) /\ QuorumHash[Qc[f.mined[r]]] = r
  <2>1. f.mined[r] = e.mined[r] /\ ~(HasQc(x) /\ r = q)
    BY <1>4, <1>6, Zenon
  <2>2. /\ e.mined[r] \in Anc[x] /\ Height[e.mined[r]] > k
        /\ HasQc(e.mined[r]) /\ QuorumHash[Qc[e.mined[r]]] = r
    BY <1>6, <2>1, Zenon DEF Holds
  <2>3. e.mined[r] # x
    BY <2>1, <2>2, Zenon
  <2> QED
    BY <1>1, <1>5, <2>1, <2>2, <2>3, Zenon
<1>7. ASSUME NEW a \in Anc[p], HasQc(a), Height[a] > j PROVE f.mined[QuorumHash[Qc[a]]] = a
  <2>1. Height[a] > k /\ a \in Blocks /\ a # x /\ a \in Anc[x] /\ Height[x] > k
    BY <1>1, <1>5, <1>7
  <2>2. e.mined[QuorumHash[Qc[a]]] = a /\ QuorumHash[Qc[a]] \in QuorumBlocks
    BY <1>7, <2>1, CommitmentsNamed, Zenon DEF Holds
  <2>3. HasQc(x) => QuorumHash[Qc[a]] # q
    BY <1>1, <2>1, <2>2, Zenon DEF Holds
  <2> QED
    BY <1>4, <2>2, <2>3, Zenon
<1>8. ASSUME NEW a \in Anc[p]
      PROVE  f.byHeight[Height[a]] =
                 IF HasQc(a) /\ Height[a] > j THEN Height[QuorumHash[Qc[a]]] ELSE -1
  <2>1. Height[a] \in Heights /\ Height[a] # Height[x] /\ a \in Anc[x]
    BY <1>1
  <2>2. f.byHeight[Height[a]] = e.byHeight[Height[a]]
    BY <1>4, <2>1, Zenon
  <2> QED
    BY <1>5, <2>1, <2>2, Zenon DEF Holds
<1>9. ASSUME NEW h \in Heights, h > Height[p] PROVE f.byHeight[h] = -1
  <2>1. CASE h = Height[x]
    <3>1. ~HasQc(x) => e.byHeight[Height[x]] = -1
      BY <1>1, Zenon DEF Holds
    <3> QED
      BY <1>4, <2>1, <3>1, Zenon
  <2>2. CASE h # Height[x]
    <3>1. h > Height[x]
      BY <1>1, <1>9, <2>2, TreeAssumption DEF Heights
    <3> QED
      BY <1>4, <2>2, <3>1, Zenon DEF Holds
  <2> QED
    BY <2>1, <2>2, Zenon
<1>10. Holds(f, p, j)
  BY <1>5, <1>6, <1>7, <1>8, <1>9, Zenon DEF Holds
<1> QED
  BY <1>1, <1>3, <1>5, <1>10 DEF f

LEMMA LegalBelow ==
    ASSUME Groundwork, NEW x \in Blocks, Legal(x), NEW a \in Anc[x]
    PROVE  Legal(a)
BY Ancestry, Zenon DEF Legal

-----------------------------------------------------------------------------
(***************************************************************************)
(* The answers of HasMinedCommitment and what they decide.                 *)
(***************************************************************************)
LEMMA HasMined ==
    ASSUME CacheOK, NEW q \in QuorumBlocks
    PROVE  HasMinedCommitment(q) <=> evo.mined[q] # NoBlock
BY Zenon DEF CacheOK, HasMinedCommitment

LEMMA AskedOK ==
    ASSUME CacheOK, NEW q \in QuorumBlocks \cup {NoBlock}
    PROVE  /\ Asked(q) \in [QuorumBlocks -> {"unknown", "yes", "no"}]
           /\ \A r \in QuorumBlocks : /\ Asked(q)[r] = "yes" => evo.mined[r] # NoBlock
                                      /\ Asked(q)[r] = "no" => evo.mined[r] = NoBlock
<1>1. CASE q = NoBlock
  BY <1>1, Zenon DEF Asked, CacheOK
<1>2. CASE q # NoBlock
  <2>1. q \in QuorumBlocks /\ (HasMinedCommitment(q) <=> evo.mined[q] # NoBlock)
    BY <1>2, HasMined, Zenon
  <2>2. Asked(q) = [hasMinedCache EXCEPT ![q] = IF HasMinedCommitment(q) THEN "yes" ELSE "no"]
    BY <1>2, Zenon DEF Asked
  <2> QED
    BY <2>1, <2>2, Zenon DEF CacheOK
<1> QED
  BY <1>1, <1>2, Zenon

LEMMA QuorumOrNone ==
    ASSUME Groundwork, tip \in Blocks, NEW h \in Nat
    PROVE  GetQuorumBlockHash(h) \in QuorumBlocks \cup {NoBlock}
BY QuorumBlockHash, Zenon

\* What ProcessCommitment has checked when it writes the entries of block b.
LEMMA ProcessesChecks ==
    ASSUME Groundwork, tip \in Blocks, CacheOK, NEW b \in Blocks, Processes(b), HasQc(b)
    PROVE  LET q == GetQuorumBlockHash(Height[b]) IN
           /\ q \in QuorumBlocks /\ q \in Anc[tip] /\ q = QuorumHash[Qc[b]]
           /\ evo.mined[q] = NoBlock /\ Qc[b] \in ValidQc
<1>1. Height[b] \in Nat /\ Qc[b] # NoQc
  BY TreeAssumption, CommitmentAssumption, Zenon DEF HasQc
<1>2. GetQuorumBlockHash(Height[b]) # NoBlock
  BY <1>1, Zenon DEF Processes, IsCommitmentRequired
<1> QED
  BY <1>1, <1>2, QuorumBlockHash, HasMined, Zenon DEF Processes, HasQc

LEMMA EvoAfterWith ==
    ASSUME NEW b
    PROVE  EvoAfter(b) = With(evo, b, GetQuorumBlockHash(Height[b]))
BY Zenon DEF EvoAfter, With, HasQc

\* An EvoDB that VerifyBestBlock lets pass holds the chain of the tip.
LEMMA EvoHolds ==
    ASSUME Groundwork, ChainOK, VerifyBestBlock
    PROVE  \E k \in Nat : (CrashInFirstFlush \/ k = 0) /\ Holds(evo, tip, k)
<1>1. CASE evo.best = NoBlock
  <2>1. evo = NothingMined /\ tip \in Blocks /\ (CrashInFirstFlush \/ tip = Genesis)
    BY <1>1, Zenon DEF ChainOK, EvoOK
  <2>2. Holds(evo, tip, Height[tip]) /\ Height[tip] \in Nat /\ (tip = Genesis => Height[tip] = 0)
    BY <2>1, NothingMinedHolds, TreeAssumption, Zenon
  <2> QED
    BY <2>1, <2>2, Zenon
<1>2. CASE evo.best # NoBlock
  BY <1>2, Zenon DEF ChainOK, EvoOK, VerifyBestBlock
<1> QED
  BY <1>1, <1>2, Zenon

\* A block that passes ProcessBlock extends what the EvoDB holds.
LEMMA ConnectOK ==
    ASSUME Groundwork, ChainOK, CacheOK, VerifyBestBlock,
           NEW b \in Blocks \ {Genesis}, Parent[b] = tip,
           Processes(b)
    PROVE  EvoOK(EvoAfter(b)) /\ EvoAfter(b).best = b /\ Legal(b)
<1> DEFINE q == GetQuorumBlockHash(Height[b])
<1>1. PICK k \in Nat : (CrashInFirstFlush \/ k = 0) /\ Holds(evo, tip, k)
  BY EvoHolds, Zenon
<1>2. tip \in Blocks /\ evo \in EvoStates /\ Legal(tip)
  BY Zenon DEF ChainOK, EvoOK
<1>3. HasQc(b) => /\ q \in QuorumBlocks /\ q \in Anc[tip] /\ q = QuorumHash[Qc[b]]
                  /\ evo.mined[q] = NoBlock /\ Qc[b] \in ValidQc
  BY <1>2, ProcessesChecks, Zenon
<1>4. /\ EvoAfter(b) \in EvoStates /\ EvoAfter(b).best = b
      /\ Holds(EvoAfter(b), b, k)
  <2> HIDE DEF q
  <2>1. With(evo, b, q) \in EvoStates /\ With(evo, b, q).best = b /\ Holds(With(evo, b, q), b, k)
    BY <1>1, <1>2, <1>3, HoldsConnect, Zenon
  <2> QED
    BY <2>1, EvoAfterWith, Zenon DEF q
<1>5. Legal(b)
  <2>1. Anc[b] = Anc[tip] \cup {b} /\ b \notin Anc[tip]
    BY TreeAssumption, AboveParent, Zenon
  <2> QED
    BY <1>2, <1>3, <2>1, Zenon DEF Legal
<1> QED
  BY <1>1, <1>4, <1>5, CommitmentAssumption, Zenon DEF EvoOK

-----------------------------------------------------------------------------
(***************************************************************************)
(* The list of active quorums and its cache.                               *)
(***************************************************************************)
MinedHeights(e, x) == {h \in 1 .. Height[x] : e.byHeight[h] >= 0}

LEMMA MinedHeightsType ==
    ASSUME Groundwork, NEW e, NEW x \in Blocks
    PROVE  /\ MinedHeights(e, x) \in SUBSET Int /\ IsFiniteSet(MinedHeights(e, x))
           /\ MinedHeights(e, x) \subseteq 1 .. Height[x]
           /\ MinedHeights(e, x) \subseteq Heights
<1>1. Height[x] \in Nat /\ MinedHeights(e, x) \in SUBSET (1 .. Height[x])
  BY TreeAssumption, Zenon DEF MinedHeights
<1>3. IsFiniteSet(MinedHeights(e, x))
  BY <1>1, Zenon DEF Groundwork
<1>4. 1 .. Height[x] \subseteq Heights
  BY <1>1, HeightsOf
<1> QED
  BY <1>1, <1>3, <1>4

LEMMA MinedUntilIs ==
    ASSUME NEW e, NEW x
    PROVE  MinedUntil(e, x) =
              [i \in DOMAIN NewestFirst(MinedHeights(e, x)) |->
                  GetAncestor(x, e.byHeight[NewestFirst(MinedHeights(e, x))[i]])]
BY Zenon DEF MinedUntil, MinedHeights

LEMMA MinedUntilType ==
    ASSUME Groundwork, NEW e, EvoOK(e), NEW x \in Blocks
    PROVE  MinedUntil(e, x) \in Seq(QuorumBlocks)
<1> DEFINE H == MinedHeights(e, x)
           hs == NewestFirst(H)
<1>1. H \in SUBSET Int /\ IsFiniteSet(H) /\ H \subseteq 1 .. Height[x] /\ H \subseteq Heights
  BY MinedHeightsType, Zenon
<1>2. ASSUME NEW h \in H PROVE GetAncestor(x, e.byHeight[h]) \in QuorumBlocks
  <2>1. h \in Heights /\ e.byHeight[h] >= 0 /\ h \in 1 .. Height[x]
    BY <1>1, Zenon DEF MinedHeights
  <2>2. e.best # NoBlock
    BY <2>1 DEF EvoOK, NothingMined
  <2>3. e.best \in Blocks /\ Legal(e.best)
    BY <2>2, Zenon DEF EvoOK, EvoStates
  <2>4. PICK k \in Nat : Holds(e, e.best, k)
    BY <2>2, Zenon DEF EvoOK
  <2>5. PICK q \in QuorumBlocks : e.byHeight[h] = Height[q] /\ e.byHeight[h] \in 0 .. h
    BY <2>1, <2>3, <2>4, ByHeightNames
  <2>6. e.byHeight[h] \in 0 .. Height[x] /\ e.byHeight[h] % DkgInterval = 0
    BY <2>1, <2>5, TreeAssumption DEF QuorumBlocks
  <2>7. GetAncestor(x, e.byHeight[h]) \in Anc[x] /\ Height[GetAncestor(x, e.byHeight[h])] = e.byHeight[h]
    BY <2>6, GetAncestorFinds, Zenon
  <2> QED
    BY <2>6, <2>7, AncSelf, Zenon DEF QuorumBlocks
<1>3. PICK n \in Nat : DOMAIN hs = 1 .. n /\ \A i \in 1 .. n : hs[i] \in H
  <2> HIDE DEF H
  <2> QED
    BY <1>1, NewestFirstType, Zenon
<1>4. MinedUntil(e, x) = [i \in 1 .. n |-> GetAncestor(x, e.byHeight[hs[i]])]
  BY <1>3, MinedUntilIs, Zenon
<1>5. \A i \in 1 .. n : GetAncestor(x, e.byHeight[hs[i]]) \in QuorumBlocks
  BY <1>2, <1>3, Zenon
<1> HIDE DEF hs
<1> QED
  BY <1>4, <1>5

\* When e holds the chain of x, the list names blocks of that chain, newest
\* first, and GetMinedCommitment finds each one.
LEMMA MinedUntilFinds ==
    ASSUME Groundwork, NEW e, NEW x \in Blocks, NEW k \in Nat, Holds(e, x, k), Legal(x)
    PROVE  LET quorums == MinedUntil(e, x)
               hs == NewestFirst(MinedHeights(e, x)) IN
           /\ DOMAIN quorums = DOMAIN hs
           /\ \A i \in DOMAIN quorums :
                 LET a == GetAncestor(x, hs[i]) IN
                 /\ a \in Anc[x] /\ HasQc(a)
                 /\ quorums[i] = QuorumHash[Qc[a]] /\ e.mined[quorums[i]] = a
<1> DEFINE H == MinedHeights(e, x)
           hs == NewestFirst(H)
           quorums == MinedUntil(e, x)
<1>1. H \in SUBSET Int /\ IsFiniteSet(H) /\ H \subseteq 1 .. Height[x] /\ H \subseteq Heights
  BY MinedHeightsType, Zenon
<1>2. PICK n \in Nat : DOMAIN hs = 1 .. n /\ \A i \in 1 .. n : hs[i] \in H
  <2> HIDE DEF H
  <2> QED
    BY <1>1, NewestFirstType, Zenon
<1>3. quorums = [i \in 1 .. n |-> GetAncestor(x, e.byHeight[hs[i]])]
  BY <1>2, MinedUntilIs, Zenon
<1>4. ASSUME NEW i \in 1 .. n
      PROVE  LET a == GetAncestor(x, hs[i]) IN
             /\ a \in Anc[x] /\ HasQc(a)
             /\ quorums[i] = QuorumHash[Qc[a]] /\ e.mined[quorums[i]] = a
  <2> DEFINE h == hs[i]
             a == GetAncestor(x, h)
             q == QuorumHash[Qc[a]]
  <2>1. h \in Heights /\ e.byHeight[h] >= 0
    BY <1>1, <1>2, Zenon DEF MinedHeights
  <2>2. /\ a \in Anc[x] /\ HasQc(a) /\ q \in Anc[a] /\ q \in QuorumBlocks
        /\ e.byHeight[h] = Height[q] /\ e.mined[q] = a
    <3> HIDE DEF h
    <3> QED
      BY <2>1, ByHeightNames
  <2> HIDE DEF a, q
  <2>3. q \in Anc[x]
    BY <2>2, Ancestry, Zenon
  <2>4. quorums[i] = q
    BY <1>3, <2>2, <2>3, GetAncestorOf
  <2> QED
    BY <2>2, <2>4, Zenon DEF a, q
<1> QED
  <2> HIDE DEF hs, quorums
  <2>1. DOMAIN quorums = 1 .. n
    BY <1>3, Zenon
  <2> QED
    BY <1>2, <1>4, <2>1, Zenon DEF hs, quorums

\* A list of quorums that GetMinedCommitment all finds: what the two static
\* variables hold after the call.
LEMMA RootCacheOK ==
    ASSUME Groundwork, ChainOK, RootOK, NEW x \in Blocks,
           LET quorums == MinedUntil(evo, x) IN
           \/ quorums = rootCache.quorums
           \/ \A i \in DOMAIN quorums : evo.mined[quorums[i]] # NoBlock
    PROVE  LET r == RootCacheFor(evo, x) IN
           /\ r.quorums \in Seq(QuorumBlocks) /\ r.hashes \in Seq(Commitments)
           /\ DOMAIN r.hashes = DOMAIN r.quorums
           /\ \A i \in DOMAIN r.quorums :
                 /\ QuorumHash[r.hashes[i]] = r.quorums[i]
                 /\ \E a \in Blocks : r.hashes[i] = Qc[a]
<1> DEFINE quorums == MinedUntil(evo, x)
           hashes == [i \in DOMAIN quorums |-> Qc[evo.mined[quorums[i]]]]
<1>1. CASE quorums = rootCache.quorums
  BY <1>1, Zenon DEF RootCacheFor, RootOK
<1>2. CASE quorums # rootCache.quorums
  <2>1. quorums \in Seq(QuorumBlocks) /\ EvoOK(evo)
    BY MinedUntilType, Zenon DEF ChainOK
  <2>2. RootCacheFor(evo, x) = [quorums |-> quorums, hashes |-> hashes]
    BY <1>2, Zenon DEF RootCacheFor
  <2>3. \A i \in DOMAIN quorums : evo.mined[quorums[i]] # NoBlock
    BY <1>2, Zenon
  <2> HIDE DEF quorums
  <2>4. PICK n \in Nat : DOMAIN quorums = 1 .. n
    BY <2>1
  <2>5. ASSUME NEW i \in DOMAIN quorums
        PROVE  /\ Qc[evo.mined[quorums[i]]] \in Commitments /\ evo.mined[quorums[i]] \in Blocks
               /\ QuorumHash[Qc[evo.mined[quorums[i]]]] = quorums[i]
    <3>1. quorums[i] \in QuorumBlocks /\ evo.mined[quorums[i]] # NoBlock
      BY <2>1, <2>3, <2>5
    <3> QED
      BY <2>1, <3>1, MinedNames, Zenon DEF HasQc
  <2>6. hashes \in Seq(Commitments) /\ DOMAIN hashes = DOMAIN quorums
        /\ \A i \in DOMAIN quorums : hashes[i] = Qc[evo.mined[quorums[i]]]
    BY <2>4, <2>5
  <2> HIDE DEF hashes
  <2>7. \A i \in DOMAIN quorums : /\ QuorumHash[hashes[i]] = quorums[i]
                                  /\ \E a \in Blocks : hashes[i] = Qc[a]
    BY <2>5, <2>6, Zenon
  <2> QED
    BY <2>1, <2>2, <2>6, <2>7
<1> QED
  BY <1>1, <1>2, Zenon

\* The list up to the tip, and what is cached for it, does not see the block
\* that is being connected.
LEMMA RootCacheSame ==
    ASSUME Groundwork, ChainOK, CacheOK, VerifyBestBlock,
           NEW b \in Blocks \ {Genesis}, Parent[b] = tip,
           Processes(b)
    PROVE  /\ RootCacheFor(EvoAfter(b), tip) = RootCacheFor(evo, tip)
           /\ \A i \in DOMAIN MinedUntil(evo, tip) :
                 /\ evo.mined[MinedUntil(evo, tip)[i]] # NoBlock
                 /\ HasQc(b) => MinedUntil(evo, tip)[i] # QuorumHash[Qc[b]]
<1> DEFINE q == GetQuorumBlockHash(Height[b])
           e == EvoAfter(b)
           quorums == MinedUntil(evo, tip)
<1>1. PICK k \in Nat : (CrashInFirstFlush \/ k = 0) /\ Holds(evo, tip, k)
  BY EvoHolds, Zenon
<1>2. tip \in Blocks /\ evo \in EvoStates /\ Legal(tip) /\ EvoOK(evo)
  BY Zenon DEF ChainOK, EvoOK
<1>3. HasQc(b) => q \in QuorumBlocks /\ q = QuorumHash[Qc[b]] /\ evo.mined[q] = NoBlock
  BY <1>2, ProcessesChecks, Zenon
<1>4. Height[b] = Height[tip] + 1 /\ Height[tip] \in Nat /\ Height[b] \in Heights
  BY TreeAssumption, Zenon DEF Heights
<1>5. /\ \A h \in 1 .. Height[tip] : e.byHeight[h] = evo.byHeight[h]
      /\ \A r \in QuorumBlocks : e.mined[r] = evo.mined[r] \/ (HasQc(b) /\ r = q)
  <2>1. 1 .. Height[tip] \subseteq Heights
    BY <1>2, <1>4, HeightsOf
  <2>2. \A h \in 1 .. Height[tip] : h # Height[b]
    BY <1>4
  <2> QED
    BY <1>2, <1>3, <1>4, <2>1, <2>2, Zenon DEF EvoAfter, EvoStates, HasQc
<1> HIDE DEF e
<1>6. MinedHeights(e, tip) = MinedHeights(evo, tip)
  BY <1>5, Zenon DEF MinedHeights
<1>7. quorums \in Seq(QuorumBlocks)
  BY <1>2, MinedUntilType, Zenon
<1>8. \A i \in DOMAIN quorums : evo.mined[quorums[i]] # NoBlock
  <2>1. \A a \in Anc[tip] : a # NoBlock
    BY <1>2, AncSelf, CommitmentAssumption, Zenon
  <2> HIDE DEF quorums
  <2> QED
    BY <1>1, <1>2, <2>1, MinedUntilFinds DEF quorums
<1>9. MinedUntil(e, tip) = quorums
  <2> DEFINE hs == NewestFirst(MinedHeights(evo, tip))
  <2>1. \A i \in DOMAIN hs : hs[i] \in 1 .. Height[tip]
    BY <1>2, MinedHeightsType, NewestFirstType
  <2>2. MinedUntil(e, tip) = [i \in DOMAIN hs |-> GetAncestor(tip, e.byHeight[hs[i]])]
    BY <1>6, MinedUntilIs, Zenon
  <2>3. quorums = [i \in DOMAIN hs |-> GetAncestor(tip, evo.byHeight[hs[i]])]
    BY MinedUntilIs, Zenon
  <2> HIDE DEF hs, quorums
  <2>4. \A i \in DOMAIN hs : e.byHeight[hs[i]] = evo.byHeight[hs[i]]
    BY <1>5, <2>1, Zenon
  <2> QED
    BY <2>2, <2>3, <2>4, Zenon
<1> HIDE DEF quorums
<1>10. \A i \in DOMAIN quorums : quorums[i] \in QuorumBlocks
  BY <1>7
<1>11. \A i \in DOMAIN quorums : e.mined[quorums[i]] = evo.mined[quorums[i]]
  BY <1>3, <1>5, <1>8, <1>10, Zenon
<1>12. [i \in DOMAIN quorums |-> Qc[e.mined[quorums[i]]]]
         = [i \in DOMAIN quorums |-> Qc[evo.mined[quorums[i]]]]
  BY <1>11, Zenon
<1>13. RootCacheFor(e, tip) = RootCacheFor(evo, tip)
  BY <1>9, <1>12, Zenon DEF RootCacheFor, quorums
<1> QED
  BY <1>3, <1>8, <1>10, <1>13, Zenon DEF e, quorums

-----------------------------------------------------------------------------
(***************************************************************************)
(* The invariant is inductive.                                             *)
(***************************************************************************)
LEMMA LegalGenesis == Legal(Genesis)
BY TreeAssumption, CommitmentAssumption, Zenon DEF Legal, HasQc

LEMMA BaseInit ==
    ASSUME Groundwork
    PROVE  Init => BaseInv
<1> SUFFICES ASSUME Init PROVE BaseInv
  BY Zenon
<1>1. EvoOK(NothingMined) /\ NothingMined.best = NoBlock
  BY NothingMinedHolds, Zenon DEF EvoOK
<1>2. ChainOK
  BY <1>1, LegalGenesis, TreeAssumption, Zenon DEF Init, ChainOK
<1>3. CacheOK
  BY Zenon DEF Init, CacheOK, NothingAsked
<1>4. RootOK
  BY DEF Init, RootOK, NoRoot
<1>5. QuorumsOK
  BY Zenon DEF Init, QuorumsOK, NoQuorums
<1>6. MinableOK
  BY Zenon DEF Init, MinableOK, NothingMinable
<1> QED
  BY <1>2, <1>3, <1>4, <1>5, <1>6, Zenon DEF BaseInv

\* AddMinableCommitment keeps what is in place unless the new commitment is
\* the first or has more signers.
LEMMA AddedOK ==
    ASSUME MinableOK, NEW c \in Commitments
    PROVE  /\ Added(c).known \subseteq Commitments
           /\ Added(c).byQuorum \in [QuorumBlocks -> Added(c).known \cup {NoQc}]
           /\ \A q \in QuorumBlocks :
                 \/ Added(c).byQuorum[q] = minable.byQuorum[q]
                 \/ /\ Added(c).byQuorum[q] = c /\ QuorumHash[c] = q
                    /\ \/ minable.byQuorum[q] = NoQc
                       \/ CountSigners[c] > CountSigners[minable.byQuorum[q]]
<1>1. QuorumHash[c] \in QuorumBlocks
  BY CommitmentAssumption, Zenon
<1>2. CASE Added(c) = minable
  BY <1>2, Zenon DEF MinableOK
<1>3. CASE /\ Added(c) = [known |-> minable.known \cup {c},
                         byQuorum |-> [minable.byQuorum EXCEPT ![QuorumHash[c]] = c]]
           /\ LET old == minable.byQuorum[QuorumHash[c]] IN
              old = NoQc \/ CountSigners[c] > CountSigners[old]
  BY <1>1, <1>3 DEF MinableOK
<1> QED
  BY <1>2, <1>3, Zenon DEF Added

\* The cache after a block was connected, or was tried: with the commitment of
\* the block its answer is forgotten.
LEMMA CacheAfterOK ==
    ASSUME Groundwork, ChainOK, CacheOK, NEW b \in Blocks \ {Genesis}, Parent[b] = tip
    PROVE  LET q == GetQuorumBlockHash(Height[b]) IN
           /\ CacheAfter(b) \in [QuorumBlocks -> {"unknown", "yes", "no"}]
           /\ \A r \in QuorumBlocks : /\ CacheAfter(b)[r] = "yes" => evo.mined[r] # NoBlock
                                      /\ CacheAfter(b)[r] = "no" => evo.mined[r] = NoBlock
           /\ Processes(b) /\ HasQc(b) => CacheAfter(b)[q] = "unknown"
<1> DEFINE q == GetQuorumBlockHash(Height[b])
<1>1. tip \in Blocks /\ Height[b] \in Nat
  BY TreeAssumption, Zenon DEF ChainOK
<1>2. q \in QuorumBlocks \cup {NoBlock}
  BY <1>1, QuorumOrNone, Zenon
<1>3. /\ Asked(q) \in [QuorumBlocks -> {"unknown", "yes", "no"}]
      /\ \A r \in QuorumBlocks : /\ Asked(q)[r] = "yes" => evo.mined[r] # NoBlock
                                 /\ Asked(q)[r] = "no" => evo.mined[r] = NoBlock
  <2> HIDE DEF q
  <2> QED
    BY <1>2, AskedOK, Zenon
<1>4. Processes(b) /\ HasQc(b) => q \in QuorumBlocks
  BY <1>1, ProcessesChecks, Zenon
<1>5. CacheAfter(b) = IF Processes(b) /\ HasQc(b) THEN [Asked(q) EXCEPT ![q] = "unknown"]
                      ELSE Asked(q)
  BY Zenon DEF CacheAfter, HasQc
<1> HIDE DEF q
<1> QED
  BY <1>3, <1>4, <1>5, Zenon DEF q

LEMMA EvoAfterMined ==
    ASSUME ChainOK, NEW b, NEW r \in QuorumBlocks,
           EvoAfter(b).mined[r] # evo.mined[r]
    PROVE  HasQc(b) /\ r = GetQuorumBlockHash(Height[b])
BY Zenon DEF EvoAfter, HasQc, ChainOK, EvoOK, EvoStates

LEMMA ConnectTipOK ==
    ASSUME Groundwork, BaseInv, NEW b \in Blocks, ConnectTip(b)
    PROVE  BaseInv'
<1> USE DEF BaseInv
<1>1. b \in Blocks \ {Genesis} /\ Parent[b] = tip /\ VerifyBestBlock /\ tip \in Blocks
  BY Zenon DEF ConnectTip, ChainOK
<1>2. Accepts(b) => EvoOK(EvoAfter(b)) /\ EvoAfter(b).best = b /\ Legal(b) /\ b # NoBlock
  BY <1>1, ConnectOK, CommitmentAssumption, Zenon DEF Accepts
<1>3. ChainOK'
  <2>1. CASE Accepts(b)
    BY <1>1, <1>2, <2>1, Zenon DEF ConnectTip, ChainOK
  <2>2. CASE ~Accepts(b)
    BY <1>1, <2>2, Zenon DEF ConnectTip, ChainOK
  <2> QED
    BY <2>1, <2>2, Zenon
<1>4. CacheOK'
  <2>1. /\ hasMinedCache' = CacheAfter(b)
        /\ evo' = evo \/ (evo' = EvoAfter(b) /\ Processes(b))
    BY Zenon DEF ConnectTip, Accepts
  <2>2. \A r \in QuorumBlocks :
           evo'.mined[r] = evo.mined[r] \/ hasMinedCache'[r] = "unknown"
    BY <1>1, <2>1, EvoAfterMined, CacheAfterOK
  <2> QED
    BY <1>1, <2>1, <2>2, CacheAfterOK, Zenon DEF CacheOK
<1>5. RootOK'
  <2>1. CASE rootCache' = rootCache
    BY <2>1, Zenon DEF RootOK
  <2>2. CASE rootCache' # rootCache
    <3>1. Processes(b) /\ rootCache' = RootCacheFor(EvoAfter(b), tip)
      BY <1>1, <2>2, Zenon DEF ConnectTip, RootCacheAfter
    <3>2. /\ rootCache' = RootCacheFor(evo, tip)
          /\ \A i \in DOMAIN MinedUntil(evo, tip) : evo.mined[MinedUntil(evo, tip)[i]] # NoBlock
      BY <1>1, <3>1, RootCacheSame, Zenon
    <3> QED
      BY <1>1, <3>2, RootCacheOK DEF RootOK
  <2> QED
    BY <2>1, <2>2, Zenon
<1>6. QuorumsOK' /\ MinableOK'
  BY Zenon DEF ConnectTip, QuorumsOK, MinableOK
<1> QED
  BY <1>3, <1>4, <1>5, <1>6, Zenon

LEMMA TestBlockValidityOK ==
    ASSUME Groundwork, BaseInv, NEW b \in Blocks, TestBlockValidity(b)
    PROVE  BaseInv'
<1> USE DEF BaseInv
<1>1. b \in Blocks \ {Genesis} /\ Parent[b] = tip /\ VerifyBestBlock /\ tip \in Blocks
  BY Zenon DEF TestBlockValidity, ChainOK
<1>2. ChainOK' /\ evo' = evo
  BY Zenon DEF TestBlockValidity, ChainOK, chainVars
<1>3. CacheOK'
  BY <1>1, <1>2, CacheAfterOK, Zenon DEF TestBlockValidity, CacheOK
<1>4. RootOK'
  <2>1. CASE rootCache' = rootCache
    BY <2>1, Zenon DEF RootOK
  <2>2. CASE rootCache' # rootCache
    <3>1. Processes(b) /\ rootCache' = RootCacheFor(EvoAfter(b), tip)
      BY <2>2, Zenon DEF TestBlockValidity
    <3>2. /\ rootCache' = RootCacheFor(evo, tip)
          /\ \A i \in DOMAIN MinedUntil(evo, tip) : evo.mined[MinedUntil(evo, tip)[i]] # NoBlock
      BY <1>1, <3>1, RootCacheSame, Zenon
    <3> QED
      BY <1>1, <3>2, RootCacheOK DEF RootOK
  <2> QED
    BY <2>1, <2>2, Zenon
<1>5. QuorumsOK' /\ MinableOK'
  BY Zenon DEF TestBlockValidity, QuorumsOK, MinableOK
<1> QED
  BY <1>2, <1>3, <1>4, <1>5, Zenon

LEMMA DisconnectTipOK ==
    ASSUME Groundwork, BaseInv, DisconnectTip
    PROVE  BaseInv'
<1> USE DEF BaseInv
<1>1. tip \in Blocks \ {Genesis} /\ VerifyBestBlock /\ evo \in EvoStates /\ Legal(tip)
  BY Zenon DEF DisconnectTip, ChainOK, EvoOK
<1>2. PICK k \in Nat : (CrashInFirstFlush \/ k = 0) /\ Holds(evo, tip, k)
  BY <1>1, EvoHolds, Zenon
<1>3. evo' = Without(evo, tip) /\ tip' = Parent[tip] /\ Parent[tip] \in Blocks
  <2>1. tip' = Parent[tip] /\ Parent[tip] \in Blocks
    BY <1>1, TreeAssumption, Zenon DEF DisconnectTip
  <2>2. evo' = Without(evo, tip)
    BY Zenon DEF DisconnectTip, Without, HasQc
  <2> QED
    BY <2>1, <2>2, Zenon
<1>4. HasQc(tip) => QuorumHash[Qc[tip]] \in QuorumBlocks
  BY <1>1, CommitmentsNamed, Zenon
<1>5. EvoOK(Without(evo, tip)) /\ Without(evo, tip).best = Parent[tip] /\ Legal(Parent[tip])
  <2>1. PICK j \in Nat : j <= k /\ Holds(Without(evo, tip), Parent[tip], j)
    BY <1>1, <1>2, HoldsDisconnect, Zenon
  <2>2. Without(evo, tip) \in EvoStates /\ Without(evo, tip).best = Parent[tip]
    BY <1>1, <1>2, HoldsDisconnect, Zenon
  <2>3. Parent[tip] \in Anc[tip]
    BY <1>1, <1>3, AncSelf, TreeAssumption, Zenon
  <2>4. Legal(Parent[tip]) /\ Parent[tip] # NoBlock
    BY <1>1, <1>3, <2>3, LegalBelow, CommitmentAssumption, Zenon
  <2> QED
    BY <1>2, <2>1, <2>2, <2>4 DEF EvoOK
<1>6. ChainOK'
  BY <1>3, <1>5, CommitmentAssumption, Zenon DEF DisconnectTip, ChainOK
<1>7. CacheOK'
  <2>1. CASE HasQc(tip)
    <3>1. /\ hasMinedCache' = [hasMinedCache EXCEPT ![QuorumHash[Qc[tip]]] = "unknown"]
          /\ evo' = Without(evo, tip)
      BY <1>3, <2>1, Zenon DEF DisconnectTip, HasQc
    <3>2. \A r \in QuorumBlocks : r # QuorumHash[Qc[tip]] => evo'.mined[r] = evo.mined[r]
      BY <1>1, <1>4, <2>1, <3>1, Zenon DEF Without, EvoStates
    <3> QED
      BY <1>4, <2>1, <3>1, <3>2, Zenon DEF CacheOK
  <2>2. CASE ~HasQc(tip)
    <3>1. hasMinedCache' = hasMinedCache /\ evo'.mined = evo.mined
      BY <1>1, <1>3, <2>2, Zenon DEF DisconnectTip, HasQc, Without, EvoStates
    <3> QED
      BY <3>1, Zenon DEF CacheOK
  <2> QED
    BY <2>1, <2>2, Zenon
<1>8. MinableOK'
  <2>1. CASE HasQc(tip)
    <3>1. minable' = Added(Qc[tip]) /\ Qc[tip] \in Commitments
      BY <2>1, Zenon DEF DisconnectTip, HasQc
    <3> QED
      BY <3>1, AddedOK DEF MinableOK
  <2>2. CASE ~HasQc(tip)
    BY <2>2, Zenon DEF DisconnectTip, HasQc, MinableOK
  <2> QED
    BY <2>1, <2>2, Zenon
<1>9. RootOK' /\ QuorumsOK'
  BY Zenon DEF DisconnectTip, RootOK, QuorumsOK
<1> QED
  BY <1>6, <1>7, <1>8, <1>9, Zenon

LEMMA BaseNext ==
    ASSUME Groundwork
    PROVE  BaseInv /\ [Next]_vars => BaseInv'
<1> SUFFICES ASSUME BaseInv, [Next]_vars PROVE BaseInv'
  BY Zenon
<1>1. ASSUME NEW b \in Blocks, ConnectTip(b) PROVE BaseInv'
  BY <1>1, ConnectTipOK, Zenon
<1>2. ASSUME NEW b \in Blocks, TestBlockValidity(b) PROVE BaseInv'
  BY <1>2, TestBlockValidityOK, Zenon
<1>3. CASE DisconnectTip
  BY <1>3, DisconnectTipOK, Zenon
<1>4. CASE CreateNewBlock
  <2>1. ChainOK' /\ evo' = evo /\ QuorumsOK' /\ MinableOK'
    BY <1>4, Zenon DEF CreateNewBlock, chainVars, BaseInv, ChainOK, QuorumsOK, MinableOK
  <2>2. CacheOK'
    <3>1. tip \in Blocks /\ Height[tip] + 1 \in Nat
      BY TreeAssumption DEF BaseInv, ChainOK
    <3>2. GetQuorumBlockHash(Height[tip] + 1) \in QuorumBlocks \cup {NoBlock}
      BY <3>1, QuorumOrNone, Zenon
    <3> QED
      BY <1>4, <2>1, <3>2, AskedOK, Zenon DEF CreateNewBlock, BaseInv, CacheOK
  <2>3. RootOK'
    <3> DEFINE r == RootCacheFor(evo, tip)
    <3>1. ChainOK /\ RootOK /\ tip \in Blocks /\ rootCache' = r
      BY <1>4, Zenon DEF CreateNewBlock, BaseInv, ChainOK
    <3>2. /\ r.quorums \in Seq(QuorumBlocks) /\ r.hashes \in Seq(Commitments)
          /\ DOMAIN r.hashes = DOMAIN r.quorums
          /\ \A i \in DOMAIN r.quorums : /\ QuorumHash[r.hashes[i]] = r.quorums[i]
                                         /\ \E a \in Blocks : r.hashes[i] = Qc[a]
      BY <1>4, <3>1, RootCacheOK, Zenon DEF CreateNewBlock
    <3> HIDE DEF r
    <3> QED
      BY <3>1, <3>2, Zenon DEF RootOK
  <2> QED
    BY <2>1, <2>2, <2>3, Zenon DEF BaseInv
<1>5. CASE FlushCoins
  BY <1>5, Zenon DEF FlushCoins, BaseInv, ChainOK, CacheOK, RootOK, QuorumsOK, MinableOK
<1>6. CASE FlushEvo
  BY <1>6, Zenon DEF FlushEvo, BaseInv, ChainOK, CacheOK, RootOK, QuorumsOK, MinableOK
<1>7. CASE Crash
  <2>1. ChainOK'
    BY <1>7, Zenon DEF Crash, BaseInv, ChainOK
  <2>2. CacheOK'
    BY <1>7, Zenon DEF Crash, CacheOK, NothingAsked
  <2>3. RootOK'
    BY <1>7 DEF Crash, RootOK, NoRoot
  <2>4. QuorumsOK' /\ MinableOK'
    BY <1>7, Zenon DEF Crash, QuorumsOK, NoQuorums, MinableOK, NothingMinable
  <2> QED
    BY <2>1, <2>2, <2>3, <2>4, Zenon DEF BaseInv
<1>8. ASSUME NEW c \in Commitments, minable' \in {minable, Added(c)},
             UNCHANGED <<chainVars, hasMinedCache, rootCache, quorumsCache>>
      PROVE  BaseInv'
  <2>1. MinableOK'
    BY <1>8, AddedOK DEF BaseInv, MinableOK
  <2> QED
    BY <1>8, <2>1, Zenon DEF BaseInv, chainVars, ChainOK, CacheOK, RootOK, QuorumsOK
<1>9. ASSUME NEW c \in Commitments, ProcessMessage(c) PROVE BaseInv'
  BY <1>8, <1>9, Zenon DEF ProcessMessage
<1>10. ASSUME NEW c \in LocalQc, FinalizeCommitments(c) PROVE BaseInv'
  BY <1>8, <1>10, CommitmentAssumption, Zenon DEF FinalizeCommitments
<1>11. ASSUME NEW q \in QuorumBlocks, GetQuorum(q) PROVE BaseInv'
  <2>1. ChainOK' /\ evo' = evo /\ RootOK' /\ MinableOK'
    BY <1>11, Zenon DEF GetQuorum, chainVars, BaseInv, ChainOK, RootOK, MinableOK
  <2>2. CacheOK'
    BY <1>11, <2>1, AskedOK, Zenon DEF GetQuorum, BaseInv, CacheOK
  <2>3. QuorumsOK'
    <3>1. evo.mined[q] \in Blocks \cup {NoBlock}
      BY Zenon DEF BaseInv, ChainOK, EvoOK, EvoStates
    <3> QED
      BY <1>11, <3>1, Zenon DEF GetQuorum, BaseInv, QuorumsOK
  <2> QED
    BY <2>1, <2>2, <2>3, Zenon DEF BaseInv
<1>12. CASE UNCHANGED vars
  BY <1>12, Zenon DEF vars, chainVars, BaseInv, ChainOK, CacheOK, RootOK, QuorumsOK, MinableOK
<1> QED
  BY <1>1, <1>2, <1>3, <1>4, <1>5, <1>6, <1>7, <1>9, <1>10, <1>11, <1>12, Zenon DEF Next

LEMMA BaseAlways ==
    ASSUME Groundwork
    PROVE  Spec => []BaseInv
BY BaseInit, BaseNext, PTL DEF Spec

LEMMA TypesHold ==
    ASSUME Groundwork
    PROVE  Spec => []TypeOK
<1>1. BaseInv => TypeOK
  BY Zenon DEF BaseInv, ChainOK, EvoOK, EvoStates, CacheOK, RootOK, QuorumsOK, MinableOK, TypeOK
<1> QED
  BY <1>1, BaseAlways, PTL

-----------------------------------------------------------------------------
(***************************************************************************)
(* The EvoDB and the active chain.                                         *)
(***************************************************************************)
LEMMA AboveGenesis == \A b \in Blocks : b # Genesis => Height[b] > 0
BY TreeAssumption

\* With all commitments of the chain of x recorded, a quorum has an entry when
\* the chain has a commitment to it.
LEMMA HoldsAll ==
    ASSUME Groundwork, NEW e, NEW x \in Blocks, Holds(e, x, 0), NEW q \in QuorumBlocks
    PROVE  /\ \A a \in Anc[x] : HasQc(a) /\ QuorumHash[Qc[a]] = q => a = e.mined[q]
           /\ e.mined[q] # NoBlock =>
                 e.mined[q] \in Anc[x] /\ HasQc(e.mined[q]) /\ QuorumHash[Qc[e.mined[q]]] = q
           /\ e.mined[q] = NoBlock => ~\E a \in Anc[x] : HasQc(a) /\ QuorumHash[Qc[a]] = q
<1>1. \A a \in Anc[x] : HasQc(a) => a \in Blocks /\ Height[a] > 0
  BY AncSelf, AboveGenesis, CommitmentsNamed, Zenon
<1>2. \A a \in Anc[x] : HasQc(a) /\ QuorumHash[Qc[a]] = q => a = e.mined[q]
  BY <1>1, Zenon DEF Holds
<1>3. \A a \in Anc[x] : a # NoBlock
  BY AncSelf, CommitmentAssumption, Zenon
<1> QED
  BY <1>2, <1>3, Zenon DEF Holds

LEMMA EvoFollowsChain ==
    ASSUME Groundwork, ~CrashInFirstFlush
    PROVE  Spec => []EvoMatchesChain
<1>1. BaseInv => EvoMatchesChain
  <2> SUFFICES ASSUME BaseInv, evo.best = tip PROVE EvoMatchesChain
    BY Zenon DEF EvoMatchesChain
  <2>1. tip \in Blocks /\ tip # NoBlock /\ Holds(evo, tip, 0)
    <3>1. tip \in Blocks /\ tip # NoBlock
      BY CommitmentAssumption, Zenon DEF BaseInv, ChainOK
    <3> QED
      BY <3>1, Zenon DEF BaseInv, ChainOK, EvoOK
  <2>2. ASSUME NEW q \in QuorumBlocks
        PROVE  LET in == {a \in Anc[tip] : Qc[a] \in Commitments /\ QuorumHash[Qc[a]] = q} IN
               IF in = {} THEN evo.mined[q] = NoBlock ELSE in = {evo.mined[q]}
    <3> DEFINE in == {a \in Anc[tip] : Qc[a] \in Commitments /\ QuorumHash[Qc[a]] = q}
    <3>1. \A a \in in : a = evo.mined[q]
      BY <2>1, HoldsAll DEF HasQc
    <3>2. evo.mined[q] # NoBlock => evo.mined[q] \in in
      BY <2>1, HoldsAll DEF HasQc
    <3> QED
      BY <3>1, <3>2, Zenon
  <2>3. ASSUME NEW h \in Heights
        PROVE  evo.byHeight[h] = IF h <= Height[tip] /\ Qc[GetAncestor(tip, h)] \in Commitments
                                 THEN Height[QuorumHash[Qc[GetAncestor(tip, h)]]] ELSE -1
    <3>1. h \in Nat /\ Height[tip] \in Nat
      BY <2>1, TreeAssumption DEF Heights
    <3>2. CASE h <= Height[tip]
      <4> DEFINE a == GetAncestor(tip, h)
      <4>1. a \in Anc[tip] /\ Height[a] = h
        BY <2>1, <3>1, <3>2, GetAncestorFinds
      <4> HIDE DEF a
      <4>2. HasQc(a) => Height[a] > 0
        BY <2>1, <4>1, AncSelf, AboveGenesis, CommitmentsNamed, Zenon
      <4>3. evo.byHeight[h] = IF HasQc(a) THEN Height[QuorumHash[Qc[a]]] ELSE -1
        BY <2>1, <4>1, <4>2, Zenon DEF Holds
      <4> QED
        BY <3>2, <4>3, Zenon DEF HasQc, a
    <3>3. CASE ~(h <= Height[tip])
      BY <2>1, <3>1, <3>3 DEF Holds
    <3> QED
      BY <3>2, <3>3, Zenon
  <2> QED
    BY <2>2, <2>3, Zenon DEF EvoMatchesChain
<1> QED
  BY <1>1, BaseAlways, PTL

-----------------------------------------------------------------------------
(***************************************************************************)
(* Commitments that can be mined.                                          *)
(***************************************************************************)
LEMMA CommitmentsImprove ==
    ASSUME Groundwork
    PROVE  Spec => MinableImproves
<1> DEFINE Improves(q) ==
        minable.byQuorum[q] # NoQc /\ minable.byQuorum'[q] # minable.byQuorum[q] =>
            \/ minable'.known = {}
            \/ /\ minable.byQuorum'[q] # NoQc
               /\ CountSigners[minable.byQuorum'[q]] > CountSigners[minable.byQuorum[q]]
<1>1. BaseInv /\ [Next]_vars => \A q \in QuorumBlocks : Improves(q)
  <2> SUFFICES ASSUME BaseInv, [Next]_vars, NEW q \in QuorumBlocks PROVE Improves(q)
    BY Zenon
  <2>1. ASSUME NEW c \in Commitments, minable' = Added(c) PROVE Improves(q)
    <3>1. c # NoQc
      BY CommitmentAssumption, Zenon
    <3> QED
      BY <2>1, <3>1, AddedOK DEF BaseInv
  <2>2. CASE minable' = minable
    BY <2>2, Zenon
  <2>3. CASE Crash
    BY <2>3, Zenon DEF Crash, NothingMinable
  <2>4. Crash \/ minable' = minable \/ \E c \in Commitments : minable' = Added(c)
    BY CommitmentAssumption, Zenon
       DEF Next, ConnectTip, TestBlockValidity, DisconnectTip, CreateNewBlock, FlushCoins,
           FlushEvo, ProcessMessage, FinalizeCommitments, GetQuorum, vars
  <2> HIDE DEF Improves
  <2> QED
    BY <2>1, <2>2, <2>3, <2>4, Zenon
<1>2. BaseInv /\ [Next]_vars =>
         [\A q \in QuorumBlocks :
             LET old == minable.byQuorum[q]
                 new == minable.byQuorum'[q] IN
             old # NoQc /\ new # old =>
                 \/ minable'.known = {}
                 \/ new # NoQc /\ CountSigners[new] > CountSigners[old]]_vars
  BY <1>1, Zenon
<1> QED
  BY <1>2, BaseAlways, PTL DEF Spec, MinableImproves

MinableValid ==
    \A q \in QuorumBlocks : minable.byQuorum[q] # NoQc => minable.byQuorum[q] \in ValidQc

LEMMA TemplatesPass ==
    ASSUME Groundwork, LocalQc \subseteq ValidQc
    PROVE  Spec => []TemplateAcceptable
<1>1. Init => MinableValid
  BY DEF Init, NothingMinable, MinableValid
<1>2. BaseInv /\ MinableValid /\ [Next]_vars => MinableValid'
  <2> SUFFICES ASSUME BaseInv, MinableValid, [Next]_vars PROVE MinableValid'
    BY Zenon
  <2>1. ASSUME NEW c \in Commitments, c \in ValidQc, minable' = Added(c) PROVE MinableValid'
    BY <2>1, AddedOK DEF BaseInv, MinableValid
  <2>2. CASE minable' = minable
    BY <2>2, Zenon DEF MinableValid
  <2>3. CASE Crash
    BY <2>3, Zenon DEF Crash, NothingMinable, MinableValid
  <2>4. CASE DisconnectTip
    <3>1. HasQc(tip) => Qc[tip] \in ValidQc
      BY AncSelf, Zenon DEF BaseInv, ChainOK, Legal
    <3> QED
      BY <2>1, <2>2, <2>4, <3>1, Zenon DEF DisconnectTip, HasQc
  <2>5. ASSUME NEW c \in Commitments, ProcessMessage(c) PROVE MinableValid'
    BY <2>1, <2>2, <2>5, Zenon DEF ProcessMessage
  <2>6. ASSUME NEW c \in LocalQc, FinalizeCommitments(c) PROVE MinableValid'
    BY <2>1, <2>6, CommitmentAssumption, Zenon DEF FinalizeCommitments
  <2>7. minable' = minable \/ Crash \/ DisconnectTip
        \/ (\E c \in Commitments : ProcessMessage(c)) \/ (\E c \in LocalQc : FinalizeCommitments(c))
    BY Zenon DEF Next, ConnectTip, TestBlockValidity, CreateNewBlock, FlushCoins, FlushEvo,
                 GetQuorum, vars
  <2> QED
    BY <2>2, <2>3, <2>4, <2>5, <2>6, <2>7, Zenon
<1>3. BaseInv /\ MinableValid => TemplateAcceptable
  <2> SUFFICES ASSUME BaseInv, MinableValid PROVE TemplateAcceptable
    BY Zenon
  <2> DEFINE h == Height[tip] + 1
             q == GetQuorumBlockHash(h)
             c == GetMinableCommitment(h)
  <2>1. tip \in Blocks /\ h \in Nat
    BY TreeAssumption DEF BaseInv, ChainOK
  <2>2. IsCommitmentRequired(h) => q \in QuorumBlocks
    BY <2>1, QuorumBlockHash, Zenon DEF IsCommitmentRequired
  <2>3. c = IF ~IsCommitmentRequired(h) THEN NoQc
            ELSE IF minable.byQuorum[q] = NoQc THEN NullQc ELSE minable.byQuorum[q]
    BY Zenon DEF GetMinableCommitment
  <2>4. NoQc # NullQc /\ NoQc \notin Commitments /\ NullQc \notin Commitments
    BY CommitmentAssumption, Zenon
  <2> HIDE DEF h, q, c
  <2>5. c # NoQc <=> IsCommitmentRequired(h)
    BY <2>3, <2>4, Zenon
  <2>6. c \in Commitments => c \in minable.known /\ c \in ValidQc /\ QuorumHash[c] = q
    BY <2>2, <2>3, <2>4, Zenon DEF BaseInv, MinableOK, MinableValid
  <2> QED
    BY <2>5, <2>6, Zenon DEF TemplateAcceptable, h, q, c
<1> QED
  BY <1>1, <1>2, <1>3, BaseAlways, PTL DEF Spec

-----------------------------------------------------------------------------
(***************************************************************************)
(* Acceptance is decided by the chain.                                     *)
(***************************************************************************)
\* The blocks below hashAssumeValid, whose quorum root is not calculated: it is
\* right, and no other block has another commitment to the same quorum.
AssumedValidOK ==
    \A b \in AssumedValid \cap Blocks :
        /\ b \notin BadRoot
        /\ HasQc(b) => \A a \in Blocks : HasQc(a) /\ QuorumHash[Qc[a]] = QuorumHash[Qc[b]] => Qc[a] = Qc[b]

\* A cached hash is never that of another commitment than the one on the chain.
RootFresh ==
    \A i \in DOMAIN rootCache.quorums :
        evo.mined[rootCache.quorums[i]] # NoBlock =>
            rootCache.hashes[i] = Qc[evo.mined[rootCache.quorums[i]]]

LEMMA RootCacheFresh ==
    ASSUME RootFresh, NEW x
    PROVE  LET r == RootCacheFor(evo, x) IN
           /\ r.quorums = MinedUntil(evo, x)
           /\ \A i \in DOMAIN r.quorums :
                 evo.mined[r.quorums[i]] # NoBlock => r.hashes[i] = Qc[evo.mined[r.quorums[i]]]
<1> DEFINE quorums == MinedUntil(evo, x)
           hashes == [i \in DOMAIN quorums |-> Qc[evo.mined[quorums[i]]]]
<1>1. CASE quorums = rootCache.quorums
  BY <1>1, Zenon DEF RootCacheFor, RootFresh
<1>2. CASE quorums # rootCache.quorums
  <2>1. RootCacheFor(evo, x) = [quorums |-> quorums, hashes |-> hashes]
    BY <1>2, Zenon DEF RootCacheFor
  <2> HIDE DEF quorums
  <2>2. \A i \in DOMAIN quorums : hashes[i] = Qc[evo.mined[quorums[i]]]
    BY Zenon
  <2> HIDE DEF hashes
  <2> QED
    BY <2>1, <2>2 DEF quorums
<1> QED
  BY <1>1, <1>2, Zenon

LEMMA RootFreshConnect ==
    ASSUME Groundwork, BaseInv, RootFresh, AssumedValidOK, NEW b \in Blocks, ConnectTip(b)
    PROVE  RootFresh'
<1> DEFINE q == GetQuorumBlockHash(Height[b])
<1>1. b \in Blocks \ {Genesis} /\ Parent[b] = tip /\ VerifyBestBlock /\ tip \in Blocks
  BY Zenon DEF ConnectTip, BaseInv, ChainOK
<1>2. \A r \in QuorumBlocks : evo'.mined[r] # evo.mined[r] =>
         Accepts(b) /\ Processes(b) /\ HasQc(b) /\ r = q /\ evo' = EvoAfter(b)
  BY EvoAfterMined, Zenon DEF ConnectTip, Accepts, BaseInv
<1>3. Processes(b) /\ HasQc(b) =>
         q \in QuorumBlocks /\ q = QuorumHash[Qc[b]] /\ EvoAfter(b).mined[q] = b
  <2> SUFFICES ASSUME Processes(b), HasQc(b)
               PROVE  q \in QuorumBlocks /\ q = QuorumHash[Qc[b]] /\ EvoAfter(b).mined[q] = b
    BY Zenon
  <2>1. q \in QuorumBlocks /\ q = QuorumHash[Qc[b]]
    BY <1>1, ProcessesChecks, Zenon DEF BaseInv
  <2> QED
    BY <2>1, Zenon DEF EvoAfter, HasQc, BaseInv, ChainOK, EvoOK, EvoStates
<1> HIDE DEF q
<1>4. CASE rootCache' = rootCache /\ ~(Processes(b) /\ b \notin BadMnList \cup AssumedValid)
  <2> SUFFICES ASSUME NEW i \in DOMAIN rootCache.quorums,
                      evo'.mined[rootCache.quorums[i]] # NoBlock
               PROVE  rootCache.hashes[i] = Qc[evo'.mined[rootCache.quorums[i]]]
    BY <1>4, Zenon DEF RootFresh
  <2> DEFINE r == rootCache.quorums[i]
  <2>1. /\ r \in QuorumBlocks /\ rootCache.hashes[i] \in Commitments
        /\ QuorumHash[rootCache.hashes[i]] = r
        /\ \E a \in Blocks : rootCache.hashes[i] = Qc[a]
    BY DEF BaseInv, RootOK
  <2>2. CASE evo'.mined[r] = evo.mined[r]
    BY <2>2, Zenon DEF RootFresh
  <2>3. CASE evo'.mined[r] # evo.mined[r]
    <3>1. Accepts(b) /\ Processes(b) /\ HasQc(b) /\ r = q /\ evo' = EvoAfter(b)
      BY <1>2, <2>1, <2>3, Zenon
    <3>2. evo'.mined[r] = b /\ QuorumHash[Qc[b]] = r
      BY <1>3, <3>1, Zenon
    <3>3. b \in AssumedValid
      BY <1>4, <3>1, Zenon DEF Accepts
    <3> QED
      BY <2>1, <3>1, <3>2, <3>3 DEF AssumedValidOK, HasQc
  <2> QED
    BY <2>2, <2>3, Zenon
<1>5. CASE Processes(b) /\ b \notin BadMnList \cup AssumedValid
  <2>1. rootCache' = RootCacheFor(evo, tip)
    BY <1>1, <1>5, RootCacheSame, Zenon DEF ConnectTip, RootCacheAfter, BaseInv
  <2>2. rootCache'.quorums = MinedUntil(evo, tip)
    BY <2>1, RootCacheFresh, Zenon
  <2>3. ASSUME NEW i \in DOMAIN rootCache'.quorums
        PROVE  /\ rootCache'.hashes[i] = Qc[evo.mined[rootCache'.quorums[i]]]
               /\ evo'.mined[rootCache'.quorums[i]] = evo.mined[rootCache'.quorums[i]]
    <3>1. /\ evo.mined[rootCache'.quorums[i]] # NoBlock
          /\ HasQc(b) => rootCache'.quorums[i] # QuorumHash[Qc[b]]
      BY <1>1, <1>5, <2>2, <2>3, RootCacheSame, Zenon DEF BaseInv
    <3>2. rootCache'.quorums[i] \in QuorumBlocks
      BY <1>1, <2>2, MinedUntilType DEF BaseInv, ChainOK
    <3> QED
      BY <1>2, <1>3, <2>1, <3>1, <3>2, RootCacheFresh, Zenon
  <2> QED
    BY <2>3, Zenon DEF RootFresh
<1> QED
  BY <1>4, <1>5, Zenon DEF ConnectTip, RootCacheAfter

LEMMA RootFreshNext ==
    ASSUME Groundwork
    PROVE  BaseInv /\ RootFresh /\ AssumedValidOK /\ [Next]_vars => RootFresh'
<1> SUFFICES ASSUME BaseInv, RootFresh, AssumedValidOK, [Next]_vars PROVE RootFresh'
  BY Zenon
<1>1. ASSUME NEW b \in Blocks, ConnectTip(b) PROVE RootFresh'
  BY <1>1, RootFreshConnect, Zenon
<1>2. ASSUME NEW b \in Blocks, TestBlockValidity(b) PROVE RootFresh'
  <2>1. evo' = evo /\ b \in Blocks \ {Genesis} /\ Parent[b] = tip /\ VerifyBestBlock
    BY <1>2, Zenon DEF TestBlockValidity, chainVars
  <2>2. CASE rootCache' = rootCache
    BY <2>1, <2>2, Zenon DEF RootFresh
  <2>3. CASE rootCache' # rootCache
    <3>1. Processes(b) /\ rootCache' = RootCacheFor(EvoAfter(b), tip)
      BY <1>2, <2>3, Zenon DEF TestBlockValidity
    <3>2. rootCache' = RootCacheFor(evo, tip)
      BY <2>1, <3>1, RootCacheSame, Zenon DEF BaseInv
    <3> QED
      BY <2>1, <3>2, RootCacheFresh, ZenonT(30) DEF RootFresh
  <2> QED
    BY <2>2, <2>3, Zenon
<1>3. CASE DisconnectTip
  <2>1. rootCache' = rootCache
    BY <1>3, Zenon DEF DisconnectTip
  <2>2. \A r \in QuorumBlocks : evo'.mined[r] # NoBlock => evo'.mined[r] = evo.mined[r]
    <3>1. evo \in EvoStates /\ (HasQc(tip) => QuorumHash[Qc[tip]] \in QuorumBlocks)
      BY CommitmentsNamed, Zenon DEF BaseInv, ChainOK, EvoOK
    <3>2. evo' = Without(evo, tip)
      BY <1>3, Zenon DEF DisconnectTip, Without, HasQc
    <3>3. CASE HasQc(tip)
      BY <3>1, <3>2, <3>3, Zenon DEF Without, EvoStates
    <3>4. CASE ~HasQc(tip)
      BY <3>1, <3>2, <3>4, Zenon DEF Without, EvoStates
    <3> QED
      BY <3>3, <3>4, Zenon
  <2>3. \A i \in DOMAIN rootCache.quorums : rootCache.quorums[i] \in QuorumBlocks
    BY DEF BaseInv, RootOK
  <2> QED
    BY <2>1, <2>2, <2>3, Zenon DEF RootFresh
<1>4. CASE CreateNewBlock
  BY <1>4, RootCacheFresh, Zenon DEF CreateNewBlock, chainVars, RootFresh
<1>5. CASE Crash
  BY <1>5 DEF Crash, NoRoot, RootFresh
<1>6. CASE UNCHANGED <<evo, rootCache>>
  BY <1>6, Zenon DEF RootFresh
<1>7. \/ UNCHANGED <<evo, rootCache>> \/ Crash \/ DisconnectTip \/ CreateNewBlock
      \/ \E b \in Blocks : ConnectTip(b) \/ TestBlockValidity(b)
  BY Zenon DEF Next, FlushCoins, FlushEvo, ProcessMessage, FinalizeCommitments, GetQuorum,
     vars, chainVars
<1> QED
  BY <1>1, <1>2, <1>3, <1>4, <1>5, <1>6, <1>7, Zenon

\* The heights that the EvoDB lists are those of the chain's commitments.
LEMMA ListedHeights ==
    ASSUME Groundwork, NEW e, NEW x \in Blocks, Holds(e, x, 0), Legal(x)
    PROVE  MinedHeights(e, x) = CommitmentHeights(x)
<1>1. ASSUME NEW h \in MinedHeights(e, x) PROVE h \in CommitmentHeights(x)
  <2>1. h \in Heights /\ e.byHeight[h] >= 0
    BY <1>1, MinedHeightsType, Zenon DEF MinedHeights
  <2>2. LET a == GetAncestor(x, h) IN a \in Anc[x] /\ Height[a] = h /\ HasQc(a)
    BY <2>1, ByHeightNames, Zenon
  <2> QED
    BY <2>2, Zenon DEF CommitmentHeights, HasQc
<1>2. ASSUME NEW a \in Anc[x], HasQc(a) PROVE Height[a] \in MinedHeights(e, x)
  <2>1. a \in Blocks /\ Height[a] \in Nat /\ Height[a] > 0 /\ Height[a] <= Height[x]
    BY <1>2, AncSelf, AboveGenesis, CommitmentsNamed, TreeAssumption, Zenon
  <2>2. e.byHeight[Height[a]] = Height[QuorumHash[Qc[a]]] /\ Height[QuorumHash[Qc[a]]] \in Nat
    BY <1>2, <2>1, CommitmentsNamed, TreeAssumption, Zenon DEF Holds
  <2> QED
    BY <2>1, <2>2, TreeAssumption DEF MinedHeights
<1> QED
  BY <1>1, <1>2, Zenon DEF CommitmentHeights, HasQc

\* The hashes that CalcCbTxMerkleRootQuorums puts below the root, cached or
\* not, are those of the newest commitments on the chain.
LEMMA RootIsTrue ==
    ASSUME Groundwork, BaseInv, RootFresh, VerifyBestBlock, Holds(evo, tip, 0),
           NEW b \in Blocks \ {Genesis}, Parent[b] = tip, Processes(b)
    PROVE  QuorumRoot(EvoAfter(b), b) = TrueRoot(b)
<1> DEFINE H == CommitmentHeights(tip)
           hs == NewestFirst(H)
           known == RootCacheFor(evo, tip).hashes
           t == Height[b]
           kept == IF HasQc(b) /\ Len(known) = ActiveCount THEN Len(known) - 1 ELSE Len(known)
           G == CommitmentHeights(b)
<1>1. /\ tip \in Blocks /\ Legal(tip) /\ t = Height[tip] + 1 /\ t \in Nat /\ Height[tip] \in Nat
      /\ Anc[b] = Anc[tip] \cup {b} /\ tip \in Anc[b] /\ b \in Anc[b]
  BY AncSelf, TreeAssumption DEF BaseInv, ChainOK
<1>2. H = MinedHeights(evo, tip)
  BY <1>1, ListedHeights, Zenon
<1>3. H \in SUBSET Int /\ IsFiniteSet(H) /\ H \subseteq 1 .. Height[tip]
  BY <1>1, <1>2, MinedHeightsType
<1>4. PICK n \in Nat :
        /\ n = IF Cardinality(H) < ActiveCount THEN Cardinality(H) ELSE ActiveCount
        /\ DOMAIN hs = 1 .. n
        /\ \A i \in 1 .. n : hs[i] \in H /\ Rank(H, hs[i]) = i - 1
        /\ \A h \in H : Rank(H, h) < ActiveCount =>
              Rank(H, h) + 1 \in 1 .. n /\ hs[Rank(H, h) + 1] = h
  <2> HIDE DEF H
  <2> QED
    BY <1>3, NewestFirstType, Zenon
<1>5. Cardinality(H) \in Nat /\ \A h \in H : Rank(H, h) \in 0 .. Cardinality(H) - 1
  <2> HIDE DEF H
  <2> QED
    BY <1>3, RankBijection, Zenon DEF RanksExact
<1>6. known \in Seq(Commitments) /\ DOMAIN known = 1 .. n /\ Len(known) = n
      /\ \A i \in 1 .. n : known[i] = Qc[GetAncestor(tip, hs[i])]
  <2> DEFINE quorums == MinedUntil(evo, tip)
             r == RootCacheFor(evo, tip)
  <2>1. r.quorums = quorums
    BY RootCacheFresh, Zenon
  <2>2. /\ DOMAIN quorums = 1 .. n
        /\ \A i \in 1 .. n : /\ evo.mined[quorums[i]] = GetAncestor(tip, hs[i])
                            /\ GetAncestor(tip, hs[i]) \in Anc[tip]
    <3>1. /\ DOMAIN quorums = DOMAIN hs
          /\ \A i \in DOMAIN quorums : /\ evo.mined[quorums[i]] = GetAncestor(tip, hs[i])
                                       /\ GetAncestor(tip, hs[i]) \in Anc[tip]
      BY <1>1, <1>2, MinedUntilFinds, SMTT(30)
    <3> HIDE DEF hs, quorums
    <3> QED
      BY <1>4, <3>1, Zenon
  <2>3. \A a \in Anc[tip] : a # NoBlock
    BY <1>1, AncSelf, CommitmentAssumption
  <2> HIDE DEF hs, quorums
  <2>4. \A i \in DOMAIN quorums : evo.mined[quorums[i]] # NoBlock
    BY <2>2, <2>3, Zenon
  <2>5. r.hashes \in Seq(Commitments) /\ DOMAIN r.hashes = DOMAIN r.quorums
    BY <1>1, <2>4, RootCacheOK, Zenon DEF BaseInv, quorums
  <2>6. \A i \in DOMAIN quorums : r.hashes[i] = Qc[evo.mined[quorums[i]]]
    BY <2>1, <2>4, RootCacheFresh, Zenon
  <2> HIDE DEF r
  <2>7. DOMAIN r.hashes = 1 .. n /\ Len(r.hashes) = n
    BY <2>1, <2>2, <2>5
  <2>8. \A i \in 1 .. n : r.hashes[i] = Qc[GetAncestor(tip, hs[i])]
    BY <2>2, <2>6, Zenon
  <2> QED
    BY <2>5, <2>7, <2>8, Zenon DEF r
<1>7. QuorumRoot(EvoAfter(b), b) = {known[i] : i \in 1 .. kept} \cup ({Qc[b]} \cap Commitments)
  BY RootCacheSame, Zenon DEF QuorumRoot, HasQc, BaseInv
<1>8. TrueRoot(b) = {Qc[GetAncestor(b, h)] : h \in {k \in G : Rank(G, k) < ActiveCount}}
  BY Zenon DEF TrueRoot
<1>9. G = IF HasQc(b) THEN H \cup {t} ELSE H
  BY <1>1, Zenon DEF CommitmentHeights, HasQc
<1>10. \A h \in H : GetAncestor(b, h) = GetAncestor(tip, h)
  <2>1. \A h \in H : h \in 0 .. Height[tip]
    BY <1>1, <1>3
  <2> HIDE DEF H
  <2> QED
    BY <1>1, <2>1, GetAncestorBelow
<1>11. GetAncestor(b, t) = b
  BY <1>1, GetAncestorOf, Zenon
<1>12. ActiveCount \in Nat \ {0}
  BY CommitmentAssumption, Zenon
<1>13. kept \in 0 .. n /\ \A h \in H : Rank(G, h) < ActiveCount <=> Rank(H, h) < kept
  <2>1. CASE HasQc(b)
    <3>1. \A h \in H : h < t
      BY <1>1, <1>3
    <3>2. \A h \in H : Rank(G, h) = Rank(H, h) + 1
      <4>1. G = H \cup {t} /\ t \in Int
        BY <1>1, <1>9, <2>1
      <4> HIDE DEF H, t, G
      <4>2. \A h \in H : Rank(H \cup {t}, h) = Rank(H, h) + 1
        BY <1>3, <3>1, <4>1, RankAbove, Zenon DEF MovedUp
      <4> QED
        BY <4>1, <4>2, Zenon
    <3> HIDE DEF H, known, G
    <3> QED
      BY <1>4, <1>5, <1>6, <1>12, <2>1, <3>2, SMTT(30)
  <2>2. CASE ~HasQc(b)
    <3> HIDE DEF H, known
    <3>1. G = H
      BY <1>9, <2>2, Zenon
    <3> HIDE DEF G
    <3> QED
      BY <1>4, <1>5, <1>6, <1>12, <2>2, <3>1
  <2> QED
    BY <2>1, <2>2, Zenon
<1>14. HasQc(b) => Rank(G, t) < ActiveCount
  <2>1. \A h \in H : h < t
    BY <1>1, <1>3
  <2> HIDE DEF H, t
  <2> QED
    BY <1>1, <1>3, <1>9, <1>12, <2>1, RankAbove DEF MovedUp
<1> HIDE DEF H, hs, known, t, kept, G
<1>15. ASSUME NEW c \in QuorumRoot(EvoAfter(b), b) PROVE c \in TrueRoot(b)
  <2>1. CASE c = Qc[b] /\ HasQc(b)
    BY <1>8, <1>9, <1>11, <1>14, <2>1, Zenon
  <2>2. ASSUME NEW i \in 1 .. kept, c = known[i] PROVE c \in TrueRoot(b)
    <3>1. i \in 1 .. n /\ hs[i] \in H /\ Rank(H, hs[i]) < kept
      BY <1>4, <1>13
    <3>2. hs[i] \in G /\ Rank(G, hs[i]) < ActiveCount
      BY <1>9, <1>13, <3>1, Zenon
    <3>3. c = Qc[GetAncestor(b, hs[i])]
      BY <1>6, <1>10, <2>2, <3>1, Zenon
    <3> QED
      BY <1>8, <3>2, <3>3, Zenon
  <2> QED
    BY <1>7, <1>15, <2>1, <2>2, Zenon DEF HasQc
<1>16. ASSUME NEW c \in TrueRoot(b) PROVE c \in QuorumRoot(EvoAfter(b), b)
  <2>1. PICK h \in G : Rank(G, h) < ActiveCount /\ c = Qc[GetAncestor(b, h)]
    BY <1>8, <1>16, Zenon
  <2>2. CASE h \in H
    <3>1. Rank(H, h) < kept /\ Rank(H, h) \in Nat
      BY <1>5, <1>13, <2>1, <2>2
    <3>2. Rank(H, h) + 1 \in 1 .. kept /\ Rank(H, h) + 1 \in 1 .. n
      BY <1>13, <3>1
    <3>3. hs[Rank(H, h) + 1] = h
      BY <1>4, <1>5, <1>12, <2>2, <3>1, <3>2
    <3>4. known[Rank(H, h) + 1] = c
      <4> HIDE DEF known, hs, H
      <4>1. known[Rank(H, h) + 1] = Qc[GetAncestor(tip, h)]
        BY <1>6, <3>2, <3>3, Zenon
      <4> QED
        BY <1>10, <2>1, <2>2, <4>1, Zenon
    <3> QED
      BY <1>7, <3>2, <3>4, Zenon
  <2>3. CASE h \notin H
    BY <1>7, <1>9, <1>11, <2>1, <2>3, Zenon DEF HasQc
  <2> QED
    BY <2>2, <2>3, Zenon
<1> QED
  BY <1>15, <1>16, Zenon

LEMMA ChainDecides ==
    ASSUME Groundwork, ~CrashInFirstFlush, AssumedValidOK
    PROVE  Spec => []ConsensusByChain
<1>1. Init => RootFresh
  BY DEF Init, NoRoot, RootFresh
<1>2. BaseInv /\ RootFresh => ConsensusByChain
  <2> SUFFICES ASSUME BaseInv, RootFresh, VerifyBestBlock,
                      NEW b \in Blocks \ {Genesis}, Parent[b] = tip
               PROVE  Accepts(b) <=> Acceptable(b)
    BY Zenon DEF ConsensusByChain
  <2> DEFINE h == Height[b]
             q == GetQuorumBlockHash(h)
             first == GetAncestor(b, h - (h % DkgInterval))
             required == /\ first # b /\ IsMiningPhase(h)
                         /\ ~\E a \in Anc[Parent[b]] :
                               Qc[a] \in Commitments /\ QuorumHash[Qc[a]] = first
  <2>1. tip \in Blocks /\ h \in Nat /\ CacheOK /\ Holds(evo, tip, 0)
    BY EvoHolds, TreeAssumption, Zenon DEF BaseInv, ChainOK
  <2>2. first \in Blocks /\ q = IF first = b THEN NoBlock ELSE first
    BY <2>1, QuorumBlockOf, Zenon
  <2>3. q # NoBlock => q \in QuorumBlocks
    BY <2>1, QuorumOrNone, Zenon
  <2>4. NoBlock \notin Blocks /\ NoQc \notin Commitments
    BY CommitmentAssumption, Zenon
  <2>5. IsCommitmentRequired(h) <=> q # NoBlock /\ IsMiningPhase(h) /\ ~HasMinedCommitment(q)
    BY Zenon DEF IsCommitmentRequired
  <2>6. /\ Processes(b) <=> /\ Qc[b] # NoQc <=> IsCommitmentRequired(h)
                            /\ Qc[b] \in Commitments =>
                                  /\ QuorumHash[Qc[b]] = q /\ ~HasMinedCommitment(q)
                                  /\ IsMiningPhase(h) /\ Qc[b] \in ValidQc
        /\ Acceptable(b) <=> /\ Qc[b] # NoQc <=> required
                             /\ Qc[b] \in Commitments => QuorumHash[Qc[b]] = first /\ Qc[b] \in ValidQc
                             /\ b \notin BadMnList \cup BadRoot
    BY Zenon DEF Processes, Acceptable
  <2> HIDE DEF h, q, first
  <2>7. q # NoBlock => /\ HasMinedCommitment(q) <=> \E a \in Anc[tip] : HasQc(a) /\ QuorumHash[Qc[a]] = q
    BY <2>1, <2>3, HasMined, HoldsAll
  <2>8. required <=> IsCommitmentRequired(h)
    BY <2>2, <2>4, <2>5, <2>7, Zenon DEF HasQc
  <2> HIDE DEF required
  <2>9. Acceptable(b) <=> Processes(b) /\ b \notin BadMnList \cup BadRoot
    BY <2>2, <2>4, <2>5, <2>6, <2>8, Zenon
  <2>10. Processes(b) => QuorumRoot(EvoAfter(b), b) = TrueRoot(b)
    BY <2>1, RootIsTrue, Zenon
  <2>11. b \in AssumedValid => b \notin BadRoot
    BY Zenon DEF AssumedValidOK
  <2> QED
    BY <2>9, <2>10, <2>11, Zenon DEF Accepts
<1> QED
  BY <1>1, <1>2, BaseAlways, RootFreshNext, PTL DEF Spec

-----------------------------------------------------------------------------
(***************************************************************************)
(* The groundwork, and the results without it as a hypothesis.             *)
(***************************************************************************)
INSTANCE FiniteSetTheorems
Tree == INSTANCE BlockTreeProofs

\* Of two members the larger has the smaller rank.
LEMMA RankOrder ==
    ASSUME NEW H \in SUBSET Int, IsFiniteSet(H), NEW g \in H, NEW h \in H, g < h
    PROVE  Rank(H, h) < Rank(H, g)
<1> DEFINE A == {k \in H : k > h}
           B == {k \in H : k > g}
<1>1. A \in SUBSET B /\ B \in SUBSET H /\ h \in B /\ h \notin A
  <2>1. h \in Int /\ h > g /\ \A k \in H : k > h => k > g
    OBVIOUS
  <2>2. h \in B /\ h \notin A
    BY <2>1
  <2>3. \A k \in A : k \in B
    BY <2>1, Zenon
  <2> QED
    BY <2>2, <2>3, Zenon
<1>2. /\ IsFiniteSet(A) /\ IsFiniteSet(B) /\ Cardinality(A) <= Cardinality(B)
      /\ Cardinality(A) # Cardinality(B)
  <2> HIDE DEF A, B
  <2> QED
    BY <1>1, FS_Subset, ZenonT(30)
<1>3. Cardinality(A) \in Nat /\ Cardinality(B) \in Nat
  <2> HIDE DEF A, B
  <2> QED
    BY <1>2, FS_CardinalityType, Zenon
<1> QED
  BY <1>2, <1>3 DEF Rank

\* Every rank below the number of members is that of exactly one member.
LEMMA RanksOfFinite ==
    ASSUME NEW H \in SUBSET Int, IsFiniteSet(H)
    PROVE  RanksExact(H)
<1> DEFINE n == Cardinality(H)
           T == 0 .. n - 1
           f == [h \in H |-> Rank(H, h)]
<1>1. n \in Nat
  BY FS_CardinalityType, Zenon
<1>2. ASSUME NEW h \in H PROVE Rank(H, h) \in T
  <2> DEFINE A == {k \in H : k > h}
  <2>1. A \in SUBSET H /\ h \notin A
    OBVIOUS
  <2>2. IsFiniteSet(A) /\ Cardinality(A) <= n /\ Cardinality(A) # n
    <3> HIDE DEF A
    <3> QED
      BY <2>1, FS_Subset, Zenon
  <2>3. Cardinality(A) \in Nat
    <3> HIDE DEF A
    <3> QED
      BY <2>2, FS_CardinalityType, Zenon
  <2> QED
    BY <1>1, <2>2, <2>3 DEF Rank
<1>3. ASSUME NEW g \in H, NEW h \in H, Rank(H, g) = Rank(H, h) PROVE g = h
  <2> HIDE DEF n
  <2>1. Rank(H, g) \in Int /\ Rank(H, h) \in Int
    BY <1>1, <1>2
  <2>2. ~(g < h) /\ ~(h < g)
    BY <1>3, <2>1, RankOrder
  <2> QED
    BY <2>2
<1>4. IsFiniteSet(T) /\ Cardinality(T) = n
  <2>1. 0 \in Int /\ n - 1 \in Int
    BY <1>1
  <2> HIDE DEF n
  <2>2. IsFiniteSet(T) /\ Cardinality(T) = IF 0 > n - 1 THEN 0 ELSE (n - 1) - 0 + 1
    BY <2>1, FS_Interval, Zenon
  <2> QED
    BY <1>1, <2>2
<1>5. f \in Injection(H, T)
  <2> HIDE DEF n
  <2>1. f \in [H -> T]
    BY <1>2, Zenon
  <2>2. \A a, b \in DOMAIN f : f[a] = f[b] => a = b
    BY <1>3, Zenon
  <2> QED
    BY <2>1, <2>2, Zenon DEF Injection, IsInjective
<1>6. f \in Surjection(H, T)
  <2> HIDE DEF f, T, n
  <2> QED
    BY <1>4, <1>5, FS_Injection, Zenon DEF n
<1>7. ASSUME NEW i \in T PROVE \E h \in H : Rank(H, h) = i
  <2> HIDE DEF n
  <2> QED
    BY <1>6, <1>7, Zenon DEF Surjection
<1> QED
  BY <1>1, <1>2, <1>3, <1>7, Zenon DEF RanksExact

\* A new largest height takes rank 0 and moves the others by one.
LEMMA RanksMove ==
    ASSUME NEW H \in SUBSET Int, IsFiniteSet(H), NEW t \in Int, \A h \in H : h < t
    PROVE  MovedUp(H, t)
<1>1. {k \in H \cup {t} : k > t} = {}
  <2>1. \A k \in H \cup {t} : k \in Int /\ ~(k > t)
    OBVIOUS
  <2> QED
    BY <2>1, Zenon
<1>2. ASSUME NEW h \in H PROVE Rank(H \cup {t}, h) = Rank(H, h) + 1
  <2> DEFINE A == {k \in H : k > h}
  <2>1. {k \in H \cup {t} : k > h} = A \cup {t} /\ t \notin A /\ A \in SUBSET H
    OBVIOUS
  <2>2. IsFiniteSet(A)
    <3> HIDE DEF A
    <3> QED
      BY <2>1, FS_Subset, Zenon
  <2>3. Cardinality(A \cup {t}) = Cardinality(A) + 1
    <3> HIDE DEF A
    <3> QED
      BY <2>1, <2>2, FS_AddElement, Zenon
  <2> QED
    BY <2>1, <2>3, Zenon DEF Rank
<1> QED
  BY <1>1, <1>2, FS_EmptySet, Zenon DEF Rank, MovedUp

LEMMA GroundworkHolds == Groundwork
<1>1. TreeShape
  BY Tree!TreeShaped, TreeAssumption, Zenon DEF TreeShape, Tree!TreeShape
<1>2. ASSUME NEW n \in Nat, NEW H \in SUBSET (1 .. n) PROVE IsFiniteSet(H)
  <2>1. IsFiniteSet(1 .. n)
    BY FS_Interval
  <2> QED
    BY <2>1, FS_Subset, Zenon
<1> QED
  BY <1>1, <1>2, RanksOfFinite, RanksMove, Zenon DEF Groundwork

\* Every variable keeps its type through connected, tested, refused and
\* disconnected blocks, templates, flushes, crashes and restarts, a crash in
\* the first flush of a new node included.
THEOREM TypeCorrect == Spec => []TypeOK
BY GroundworkHolds, TypesHold, PTL

\* Unless a crash hits the first flush of a new node, the EvoDB holds exactly
\* the commitments of the active chain whenever its best block is the tip.
THEOREM EvoOfActiveChain ==
    ASSUME ~CrashInFirstFlush
    PROVE  Spec => []EvoMatchesChain
BY GroundworkHolds, EvoFollowsChain, PTL

\* While the node runs, the commitment to be mined for a quorum is only
\* replaced by one with more signers, whichever of ProcessMessage, the node's
\* own DKG session and DisconnectTip calls AddMinableCommitment.
THEOREM MinableOnlyImproves == Spec => MinableImproves
BY GroundworkHolds, CommitmentsImprove, PTL

\* If the commitments of this node's own DKG sessions pass CFinalCommitment::
\* Verify, which FinalizeCommitments does not call, then what CreateNewBlock
\* takes from minableCommitments passes ProcessBlock and ProcessCommitment.
THEOREM TemplatesAcceptable ==
    ASSUME LocalQc \subseteq ValidQc
    PROVE  Spec => []TemplateAcceptable
BY GroundworkHolds, TemplatesPass, PTL

\* Without a crash in the first flush of a new node, and with AssumedValidOK,
\* a node that stands on the tip accepts a block exactly when its ancestors
\* allow it: stale caches, an EvoDB that lags, refused blocks, templates and
\* reorganisations make no difference.
THEOREM ConsensusDecidedByChain ==
    ASSUME ~CrashInFirstFlush, AssumedValidOK
    PROVE  Spec => []ConsensusByChain
BY GroundworkHolds, ChainDecides, PTL
=============================================================================
