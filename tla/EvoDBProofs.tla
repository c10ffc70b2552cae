---------------------------- MODULE EvoDBProofs ----------------------------
(***************************************************************************)
(* The two layers of CEvoDB implement a map with a visible, a committed    *)
(* and a durable version, for every set of keys and values, and the        *)
(* iterator over them meets exactly the visible keys.                      *)
(***************************************************************************)
EXTENDS EvoDBIterator, FiniteSetTheorems, TLAPS

Maps == [Keys -> Values \cup {NoValue}]
Disjoint(t) == \A k \in t.deletes : t.writes[k] = NoValue

\* The inductive invariant: a batch holds something only during a flush, the
\* root transaction only outside one, and a flush and a block's transaction
\* exclude each other.
IInv ==
    /\ TypeOK
    /\ CleanWhenClosed
    /\ ~flushing => rootBatch = Empty
    /\ flushing => root = Empty
    /\ ~(open /\ flushing)

\* An empty layer is a layer and hides nothing of the map below.
LEMMA EmptyLayer ==
    Empty \in Layers /\ Disjoint(Empty) /\ \A m \in Maps : Over(Empty, m) = m
BY DEF Empty, Layers, Maps, Disjoint, Over

\* Reading a layer over a map gives a map.
LEMMA OverMap == ASSUME NEW t \in Layers, NEW m \in Maps PROVE Over(t, m) \in Maps
BY DEF Layers, Maps, Over

\* CDBTransaction::Write changes exactly the key it is given.
LEMMA WrittenKey ==
    ASSUME NEW t \in Layers, Disjoint(t), NEW m \in Maps, NEW k \in Keys, NEW v \in Values
    PROVE  /\ Written(t, k, v) \in Layers /\ Disjoint(Written(t, k, v))
           /\ Over(Written(t, k, v), m) = [Over(t, m) EXCEPT ![k] = v]
BY EvoAssumption, Zenon DEF Layers, Maps, Over, Written, Disjoint

\* CDBTransaction::Erase hides exactly the key it is given.
LEMMA ErasedKey ==
    ASSUME NEW t \in Layers, Disjoint(t), NEW m \in Maps, NEW k \in Keys
    PROVE  /\ Erased(t, k) \in Layers /\ Disjoint(Erased(t, k))
           /\ Over(Erased(t, k), m) = [Over(t, m) EXCEPT ![k] = NoValue]
BY EvoAssumption, Zenon DEF Layers, Maps, Over, Erased, Disjoint

\* CDBTransaction::Commit moves a layer into the one below without changing
\* what a reader finds.
LEMMA CommittedLayers ==
    ASSUME NEW t \in Layers, Disjoint(t), NEW u \in Layers, Disjoint(u), NEW m \in Maps
    PROVE  /\ Committed(t, u) \in Layers /\ Disjoint(Committed(t, u))
           /\ Over(Committed(t, u), m) = Over(t, Over(u, m))
BY EvoAssumption, Zenon DEF Layers, Maps, Over, Committed, Disjoint

\* The typing of the variables, a conjunct at a time.
LEMMA TypeParts ==
    TypeOK <=> /\ disk \in Maps
               /\ rootBatch \in Layers /\ Disjoint(rootBatch)
               /\ root \in Layers /\ Disjoint(root)
               /\ cur \in Layers /\ Disjoint(cur)
               /\ open \in BOOLEAN /\ flushing \in BOOLEAN
BY DEF TypeOK, Maps, Disjoint

LEMMA InitInv == Init => IInv
BY EmptyLayer, TypeParts, Zenon DEF Init, IInv, CleanWhenClosed, IsClean, Maps, Empty

\* Every step of the database preserves the invariant and is a step of the
\* map it implements.
LEMMA NextStep == IInv /\ Next => IInv' /\ [Nested!Next]_(Nested!vars)
<1> SUFFICES ASSUME IInv, Next PROVE IInv' /\ [Nested!Next]_(Nested!vars)
    OBVIOUS
<1> DEFINE B == Over(rootBatch, disk)
           C == Over(root, B)
           V == Over(cur, C)
<1>t. /\ disk \in Maps /\ rootBatch \in Layers /\ Disjoint(rootBatch)
      /\ root \in Layers /\ Disjoint(root) /\ cur \in Layers /\ Disjoint(cur)
      /\ open \in BOOLEAN /\ flushing \in BOOLEAN
    BY TypeParts DEF IInv
<1>i. /\ ~open => cur = Empty
      /\ ~flushing => rootBatch = Empty
      /\ flushing => root = Empty
      /\ ~(open /\ flushing)
    BY DEF IInv, CleanWhenClosed, IsClean
<1>m. B \in Maps /\ C \in Maps /\ V \in Maps
    BY <1>t, OverMap
<1>n. /\ /\ disk' \in Maps /\ rootBatch' \in Layers /\ Disjoint(rootBatch')
         /\ root' \in Layers /\ Disjoint(root') /\ cur' \in Layers /\ Disjoint(cur')
         /\ open' \in BOOLEAN /\ flushing' \in BOOLEAN
      /\ ~open' => cur' = Empty
      /\ ~flushing' => rootBatch' = Empty
      /\ flushing' => root' = Empty
      /\ ~(open' /\ flushing')
      => IInv'
    BY DEF IInv, CleanWhenClosed, IsClean, TypeOK, Maps, Disjoint
<1>1. CASE BeginTransaction
    <2>1. IInv'
        BY <1>1, <1>t, <1>i, <1>n DEF BeginTransaction
    <2> QED BY <1>1, <2>1 DEF BeginTransaction, Nested!vars
<1>2. ASSUME NEW k \in Keys, NEW v \in Values, Write(k, v)
      PROVE  IInv' /\ [Nested!Next]_(Nested!vars)
    <2>1. IInv'
        BY <1>2, <1>t, <1>i, <1>n, <1>m, WrittenKey DEF Write
    <2>2. Over(cur', C) = [V EXCEPT ![k] = v]
        BY <1>2, <1>t, <1>m, WrittenKey DEF Write
    <2>3. Nested!Put(k, v)
        BY <1>2, <2>2 DEF Write, Nested!Put
    <2> QED BY <2>1, <2>3 DEF Nested!Next
<1>3. ASSUME NEW k \in Keys, Erase(k)
      PROVE  IInv' /\ [Nested!Next]_(Nested!vars)
    <2>1. IInv'
        BY <1>3, <1>t, <1>i, <1>n, <1>m, ErasedKey DEF Erase
    <2>2. Over(cur', C) = [V EXCEPT ![k] = NoValue]
        BY <1>3, <1>t, <1>m, ErasedKey DEF Erase
    <2>3. Nested!Put(k, NoValue)
        BY <1>3, <2>2 DEF Erase, Nested!Put
    <2> QED BY <2>1, <2>3 DEF Nested!Next
<1>4. CASE CommitCurTransaction
    <2>1. IInv'
        BY <1>4, <1>t, <1>i, <1>n, <1>m, CommittedLayers, EmptyLayer, Zenon DEF CommitCurTransaction
    <2>2. Over(root', B) = V /\ Over(cur', Over(root', B)) = V
        BY <1>4, <1>t, <1>m, CommittedLayers, EmptyLayer DEF CommitCurTransaction
    <2>3. Nested!Commit
        BY <1>4, <2>2 DEF CommitCurTransaction, Nested!Commit
    <2> QED BY <2>1, <2>3 DEF Nested!Next
<1>5. CASE RollbackCurTransaction
    <2>1. IInv'
        BY <1>5, <1>t, <1>i, <1>n, EmptyLayer, Zenon DEF RollbackCurTransaction
    <2>2. Over(cur', C) = C
        BY <1>5, <1>m, EmptyLayer DEF RollbackCurTransaction
    <2>3. Nested!Rollback
        BY <1>5, <2>2 DEF RollbackCurTransaction, Nested!Rollback
    <2> QED BY <2>1, <2>3 DEF Nested!Next
<1>6. CASE CommitRootTransaction
    <2>1. IInv'
        BY <1>6, <1>t, <1>i, <1>n, <1>m, CommittedLayers, EmptyLayer DEF CommitRootTransaction
    <2>2. Over(rootBatch', disk) = C
        BY <1>6, <1>t, CommittedLayers DEF CommitRootTransaction
    <2>3. Over(root', Over(rootBatch', disk)) = C
        BY <1>6, <2>2, <1>m, EmptyLayer DEF CommitRootTransaction
    <2>4. UNCHANGED Nested!vars
        BY <1>6, <2>3 DEF CommitRootTransaction, Nested!vars
    <2> QED BY <2>1, <2>4
<1>7. CASE WriteBatch
    <2>1. IInv'
        BY <1>7, <1>t, <1>i, <1>n, <1>m, EmptyLayer, Zenon DEF WriteBatch
    <2>2. disk' = B /\ Over(rootBatch', disk') = B
        BY <1>7, <1>m, EmptyLayer DEF WriteBatch
    <2>3. V = C /\ C = B
        BY <1>7, <1>i, <1>m, EmptyLayer DEF WriteBatch
    <2>4. Nested!Flush
        BY <1>7, <2>2, <2>3 DEF WriteBatch, Nested!Flush
    <2> QED BY <2>1, <2>4 DEF Nested!Next
<1>8. CASE Crash
    <2>1. IInv'
        BY <1>8, <1>t, <1>i, <1>n, EmptyLayer, Zenon DEF Crash
    <2>2. Over(rootBatch', disk') = disk
        BY <1>8, <1>t, EmptyLayer DEF Crash
    <2>3. Over(root', Over(rootBatch', disk')) = disk
        BY <1>8, <1>t, <2>2, EmptyLayer DEF Crash
    <2>4. Over(cur', Over(root', Over(rootBatch', disk'))) = disk
        BY <1>8, <1>t, <2>3, EmptyLayer DEF Crash
    <2>5. Nested!Crash
        BY <1>8, <2>3, <2>4 DEF Crash, Nested!Crash
    <2> QED BY <2>1, <2>5 DEF Nested!Next
<1> QED BY <1>1, <1>2, <1>3, <1>4, <1>5, <1>6, <1>7, <1>8 DEF Next

LEMMA Invariance == Spec => []IInv
<1>1. IInv /\ UNCHANGED vars => IInv'
    BY DEF vars, IInv, TypeOK, CleanWhenClosed, IsClean
<1> QED BY InitInv, NextStep, <1>1, PTL DEF Spec

\* Layers are well formed and never write and delete the same key.
THEOREM TypeCorrect == Spec => []TypeOK
<1>1. IInv => TypeOK
    BY DEF IInv
<1> QED BY Invariance, <1>1, PTL

\* The assertion of CommitRootTransaction holds whenever it is reached.
THEOREM FlushesCleanly == Spec => []CleanWhenClosed
<1>1. IInv => CleanWhenClosed
    BY DEF IInv
<1> QED BY Invariance, <1>1, PTL

\* Blocks committed or rolled back, flushes and crashes, in any order, act on
\* the database as on one map with three versions.
THEOREM NestedStoreImplemented == Spec => ImplementsNestedStore
<1>1. Init => Nested!Init
    <2> SUFFICES ASSUME Init PROVE Nested!Init
        OBVIOUS
    <2>1. disk \in Maps /\ rootBatch = Empty /\ root = Empty /\ cur = Empty
        BY DEF Init, Maps
    <2>2. Over(rootBatch, disk) = disk
        BY <2>1, EmptyLayer
    <2>3. Over(root, Over(rootBatch, disk)) = disk
        BY <2>1, <2>2, EmptyLayer
    <2>4. Over(cur, Over(root, Over(rootBatch, disk))) = disk
        BY <2>1, <2>3, EmptyLayer
    <2> QED BY <2>3, <2>4 DEF Init, Nested!Init
<1>2. UNCHANGED vars => UNCHANGED Nested!vars
    BY DEF vars, Nested!vars
<1>3. IInv /\ [Next]_vars => [Nested!Next]_(Nested!vars)
    BY NextStep, <1>2
<1> QED BY Invariance, <1>1, <1>3, PTL DEF Spec, ImplementsNestedStore, Nested!Spec

-----------------------------------------------------------------------------
(***************************************************************************)
(* The iterator.  Induction is over sets of numbers.                       *)
(***************************************************************************)
\* A set of numbers has a least one.
LEMMA MinNat == ASSUME NEW S \in SUBSET Nat, S # {} PROVE \E x \in S : \A y \in S : x <= y
<1> DEFINE R == {ss \in Nat \X Nat : ss[1] < ss[2]}
<1>1. IsWellFoundedOn(R, Nat)
    BY NatLessThanWellFounded, Zenon DEF OpToRel
<1>2. PICK x \in S : \A y \in S : <<y, x>> \notin R
    <2> HIDE DEF R
    <2> QED BY <1>1, WFMin, Zenon
<1>3. \A y \in S : ~(y < x)
    BY <1>2, Zenon
<1> QED BY <1>3

\* Induction: a set of numbers with zero and every successor has them all.
LEMMA AllNats ==
    ASSUME NEW Q \in SUBSET Nat, 0 \in Q, \A n \in Q : n + 1 \in Q
    PROVE  Q = Nat
<1> SUFFICES ASSUME Q # Nat PROVE FALSE
    OBVIOUS
<1> DEFINE C == Nat \ Q
<1>1. PICK x \in C : \A y \in C : x <= y
    <2>1. C \in SUBSET Nat /\ C # {}
        BY Zenon
    <2> HIDE DEF C
    <2> QED BY <2>1, MinNat
<1>2. x - 1 \in Nat /\ x - 1 \notin C
    BY <1>1
<1> QED BY <1>1, <1>2

\* A finite set of keys has a greatest one.
LEMMA MaxKey ==
    ASSUME NEW S \in SUBSET Int, IsFiniteSet(S), S # {}
    PROVE  \E m \in S : \A x \in S : x <= m
<1> DEFINE Claim(A) == A # {} => \E m \in A : \A x \in A : x <= m
           Q == {n \in Nat : \A A \in SUBSET Int : IsFiniteSet(A) /\ Cardinality(A) = n => Claim(A)}
<1>1. 0 \in Q
    BY FS_EmptySet
<1>2. ASSUME NEW n \in Q PROVE n + 1 \in Q
    <2> SUFFICES ASSUME NEW A \in SUBSET Int, IsFiniteSet(A), Cardinality(A) = n + 1, A # {}
                 PROVE  \E m \in A : \A x \in A : x <= m
        OBVIOUS
    <2>1. PICK a \in A : TRUE
        BY Zenon
    <2>2. IsFiniteSet(A \ {a}) /\ Cardinality(A \ {a}) = n
        <3>1. IsFiniteSet(A \ {a}) /\ Cardinality(A \ {a}) = Cardinality(A) - 1
            BY <2>1, FS_RemoveElement, Zenon
        <3> QED BY <3>1
    <2>3. Claim(A \ {a})
        BY <2>2
    <2>4. CASE A \ {a} = {}
        BY <2>1, <2>4
    <2>5. CASE A \ {a} # {}
        <3>1. PICK m \in A \ {a} : \A x \in A \ {a} : x <= m
            BY <2>3, <2>5
        <3>2. CASE a <= m
            BY <3>1, <3>2
        <3>3. CASE ~(a <= m)
            BY <2>1, <3>1, <3>3
        <3> QED BY <3>2, <3>3
    <2> QED BY <2>4, <2>5
<1>3. Q = Nat
    <2>1. Q \in SUBSET Nat
        OBVIOUS
    <2> HIDE DEF Q
    <2> QED BY <1>1, <1>2, <2>1, AllNats
<1>4. Cardinality(S) \in Q
    BY <1>3, FS_CardinalityType
<1> QED BY <1>4

\* A key above all others is put behind them.
LEMMA Snoc ==
    ASSUME NEW S \in SUBSET Int, NEW n \in Nat, NEW s \in [1 .. n -> S], Enumerates(s, S),
           NEW m \in Int, \A x \in S : x < m
    PROVE  LET r == [i \in 1 .. n + 1 |-> IF i = n + 1 THEN m ELSE s[i]]
           IN  r \in [1 .. n + 1 -> S \cup {m}] /\ Enumerates(r, S \cup {m})
<1> DEFINE r == [i \in 1 .. n + 1 |-> IF i = n + 1 THEN m ELSE s[i]]
<1>1. r \in [1 .. n + 1 -> S \cup {m}]
    OBVIOUS
<1>2. r \in Seq(S \cup {m})
    BY <1>1
<1>3. ASSUME NEW x \in S \cup {m} PROVE \E i \in DOMAIN r : r[i] = x
    <2>1. CASE x = m
        BY <2>1
    <2>2. CASE x # m
        <3>1. PICK i \in 1 .. n : s[i] = x
            BY <2>2 DEF Enumerates
        <3> QED BY <3>1
    <2> QED BY <2>1, <2>2
<1>4. ASSUME NEW i \in DOMAIN r, NEW j \in DOMAIN r, i < j PROVE r[i] < r[j]
    <2>1. i \in 1 .. n /\ r[i] = s[i] /\ s[i] \in S
        BY <1>4
    <2>2. CASE j = n + 1
        BY <2>1, <2>2, Zenon
    <2>3. CASE j # n + 1
        <3>1. j \in 1 .. n /\ r[j] = s[j]
            BY <2>3
        <3> QED BY <2>1, <3>1, <1>4 DEF Enumerates
    <2> QED BY <2>2, <2>3
<1> QED BY <1>1, <1>2, <1>3, <1>4, Zenon DEF Enumerates

\* A finite set of keys has an order.
LEMMA SortedEnumerates ==
    ASSUME NEW S \in SUBSET Int, IsFiniteSet(S) PROVE Enumerates(Sorted(S), S)
<1> DEFINE Claim(A) == \E s \in [1 .. Cardinality(A) -> A] : Enumerates(s, A)
           Q == {n \in Nat : \A A \in SUBSET Int : IsFiniteSet(A) /\ Cardinality(A) = n => Claim(A)}
<1>1. 0 \in Q
    <2> SUFFICES ASSUME NEW A \in SUBSET Int, IsFiniteSet(A), Cardinality(A) = 0 PROVE Claim(A)
        OBVIOUS
    <2>1. A = {}
        BY FS_EmptySet
    <2>2. <<>> \in [1 .. 0 -> {}] /\ Enumerates(<<>>, {})
        BY DEF Enumerates
    <2> QED BY <2>1, <2>2, Zenon
<1>2. ASSUME NEW n \in Q PROVE n + 1 \in Q
    <2> SUFFICES ASSUME NEW A \in SUBSET Int, IsFiniteSet(A), Cardinality(A) = n + 1 PROVE Claim(A)
        OBVIOUS
    <2>1. A # {}
        BY FS_EmptySet
    <2>2. PICK m \in A : \A x \in A : x <= m
        BY <2>1, MaxKey
    <2> DEFINE B == A \ {m}
    <2>3. IsFiniteSet(B) /\ Cardinality(B) = n /\ B \in SUBSET Int /\ B \cup {m} = A
        <3>1. IsFiniteSet(B) /\ Cardinality(B) = Cardinality(A) - 1
            BY <2>2, FS_RemoveElement, Zenon
        <3> QED BY <2>2, <3>1
    <2>4. Claim(B)
        BY <2>3, Zenon
    <2>5. PICK s \in [1 .. n -> B] : Enumerates(s, B)
        BY <2>3, <2>4, Zenon
    <2>6. \A x \in B : x < m
        BY <2>2
    <2>7. \E r \in [1 .. n + 1 -> B \cup {m}] : Enumerates(r, B \cup {m})
        <3> HIDE DEF B
        <3> QED BY <2>2, <2>3, <2>5, <2>6, Snoc, Zenon
    <2> QED BY <2>3, <2>7, Zenon
<1>3. Q = Nat
    <2>1. Q \in SUBSET Nat
        OBVIOUS
    <2> HIDE DEF Q
    <2> QED BY <1>1, <1>2, <2>1, AllNats
<1>4. Cardinality(S) \in Q
    BY <1>3, FS_CardinalityType
<1>5. Claim(S)
    BY <1>4
<1> QED BY <1>5, Zenon DEF Sorted

\* A key below all others is put before them.
LEMMA Cons ==
    ASSUME NEW S \in SUBSET Int, NEW s, Enumerates(s, S), NEW k \in Int, \A x \in S : k < x
    PROVE  Enumerates(<<k>> \o s, S \cup {k})
<1> DEFINE r == <<k>> \o s
<1>1. s \in Seq(S) /\ Len(s) \in Nat /\ DOMAIN s = 1 .. Len(s)
    BY DEF Enumerates
<1>2. /\ r \in Seq(S \cup {k}) /\ DOMAIN r = 1 .. Len(s) + 1
      /\ r[1] = k /\ \A i \in 1 .. Len(s) : r[i + 1] = s[i]
    BY <1>1
<1> HIDE DEF r
<1>3. ASSUME NEW x \in S \cup {k} PROVE \E i \in DOMAIN r : r[i] = x
    <2>1. CASE x = k
        BY <2>1, <1>1, <1>2
    <2>2. CASE x # k
        <3>1. PICK i \in 1 .. Len(s) : s[i] = x
            BY <2>2, <1>1 DEF Enumerates
        <3>2. i + 1 \in 1 .. Len(s) + 1
            BY <3>1, <1>1
        <3> QED BY <3>1, <3>2, <1>2
    <2> QED BY <2>1, <2>2
<1>4. ASSUME NEW i \in DOMAIN r, NEW j \in DOMAIN r, i < j PROVE r[i] < r[j]
    <2>1. j - 1 \in 1 .. Len(s) /\ r[j] = s[j - 1] /\ s[j - 1] \in S
        <3>1. j - 1 \in 1 .. Len(s) /\ (j - 1) + 1 = j
            BY <1>1, <1>2, <1>4
        <3> QED BY <3>1, <1>1, <1>2
    <2>2. CASE i = 1
        BY <2>1, <2>2, <1>2, Zenon
    <2>3. CASE i # 1
        <3>1. i - 1 \in 1 .. Len(s) /\ (i - 1) + 1 = i /\ i - 1 < j - 1
            BY <2>3, <1>1, <1>2, <1>4
        <3>2. r[i] = s[i - 1]
            BY <3>1, <1>2
        <3> QED BY <2>1, <3>1, <3>2, <1>1 DEF Enumerates
    <2> QED BY <2>2, <2>3
<1> QED BY <1>2, <1>3, <1>4, Zenon DEF Enumerates, r

\* SkipDeletedAndOverwritten stops, at the first key that is not hidden.
LEMMA SkipStops ==
    ASSUME NEW t, NEW P, Len(P) \in Nat, NEW j \in 1 .. Len(P) + 1
    PROVE  LET n == SkipDeletedAndOverwritten(t, P, j) IN
           /\ n \in j .. Len(P) + 1
           /\ n <= Len(P) => ~Hidden(t, P[n])
           /\ \A x \in j .. n - 1 : Hidden(t, P[x])
<1> DEFINE S == {n \in j .. Len(P) + 1 : n <= Len(P) => ~Hidden(t, P[n])}
<1>1. PICK n \in S : \A y \in S : n <= y
    <2>1. S \in SUBSET Nat /\ Len(P) + 1 \in S
        OBVIOUS
    <2> HIDE DEF S
    <2> QED BY <2>1, MinNat
<1>2. \A x \in j .. n - 1 : Hidden(t, P[x])
    <2> SUFFICES ASSUME NEW x \in j .. n - 1, ~Hidden(t, P[x]) PROVE FALSE
        OBVIOUS
    <2>1. x \in S /\ ~(n <= x)
        BY <1>1
    <2> QED BY <2>1, <1>1
<1>3. /\ n \in j .. Len(P) + 1
      /\ n <= Len(P) => ~Hidden(t, P[n])
      /\ \A x \in j .. n - 1 : Hidden(t, P[x])
    BY <1>1, <1>2
<1> QED BY <1>3, Zenon DEF SkipDeletedAndOverwritten

\* The positions of the two iterators, and what a step of the walk does.
Positions(T, P) == (1 .. Len(T) + 1) \X (1 .. Len(P) + 1)
Walk(t, T, P, w, p) ==
    IF p[1] > Len(T) /\ p[2] > Len(P) THEN <<>>
    ELSE IF CurIsParent(T, P, p[1], p[2])
         THEN <<P[p[2]]>> \o w[<<p[1], SkipDeletedAndOverwritten(t, P, p[2] + 1)>>]
         ELSE <<T[p[1]]>> \o w[<<p[1] + 1, p[2]>>]
IsWalk(t, T, P, w) == w = [p \in Positions(T, P) |-> Walk(t, T, P, w, p)]
Left(T, P, p) == Len(T) + Len(P) + 2 - p[1] - p[2]

\* Next advances one of the iterators and never beyond its end.
LEMMA WalkAdvances ==
    ASSUME NEW t, NEW T, NEW P, Len(T) \in Nat, Len(P) \in Nat, NEW p \in Positions(T, P),
           ~(p[1] > Len(T) /\ p[2] > Len(P))
    PROVE  LET q == IF CurIsParent(T, P, p[1], p[2])
                    THEN <<p[1], SkipDeletedAndOverwritten(t, P, p[2] + 1)>>
                    ELSE <<p[1] + 1, p[2]>>
           IN  q \in Positions(T, P) /\ Left(T, P, q) < Left(T, P, p)
<1>1. p[1] \in 1 .. Len(T) + 1 /\ p[2] \in 1 .. Len(P) + 1
    BY DEF Positions
<1>2. CASE CurIsParent(T, P, p[1], p[2])
    <2>1. p[2] + 1 \in 1 .. Len(P) + 1
        BY <1>1, <1>2 DEF CurIsParent
    <2> DEFINE n == SkipDeletedAndOverwritten(t, P, p[2] + 1)
    <2>2. n \in p[2] + 1 .. Len(P) + 1
        BY <2>1, SkipStops
    <2> HIDE DEF n
    <2>3. <<p[1], n>> \in Positions(T, P) /\ Left(T, P, <<p[1], n>>) < Left(T, P, p)
        BY <1>1, <2>2 DEF Positions, Left
    <2> QED BY <1>2, <2>3 DEF n
<1>3. CASE ~CurIsParent(T, P, p[1], p[2])
    <2>1. p[1] <= Len(T)
        BY <1>1, <1>3 DEF CurIsParent
    <2>2. <<p[1] + 1, p[2]>> \in Positions(T, P) /\ Left(T, P, <<p[1] + 1, p[2]>>) < Left(T, P, p)
        BY <1>1, <2>1 DEF Positions, Left
    <2> QED BY <1>3, <2>2
<1> QED BY <1>2, <1>3

\* The walk is defined: it ends from every position.
LEMMA WalkExists ==
    ASSUME NEW t, NEW T, NEW P, Len(T) \in Nat, Len(P) \in Nat
    PROVE  \E w : IsWalk(t, T, P, w)
<1> DEFINE D(n) == {p \in Positions(T, P) : Left(T, P, p) < n}
           Q == {n \in Nat : \E w : w = [p \in D(n) |-> Walk(t, T, P, w, p)]}
<1>l. \A p \in Positions(T, P) : Left(T, P, p) \in 0 .. Len(T) + Len(P)
    BY DEF Positions, Left
<1>1. 0 \in Q
    <2>1. D(0) = {}
        BY <1>l
    <2> DEFINE w == [p \in {} |-> <<>>]
    <2>2. w = [p \in {} |-> Walk(t, T, P, w, p)]
        OBVIOUS
    <2> QED BY <2>1, <2>2, Zenon
<1>2. ASSUME NEW n \in Q PROVE n + 1 \in Q
    <2>1. PICK w : w = [p \in D(n) |-> Walk(t, T, P, w, p)]
        BY Zenon
    <2> DEFINE v == [p \in D(n + 1) |-> Walk(t, T, P, w, p)]
    <2>2. ASSUME NEW p \in D(n) PROVE p \in D(n + 1) /\ v[p] = w[p]
        <3>1. n \in Nat /\ p \in Positions(T, P) /\ Left(T, P, p) < n /\ Left(T, P, p) \in Int
            BY <2>2, <1>l
        <3>2. p \in D(n + 1)
            BY <3>1
        <3>3. w[p] = Walk(t, T, P, w, p)
            <4> HIDE DEF D
            <4> QED BY <2>1, <2>2
        <3> QED BY <3>2, <3>3
    <2>3. ASSUME NEW p \in D(n + 1) PROVE Walk(t, T, P, w, p) = Walk(t, T, P, v, p)
        <3>1. CASE p[1] > Len(T) /\ p[2] > Len(P)
            BY <3>1, Zenon DEF Walk
        <3>2. CASE ~(p[1] > Len(T) /\ p[2] > Len(P))
            <4> DEFINE q == IF CurIsParent(T, P, p[1], p[2])
                            THEN <<p[1], SkipDeletedAndOverwritten(t, P, p[2] + 1)>>
                            ELSE <<p[1] + 1, p[2]>>
            <4>1. q \in Positions(T, P) /\ Left(T, P, q) < Left(T, P, p)
                BY <3>2, WalkAdvances, Zenon
            <4>2. n \in Nat /\ Left(T, P, p) < n + 1 /\ Left(T, P, p) \in Int
                BY <2>3, <1>l
            <4>3. Left(T, P, q) < n
                <5> HIDE DEF q
                <5>1. Left(T, P, q) \in Int
                    BY <4>1, <1>l
                <5> QED BY <4>1, <4>2, <5>1
            <4>4. q \in D(n)
                BY <4>1, <4>3
            <4>5. v[q] = w[q]
                <5> HIDE DEF q, v, D
                <5> QED BY <2>2, <4>4
            <4> HIDE DEF v, D
            <4> QED BY <4>5, <3>2, Zenon DEF Walk
        <3> QED BY <3>1, <3>2
    <2>4. v = [p \in D(n + 1) |-> Walk(t, T, P, v, p)]
        <3> HIDE DEF D
        <3>1. \A p \in D(n + 1) : Walk(t, T, P, w, p) = Walk(t, T, P, v, p)
            BY <2>3, Zenon
        <3> QED BY <3>1, Zenon
    <2>5. n + 1 \in Nat
        OBVIOUS
    <2> HIDE DEF D, v
    <2> QED BY <2>4, <2>5
<1>3. Q = Nat
    <2>1. Q \in SUBSET Nat
        OBVIOUS
    <2> HIDE DEF Q
    <2> QED BY <1>1, <1>2, <2>1, AllNats, Zenon
<1>4. Len(T) + Len(P) + 1 \in Q
    <2> HIDE DEF Q
    <2> QED BY <1>3
<1>5. D(Len(T) + Len(P) + 1) = Positions(T, P)
    BY <1>l
<1> HIDE DEF D
<1> QED BY <1>4, <1>5 DEF IsWalk

\* KeysOf is the end of that walk.
LEMMA KeysOfWalk ==
    ASSUME NEW t, NEW P, NEW key, NEW T, Len(T) \in Nat, Len(P) \in Nat,
           T = Sorted({k \in Keys : t.writes[k] # NoValue /\ k >= key})
    PROVE  \E w : /\ IsWalk(t, T, P, w)
                  /\ KeysOf(t, P, key) = w[<<1, SkipDeletedAndOverwritten(t, P, 1)>>]
<1> DEFINE w == CHOOSE f : IsWalk(t, T, P, f)
<1>1. IsWalk(t, T, P, w)
    <2>1. \E f : IsWalk(t, T, P, f)
        BY WalkExists, Zenon
    <2> QED BY <2>1, Zenon
<1>2. KeysOf(t, P, key) = w[<<1, SkipDeletedAndOverwritten(t, P, 1)>>]
    BY Zenon DEF KeysOf, Positions, Walk, IsWalk
<1> HIDE DEF w
<1> QED BY <1>1, <1>2, Zenon

\* What the iterators have before them, at a key of the parent that is not
\* hidden or at its end.
Ahead(t, T, P, p) ==
    {T[i] : i \in p[1] .. Len(T)} \cup {P[j] : j \in {x \in p[2] .. Len(P) : ~Hidden(t, P[x])}}
Stopped(t, P, p) == p[2] <= Len(P) => ~Hidden(t, P[p[2]])

\* From every position on, the walk meets what lies ahead in order.
LEMMA WalkExact ==
    ASSUME NEW t, NEW T, NEW P, NEW S \in SUBSET Int, NEW V \in SUBSET Int,
           Enumerates(T, S), Enumerates(P, V), \A k \in S : Hidden(t, k),
           NEW w, IsWalk(t, T, P, w),
           NEW p \in Positions(T, P), Stopped(t, P, p)
    PROVE  Enumerates(w[p], Ahead(t, T, P, p))
<1> DEFINE Claim(q) == Stopped(t, P, q) => Enumerates(w[q], Ahead(t, T, P, q))
           Q == {n \in Nat : \A q \in Positions(T, P) : Left(T, P, q) < n => Claim(q)}
<1>t. /\ Len(T) \in Nat /\ DOMAIN T = 1 .. Len(T) /\ \A i \in 1 .. Len(T) : T[i] \in S
      /\ Len(P) \in Nat /\ DOMAIN P = 1 .. Len(P) /\ \A i \in 1 .. Len(P) : P[i] \in V
    BY DEF Enumerates
<1>o. /\ \A i, j \in 1 .. Len(T) : i < j => T[i] < T[j]
      /\ \A i, j \in 1 .. Len(P) : i < j => P[i] < P[j]
    BY <1>t, Zenon DEF Enumerates
<1>l. \A q \in Positions(T, P) : Left(T, P, q) \in 0 .. Len(T) + Len(P)
    <2>1. Len(T) \in Nat /\ Len(P) \in Nat
        BY <1>t, Zenon
    <2> QED BY <2>1 DEF Positions, Left
<1>a. \A q \in Positions(T, P) : Ahead(t, T, P, q) \in SUBSET Int
    <2> SUFFICES ASSUME NEW q \in Positions(T, P), NEW x \in Ahead(t, T, P, q) PROVE x \in Int
        BY Zenon
    <2>1. q[1] \in 1 .. Len(T) + 1 /\ q[2] \in 1 .. Len(P) + 1
        BY DEF Positions
    <2>2. \/ \E i \in q[1] .. Len(T) : x = T[i]
          \/ \E j \in q[2] .. Len(P) : x = P[j]
        BY Zenon DEF Ahead
    <2>3. \A i \in q[1] .. Len(T) : i \in 1 .. Len(T)
        BY <2>1, <1>t
    <2>4. \A j \in q[2] .. Len(P) : j \in 1 .. Len(P)
        BY <2>1, <1>t
    <2>5. x \in S \/ x \in V
        BY <2>2, <2>3, <2>4, <1>t, Zenon
    <2> QED BY <2>5, Zenon
<1>1. 0 \in Q
    BY <1>l
<1>2. ASSUME NEW n \in Q PROVE n + 1 \in Q
    <2> SUFFICES ASSUME NEW q \in Positions(T, P), Left(T, P, q) < n + 1, Stopped(t, P, q)
                 PROVE  Enumerates(w[q], Ahead(t, T, P, q))
        OBVIOUS
    <2> DEFINE i == q[1]
               j == q[2]
    <2>1. i \in 1 .. Len(T) + 1 /\ j \in 1 .. Len(P) + 1 /\ q = <<i, j>>
        BY DEF Positions
    <2>2. w[q] = Walk(t, T, P, w, q)
        BY Zenon DEF IsWalk
    <2>3. ASSUME NEW r \in Positions(T, P), Left(T, P, r) < Left(T, P, q), Stopped(t, P, r)
          PROVE  Enumerates(w[r], Ahead(t, T, P, r)) /\ Ahead(t, T, P, r) \in SUBSET Int
        <3>1. Left(T, P, r) < n
            BY <2>3, <1>l
        <3> QED BY <2>3, <3>1, <1>a
    <2>4. CASE i > Len(T) /\ j > Len(P)
        <3>1. w[q] = <<>>
            BY <2>2, <2>4 DEF Walk
        <3>2. Ahead(t, T, P, q) = {}
            BY <2>1, <2>4, <1>t DEF Ahead
        <3>3. Enumerates(<<>>, {})
            BY DEF Enumerates
        <3> QED BY <3>1, <3>2, <3>3
    <2>5. CASE ~(i > Len(T) /\ j > Len(P)) /\ CurIsParent(T, P, i, j)
        <3> DEFINE m == SkipDeletedAndOverwritten(t, P, j + 1)
                   r == <<i, m>>
        <3>1. j \in 1 .. Len(P) /\ ~Hidden(t, P[j])
            BY <2>1, <2>5, <1>t DEF CurIsParent, Stopped
        <3>2. /\ m \in j + 1 .. Len(P) + 1
              /\ m <= Len(P) => ~Hidden(t, P[m])
              /\ \A x \in j + 1 .. m - 1 : Hidden(t, P[x])
            <4>1. j + 1 \in 1 .. Len(P) + 1
                BY <3>1, <1>t
            <4> QED BY <4>1, <1>t, SkipStops, Zenon
        <3>3. w[q] = <<P[j]>> \o w[r]
            BY <2>2, <2>5, Zenon DEF Walk
        <3> HIDE DEF m
        <3>4. r \in Positions(T, P) /\ Left(T, P, r) < Left(T, P, q) /\ Stopped(t, P, r)
            <4>1. r[1] = i /\ r[2] = m
                OBVIOUS
            <4>2. r \in Positions(T, P)
                BY <2>1, <3>2 DEF Positions
            <4> HIDE DEF r
            <4>3. Left(T, P, r) < Left(T, P, q)
                <5>1. /\ Left(T, P, r) = Len(T) + Len(P) + 2 - i - m
                      /\ Left(T, P, q) = Len(T) + Len(P) + 2 - i - j
                    BY <4>1, Zenon DEF Left
                <5>2. i \in Nat /\ j \in Nat /\ m \in Nat /\ Len(T) \in Nat /\ Len(P) \in Nat /\ j < m
                    BY <2>1, <3>1, <3>2, <1>t
                <5> HIDE DEF i, j
                <5> QED BY <5>1, <5>2
            <4> QED BY <3>2, <4>1, <4>2, <4>3 DEF Stopped
        <3>5. \A x \in Ahead(t, T, P, r) : P[j] < x
            <4>1. ASSUME NEW y \in i .. Len(T) PROVE P[j] < T[y]
                <5>1. i \in 1 .. Len(T) /\ y \in 1 .. Len(T)
                    BY <2>1, <4>1, <1>t
                <5>2. ~(T[i] < P[j]) /\ T[i] # P[j] /\ T[i] \in Int /\ P[j] \in Int /\ T[y] \in Int
                    <6>1. T[i] \in S /\ P[j] \in V /\ T[y] \in S
                        BY <5>1, <3>1, <1>t
                    <6>2. T[i] # P[j]
                        BY <6>1, <3>1, Zenon
                    <6>3. ~(T[i] < P[j])
                        BY <5>1, <2>5, <1>t DEF CurIsParent
                    <6> QED BY <6>1, <6>2, <6>3, Zenon
                <5>3. i = y \/ T[i] < T[y]
                    BY <5>1, <4>1, <1>o
                <5> QED BY <5>2, <5>3
            <4>2. ASSUME NEW y \in m .. Len(P) PROVE P[j] < P[y]
                BY <3>1, <3>2, <1>t, <1>o
            <4> QED BY <4>1, <4>2, <1>t DEF Ahead
        <3>6. Ahead(t, T, P, q) = Ahead(t, T, P, r) \cup {P[j]}
            <4>1. {x \in j .. Len(P) : ~Hidden(t, P[x])}
                    = {x \in m .. Len(P) : ~Hidden(t, P[x])} \cup {j}
                <5>1. \A x \in j .. Len(P) : x = j \/ x \in j + 1 .. m - 1 \/ x \in m .. Len(P)
                    BY <3>1, <3>2, <1>t
                <5>2. j \in j .. Len(P) /\ \A x \in m .. Len(P) : x \in j .. Len(P)
                    BY <3>1, <3>2, <1>t
                <5> QED BY <5>1, <5>2, <3>1, <3>2, Zenon
            <4> QED BY <4>1, <2>1 DEF Ahead
        <3>7. P[j] \in Int
            BY <3>1, <1>t, Zenon
        <3> HIDE DEF r
        <3>8. Enumerates(w[r], Ahead(t, T, P, r)) /\ Ahead(t, T, P, r) \in SUBSET Int
            BY <2>3, <3>4, Zenon
        <3>9. Enumerates(<<P[j]>> \o w[r], Ahead(t, T, P, r) \cup {P[j]})
            BY <3>5, <3>7, <3>8, Cons, Zenon
        <3> QED BY <3>3, <3>6, <3>9, Zenon
    <2>6. CASE ~(i > Len(T) /\ j > Len(P)) /\ ~CurIsParent(T, P, i, j)
        <3> DEFINE r == <<i + 1, j>>
        <3>1. i \in 1 .. Len(T)
            BY <2>1, <2>6, <1>t DEF CurIsParent
        <3>2. w[q] = <<T[i]>> \o w[r]
            BY <2>2, <2>6, Zenon DEF Walk
        <3>3. r \in Positions(T, P) /\ Left(T, P, r) < Left(T, P, q) /\ Stopped(t, P, r)
            <4>1. r[1] = i + 1 /\ r[2] = j
                OBVIOUS
            <4>2. r \in Positions(T, P)
                BY <2>1, <3>1, <1>t DEF Positions
            <4> HIDE DEF r
            <4>3. Left(T, P, r) < Left(T, P, q)
                <5>1. /\ Left(T, P, r) = Len(T) + Len(P) + 2 - (i + 1) - j
                      /\ Left(T, P, q) = Len(T) + Len(P) + 2 - i - j
                    BY <4>1, Zenon DEF Left
                <5>2. i \in Nat /\ j \in Nat /\ Len(T) \in Nat /\ Len(P) \in Nat
                    BY <2>1, <3>1, <1>t
                <5> HIDE DEF i, j
                <5> QED BY <5>1, <5>2
            <4> QED BY <4>1, <4>2, <4>3 DEF Stopped
        <3>4. \A x \in Ahead(t, T, P, r) : T[i] < x
            <4>1. ASSUME NEW y \in i + 1 .. Len(T) PROVE T[i] < T[y]
                BY <3>1, <1>t, <1>o
            <4>2. ASSUME NEW y \in j .. Len(P) PROVE T[i] < P[y]
                <5>1. j \in 1 .. Len(P) /\ y \in 1 .. Len(P)
                    BY <2>1, <4>2, <1>t
                <5>2. T[i] < P[j] /\ T[i] \in Int /\ P[j] \in Int /\ P[y] \in Int
                    <6>1. T[i] \in S /\ P[j] \in V /\ P[y] \in V
                        BY <5>1, <3>1, <1>t
                    <6>2. T[i] < P[j]
                        BY <5>1, <2>6, <1>t DEF CurIsParent
                    <6> QED BY <6>1, <6>2, Zenon
                <5>3. j = y \/ P[j] < P[y]
                    BY <5>1, <4>2, <1>o
                <5> QED BY <5>2, <5>3
            <4> QED BY <4>1, <4>2, <1>t DEF Ahead
        <3>5. Ahead(t, T, P, q) = Ahead(t, T, P, r) \cup {T[i]}
            <4>1. i .. Len(T) = (i + 1 .. Len(T)) \cup {i}
                BY <3>1, <1>t
            <4> QED BY <4>1, <2>1 DEF Ahead
        <3>6. T[i] \in Int
            BY <3>1, <1>t, Zenon
        <3> HIDE DEF r
        <3>7. Enumerates(w[r], Ahead(t, T, P, r)) /\ Ahead(t, T, P, r) \in SUBSET Int
            BY <2>3, <3>3, Zenon
        <3>8. Enumerates(<<T[i]>> \o w[r], Ahead(t, T, P, r) \cup {T[i]})
            BY <3>4, <3>6, <3>7, Cons, Zenon
        <3> QED BY <3>2, <3>5, <3>8, Zenon
    <2> QED BY <2>4, <2>5, <2>6
<1>3. Q = Nat
    <2>1. Q \in SUBSET Nat
        OBVIOUS
    <2> HIDE DEF Q
    <2> QED BY <1>1, <1>2, <2>1, AllNats, Zenon
<1>4. Len(T) + Len(P) + 1 \in Q
    <2> HIDE DEF Q
    <2> QED BY <1>3, <1>t
<1>5. Left(T, P, p) < Len(T) + Len(P) + 1
    BY <1>l, <1>t
<1> QED BY <1>4, <1>5

\* One iterator over an exact one is exact.
LEMMA KeysOfExact ==
    ASSUME NEW t \in Layers, Disjoint(t), NEW m \in Maps, NEW key \in Keys,
           NEW P, Enumerates(P, KeysFrom(m, key))
    PROVE  Enumerates(KeysOf(t, P, key), KeysFrom(Over(t, m), key))
<1> DEFINE S == {k \in Keys : t.writes[k] # NoValue /\ k >= key}
           V == KeysFrom(m, key)
           T == Sorted(S)
<1>1. S \in SUBSET Int /\ IsFiniteSet(S) /\ V \in SUBSET Int
    BY KeysAssumption, FS_Subset DEF KeysFrom
<1>2. Enumerates(T, S)
    <2> HIDE DEF S
    <2> QED BY <1>1, SortedEnumerates
<1>3. Len(T) \in Nat /\ Len(P) \in Nat
    <2> HIDE DEF T
    <2> QED BY <1>2 DEF Enumerates
<1>4. PICK w : /\ IsWalk(t, T, P, w)
               /\ KeysOf(t, P, key) = w[<<1, SkipDeletedAndOverwritten(t, P, 1)>>]
    BY <1>3, KeysOfWalk, Zenon
<1> DEFINE n == SkipDeletedAndOverwritten(t, P, 1)
           p == <<1, n>>
<1>5. /\ n \in 1 .. Len(P) + 1
      /\ n <= Len(P) => ~Hidden(t, P[n])
      /\ \A x \in 1 .. n - 1 : Hidden(t, P[x])
    <2>1. 1 \in 1 .. Len(P) + 1
        BY <1>3
    <2> QED BY <2>1, <1>3, SkipStops, Zenon
<1>6. \A k \in S : Hidden(t, k)
    BY DEF Hidden
<1> HIDE DEF n, T
<1>7. p \in Positions(T, P) /\ Stopped(t, P, p)
    BY <1>3, <1>5 DEF Positions, Stopped
<1>8. Enumerates(w[p], Ahead(t, T, P, p))
    <2> HIDE DEF S, V, p
    <2> QED BY <1>1, <1>2, <1>4, <1>6, <1>7, WalkExact DEF V
<1>9. Ahead(t, T, P, p) = S \cup {k \in V : ~Hidden(t, k)}
    <2>1. {T[i] : i \in 1 .. Len(T)} = S
        <3> HIDE DEF S
        <3> QED BY <1>2, <1>3 DEF Enumerates
    <2>2. {P[j] : j \in {x \in n .. Len(P) : ~Hidden(t, P[x])}} = {k \in V : ~Hidden(t, k)}
        <3>1. DOMAIN P = 1 .. Len(P) /\ \A x \in 1 .. Len(P) : P[x] \in V
            BY DEF Enumerates
        <3>2. \A k \in V : \E x \in 1 .. Len(P) : P[x] = k
            BY <3>1 DEF Enumerates
        <3>3. \A x \in 1 .. Len(P) : ~Hidden(t, P[x]) => x \in n .. Len(P)
            BY <1>3, <1>5
        <3>4. n .. Len(P) \subseteq 1 .. Len(P)
            BY <1>3, <1>5
        <3> HIDE DEF V
        <3> QED BY <3>1, <3>2, <3>3, <3>4, Zenon
    <2> QED BY <2>1, <2>2 DEF Ahead
<1>10. KeysFrom(Over(t, m), key) = S \cup {k \in V : ~Hidden(t, k)}
    BY EvoAssumption, Zenon DEF KeysFrom, Over, Hidden, Disjoint, Layers, Maps
<1> QED BY <1>4, <1>8, <1>9, <1>10 DEF n

\* In every state outside a flush CDBTransactionIterator, over both layers and
\* from any key on, meets the keys that Read would find, once and in order.
THEOREM IteratorIsExact == Spec => []IteratorExact
<1>1. IInv => IteratorExact
    <2> SUFFICES ASSUME IInv, NEW key \in Keys
                 PROVE  Enumerates(KeysOf(cur, KeysOf(root, Sorted(KeysFrom(disk, key)), key), key),
                                   KeysFrom(Over(cur, Over(root, disk)), key))
        BY Zenon DEF IteratorExact
    <2>1. disk \in Maps /\ root \in Layers /\ Disjoint(root) /\ cur \in Layers /\ Disjoint(cur)
        BY TypeParts, Zenon DEF IInv
    <2>2. KeysFrom(disk, key) \in SUBSET Int /\ IsFiniteSet(KeysFrom(disk, key))
        BY KeysAssumption, FS_Subset, Zenon DEF KeysFrom
    <2>3. Enumerates(Sorted(KeysFrom(disk, key)), KeysFrom(disk, key))
        BY <2>2, SortedEnumerates, Zenon
    <2>4. Enumerates(KeysOf(root, Sorted(KeysFrom(disk, key)), key), KeysFrom(Over(root, disk), key))
        BY <2>1, <2>3, KeysOfExact, Zenon
    <2>5. Over(root, disk) \in Maps
        BY <2>1, OverMap, Zenon
    <2> QED BY <2>1, <2>4, <2>5, KeysOfExact, Zenon
<1> QED BY Invariance, <1>1, PTL
=============================================================================
