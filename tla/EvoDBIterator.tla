--------------------------- MODULE EvoDBIterator ---------------------------
(***************************************************************************)
(* CDBTransactionIterator (src/dbwrapper.h): the walk over the keys of a   *)
(* transaction and of what lies below it, in key order.                    *)
(***************************************************************************)
EXTENDS EvoDB, FiniteSets, Sequences

ASSUME KeysAssumption == IsFiniteSet(Keys) /\ Keys \subseteq Int

\* s has the members of S, once each and in order.
Enumerates(s, S) ==
    /\ s \in Seq(S)
    /\ \A x \in S : \E i \in DOMAIN s : s[i] = x
    /\ \A i, j \in DOMAIN s : i < j => s[i] < s[j]

\* The order in which a map, or LevelDB, goes through a set of keys.
Sorted(S) == CHOOSE s \in [1 .. Cardinality(S) -> S] : Enumerates(s, S)

\* Mutant: overwritten keys of the parent are not skipped.
M_HiddenIfDeleted(t, k) == k \in t.deletes

\* A key of the parent that t deletes or overwrites.
Hidden(t, k) == k \in t.deletes \/ t.writes[k] # NoValue

\* The first position of the parent's keys P from j on whose key is not hidden,
\* or the end.
SkipDeletedAndOverwritten(t, P, j) ==
    CHOOSE n \in j .. Len(P) + 1 :
        /\ n <= Len(P) => ~Hidden(t, P[n])
        /\ \A x \in j .. n - 1 : Hidden(t, P[x])

\* DecideCur, at position i of the keys T of the transaction and j of P.
CurIsParent(T, P, i, j) == i > Len(T) \/ (j <= Len(P) /\ ~(T[i] < P[j]))

\* The keys that Next meets after Seek(key) for a transaction t whose parent's
\* iterator meets P after Seek(key).
KeysOf(t, P, key) ==
    LET T == Sorted({k \in Keys : t.writes[k] # NoValue /\ k >= key})
        walk[p \in (1 .. Len(T) + 1) \X (1 .. Len(P) + 1)] ==
            IF p[1] > Len(T) /\ p[2] > Len(P) THEN <<>>
            ELSE IF CurIsParent(T, P, p[1], p[2])
                 THEN <<P[p[2]]>> \o walk[<<p[1], SkipDeletedAndOverwritten(t, P, p[2] + 1)>>]
                 ELSE <<T[p[1]]>> \o walk[<<p[1] + 1, p[2]>>]
    IN  walk[<<1, SkipDeletedAndOverwritten(t, P, 1)>>]

\* The keys that a read would find in m from key on.
KeysFrom(m, key) == {k \in Keys : m[k] # NoValue /\ k >= key}

\* After Seek the iterator over both transactions meets every key from there on
\* that a read would find, once and in order, and no other.  (SeekToFirst is
\* Seek to the least key.)
IteratorExact ==
    ~flushing =>
        \A key \in Keys :
            Enumerates(KeysOf(cur, KeysOf(root, Sorted(KeysFrom(disk, key)), key), key),
                       KeysFrom(Over(cur, Over(root, disk)), key))
=============================================================================
