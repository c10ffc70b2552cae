------------------------------- MODULE EvoDB -------------------------------
(***************************************************************************)
(* CEvoDB (src/evo/evodb.{h,cpp}) and its CDBTransactions                  *)
(* (src/dbwrapper.h): the database of deterministic smartnode lists and    *)
(* mined quorum commitments, behind two layers of memory.  The current     *)
(* transaction collects what one block does, the root transaction what has *)
(* been done since the last flush.  All writers hold cs_main.              *)
(***************************************************************************)
EXTENDS Integers

CONSTANTS Keys, Values, NoValue

ASSUME EvoAssumption == NoValue \notin Values

VARIABLES
    disk,       \* db
    rootBatch,  \* the CDBBatch of the flush in progress
    root,       \* rootDBTransaction
    cur,        \* curDBTransaction
    open,       \* a CEvoDBScopedCommitter exists
    flushing    \* CommitRootTransaction is between Commit and WriteBatch

vars == <<disk, rootBatch, root, cur, open, flushing>>

-----------------------------------------------------------------------------
(***************************************************************************)
(* CDBTransaction: writes, where NoValue stands for no entry, and deletes. *)
(***************************************************************************)
Layers == [writes : [Keys -> Values \cup {NoValue}], deletes : SUBSET Keys]
Empty == [writes |-> [k \in Keys |-> NoValue], deletes |-> {}]
IsClean(t) == t = Empty

\* Read: what a reader finds in t when the layers below hold the map m.
Over(t, m) ==
    [k \in Keys |-> IF k \in t.deletes THEN NoValue
                    ELSE IF t.writes[k] # NoValue THEN t.writes[k] ELSE m[k]]

\* Mutant: a key that was erased before stays in deletes.
M_WrittenKeepsDelete(t, k, v) == [t EXCEPT !.writes[k] = v]

Written(t, k, v) ==
    [writes |-> [t.writes EXCEPT ![k] = v], deletes |-> t.deletes \ {k}]

Erased(t, k) ==
    [writes |-> [t.writes EXCEPT ![k] = NoValue], deletes |-> t.deletes \cup {k}]

\* Mutant: deletes only cancel writes of the target.
M_CommittedDropsDeletes(t, target) ==
    [writes |-> [k \in Keys |-> IF t.writes[k] # NoValue THEN t.writes[k]
                                ELSE IF k \in t.deletes THEN NoValue ELSE target.writes[k]],
     deletes |-> {k \in target.deletes : t.writes[k] = NoValue}]

\* Commit: the deletes and then the writes of t are applied to the target.
Committed(t, target) ==
    [writes |-> [k \in Keys |-> IF t.writes[k] # NoValue THEN t.writes[k]
                                ELSE IF k \in t.deletes THEN NoValue ELSE target.writes[k]],
     deletes |-> {k \in target.deletes \cup t.deletes : t.writes[k] = NoValue}]

-----------------------------------------------------------------------------
(***************************************************************************)
(* CEvoDB.                                                                 *)
(***************************************************************************)
Init ==
    /\ disk = [k \in Keys |-> NoValue]
    /\ rootBatch = Empty /\ root = Empty /\ cur = Empty
    /\ open = FALSE /\ flushing = FALSE

BeginTransaction ==
    /\ ~open /\ ~flushing
    /\ open' = TRUE
    /\ UNCHANGED <<disk, rootBatch, root, cur, flushing>>

Write(k, v) ==
    /\ open
    /\ cur' = Written(cur, k, v)
    /\ UNCHANGED <<disk, rootBatch, root, open, flushing>>

Erase(k) ==
    /\ open
    /\ cur' = Erased(cur, k)
    /\ UNCHANGED <<disk, rootBatch, root, open, flushing>>

CommitCurTransaction ==
    /\ open
    /\ root' = Committed(cur, root)
    /\ cur' = Empty /\ open' = FALSE
    /\ UNCHANGED <<disk, rootBatch, flushing>>

\* Mutant: only the writes are cleared.
M_RollbackKeepsDeletes ==
    /\ open
    /\ cur' = [cur EXCEPT !.writes = Empty.writes] /\ open' = FALSE
    /\ UNCHANGED <<disk, rootBatch, root, flushing>>

\* Also what the destructor of the committer does.
RollbackCurTransaction ==
    /\ open
    /\ cur' = Empty /\ open' = FALSE
    /\ UNCHANGED <<disk, rootBatch, root, flushing>>

\* CommitRootTransaction empties the root transaction into the batch ...
CommitRootTransaction ==
    /\ ~open /\ ~flushing
    /\ rootBatch' = Committed(root, rootBatch)
    /\ root' = Empty /\ flushing' = TRUE
    /\ UNCHANGED <<disk, cur, open>>

\* ... and writes and clears the batch.
WriteBatch ==
    /\ flushing
    /\ disk' = Over(rootBatch, disk)
    /\ rootBatch' = Empty /\ flushing' = FALSE
    /\ UNCHANGED <<root, cur, open>>

Crash ==
    /\ rootBatch' = Empty /\ root' = Empty /\ cur' = Empty
    /\ open' = FALSE /\ flushing' = FALSE
    /\ UNCHANGED disk

Next ==
    \/ BeginTransaction
    \/ \E k \in Keys : Erase(k) \/ \E v \in Values : Write(k, v)
    \/ CommitCurTransaction \/ RollbackCurTransaction
    \/ CommitRootTransaction \/ WriteBatch
    \/ Crash

Spec == Init /\ [][Next]_vars

-----------------------------------------------------------------------------
(***************************************************************************)
(* Properties.                                                             *)
(***************************************************************************)
\* The layers hold entries of their types, and no layer both writes and
\* deletes a key.
TypeOK ==
    /\ disk \in [Keys -> Values \cup {NoValue}]
    /\ \A t \in {rootBatch, root, cur} :
          t \in Layers /\ \A k \in t.deletes : t.writes[k] = NoValue
    /\ open \in BOOLEAN /\ flushing \in BOOLEAN

\* The assertion of CommitRootTransaction: nothing of a block that failed or
\* has not ended can slip into a flush, because a closed transaction is clean.
CleanWhenClosed == ~open => IsClean(cur)

\* The layers, with commits, rollbacks, flushes and crashes between any two
\* steps, implement a plain map with a visible, a committed and a durable
\* version.
Nested == INSTANCE NestedStore
    WITH visible <- Over(cur, Over(root, Over(rootBatch, disk))),
         committed <- Over(root, Over(rootBatch, disk)),
         durable <- disk
ImplementsNestedStore == Nested!Spec
=============================================================================
