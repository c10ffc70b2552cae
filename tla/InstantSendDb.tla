--------------------------- MODULE InstantSendDb ---------------------------
(***************************************************************************)
(* The two stores of CInstantSendManager (src/llmq/quorums_instantsend.cpp)*)
(* as functions from the store to the store after a call.                  *)
(*                                                                         *)
(* A CInstantSendDb is a record: lock, the is_i keys; tx and in, the locks *)
(* under the is_tx and is_in keys; mined, the is_m keys; archived, the     *)
(* is_a1 keys; seen, the is_a2 keys.  Its caches are used under the lock   *)
(* of the manager only and always agree with it.  A lock is known by its   *)
(* hash and locks the inputs of its transaction.                           *)
(*                                                                         *)
(* nonLockedTxs and nonLockedTxsByOutpoints are a record too: entry, the   *)
(* keys of the first; known, those whose entry holds the transaction;      *)
(* mined, the pindexMined; children; and out, the second map.              *)
(***************************************************************************)
EXTENDS Integers, FiniteSets

CONSTANTS
    Txs,        \* the transactions
    Outpoints,  \* what they spend
    Inputs,     \* Inputs[t]: vin of t
    Owner,      \* Owner[o]: the transaction that has o as an output
    Locks,      \* the islocks a quorum may sign
    LockTx,     \* their txid
    Null        \* nullptr, a null hash

ASSUME TxAssumption ==
    /\ Inputs \in [Txs -> SUBSET Outpoints]
    /\ Owner \in [Outpoints -> Txs]
    /\ LockTx \in [Locks -> Txs]
    /\ Null \notin Txs /\ Null \notin Locks

\* A quorum signs one lock of a transaction, and locks do not share an input.
\* ProcessInstantSendLock only logs locks that do.
ASSUME LocksAgree ==
    \A l, m \in Locks : l # m => LockTx[l] # LockTx[m] /\ Inputs[LockTx[l]] \cap Inputs[LockTx[m]] = {}

Conflicting(t) == {x \in Txs \ {t} : Inputs[x] \cap Inputs[t] # {}}
Parents(t) == {Owner[o] : o \in Inputs[t]}

-----------------------------------------------------------------------------
EmptyDb ==
    [lock |-> {}, tx |-> [t \in Txs |-> Null], in |-> [o \in Outpoints |-> Null],
     mined |-> {}, archived |-> {}, seen |-> {}]

WriteNewInstantSendLock(d, l) ==
    [d EXCEPT !.lock = @ \cup {l},
              !.tx = [d.tx EXCEPT ![LockTx[l]] = l],
              !.in = [o \in Outpoints |-> IF o \in Inputs[LockTx[l]] THEN l ELSE d.in[o]]]

\* Mutant: the is_in keys stay.
M_RemoveKeepsInputs(d, S) ==
    LET gone == {LockTx[l] : l \in S \cap d.lock}
    IN  [d EXCEPT !.lock = @ \ S, !.tx = [t \in Txs |-> IF t \in gone THEN Null ELSE d.tx[t]]]

\* RemoveInstantSendLock of the locks of S that are there, in one batch.
RemoveInstantSendLocks(d, S) ==
    LET gone == {LockTx[l] : l \in S \cap d.lock}
        free == UNION {Inputs[t] : t \in gone}
    IN  [d EXCEPT !.lock = @ \ S,
                  !.tx = [t \in Txs |-> IF t \in gone THEN Null ELSE d.tx[t]],
                  !.in = [o \in Outpoints |-> IF o \in free THEN Null ELSE d.in[o]]]

WriteInstantSendLockMined(d, l, h) == [d EXCEPT !.mined = @ \cup {<<h, l>>}]
RemoveInstantSendLockMined(d, keys) == [d EXCEPT !.mined = @ \ keys]

WriteInstantSendLockArchived(d, keys) ==
    [d EXCEPT !.archived = @ \cup keys, !.seen = @ \cup {k[2] : k \in keys}]

Confirmed(d, until) == {k \in d.mined : k[1] <= until}

RemoveConfirmedInstantSendLocks(d, until) ==
    LET keys == Confirmed(d, until)
        kept == RemoveInstantSendLocks(d, {k[2] : k \in keys})
    IN  [WriteInstantSendLockArchived(kept, keys) EXCEPT !.mined = @ \ keys]

RemoveArchivedInstantSendLocks(d, until) ==
    LET keys == {k \in d.archived : k[1] <= until}
    IN  [d EXCEPT !.archived = @ \ keys, !.seen = @ \ {k[2] : k \in keys}]

GetInstantSendLockByTxid(d, t) == IF d.tx[t] \in d.lock THEN d.tx[t] ELSE Null

\* The locks of inputs of t that lock another transaction.
GetConflictingLocks(d, t) ==
    {l \in d.lock : LockTx[l] # t /\ \E o \in Inputs[t] : d.in[o] = l}

GetInstantSendLocksByParent(d, t) ==
    {d.in[o] : o \in {x \in Outpoints : Owner[x] = t}} \cap d.lock

\* The locks that RemoveChainedInstantSendLocks meets on its stack: those of
\* transactions that spend outputs of the locked one, and so on.
Chained(d, l) ==
    {x \in d.lock : \A S \in SUBSET d.lock :
        (/\ GetInstantSendLocksByParent(d, LockTx[l]) \subseteq S
         /\ \A y \in S : GetInstantSendLocksByParent(d, LockTx[y]) \subseteq S) => x \in S}

\* The lock and those that build on it, archived at height h.
RemoveChainedInstantSendLocks(d, l, h) ==
    LET all == Chained(d, l) \cup {l}
    IN  WriteInstantSendLockArchived(RemoveInstantSendLocks(d, all), {h} \X all)

-----------------------------------------------------------------------------
NoNonLockedTxs ==
    [entry |-> {}, known |-> {}, mined |-> [t \in Txs |-> Null],
     children |-> [t \in Txs |-> {}], out |-> [o \in Outpoints |-> Null]]

\* Mutant: pindexMined is set for new entries only.
M_AddKeepsMined(n, t, b) ==
    LET first == t \notin n.known IN
    [entry |-> n.entry \cup {t} \cup (IF first THEN Parents(t) ELSE {}),
     known |-> n.known \cup {t},
     mined |-> IF first THEN [n.mined EXCEPT ![t] = b] ELSE n.mined,
     children |-> [p \in Txs |-> IF first /\ p \in Parents(t) THEN n.children[p] \cup {t}
                                 ELSE n.children[p]],
     out |-> [o \in Outpoints |-> IF t \notin n.entry /\ o \in Inputs[t] /\ n.out[o] = Null THEN t
                                  ELSE n.out[o]]]

\* The parents get an entry when they have none.  The inputs are indexed only
\* if the entry of t is new.
AddNonLockedTx(n, t, b) ==
    LET first == t \notin n.known IN
    [entry |-> n.entry \cup {t} \cup (IF first THEN Parents(t) ELSE {}),
     known |-> n.known \cup {t},
     mined |-> [n.mined EXCEPT ![t] = b],
     children |-> [p \in Txs |-> IF first /\ p \in Parents(t) THEN n.children[p] \cup {t}
                                 ELSE n.children[p]],
     out |-> [o \in Outpoints |-> IF t \notin n.entry /\ o \in Inputs[t] /\ n.out[o] = Null THEN t
                                  ELSE n.out[o]]]

\* Mutant: entries whose last child goes are left behind.
M_RemoveKeepsEmpty(n, S) ==
    LET gone == S \cap n.known
        entry == n.entry \ S
    IN  [entry |-> entry,
         known |-> n.known \ S,
         mined |-> [t \in Txs |-> IF t \in S THEN Null ELSE n.mined[t]],
         children |-> [p \in Txs |-> IF p \in entry THEN n.children[p] \ gone ELSE {}],
         out |-> [o \in Outpoints |-> IF \E t \in gone : o \in Inputs[t] THEN Null ELSE n.out[o]]]

\* RemoveNonLockedTx of every transaction of S: its entry goes, and so do the
\* entries that were there for its children alone.
RemoveNonLockedTxs(n, S) ==
    LET gone == S \cap n.known
        left == [p \in Txs |-> n.children[p] \ {t \in gone : p \in Parents(t)}]
        empty == {p \in n.entry \ n.known : left[p] = {} /\ left[p] # n.children[p]}
        entry == n.entry \ (S \cup empty)
    IN  [entry |-> entry,
         known |-> n.known \ S,
         mined |-> [t \in Txs |-> IF t \in S THEN Null ELSE n.mined[t]],
         children |-> [p \in Txs |-> IF p \in entry THEN left[p] ELSE {}],
         out |-> [o \in Outpoints |-> IF \E t \in gone : o \in Inputs[t] THEN Null ELSE n.out[o]]]

\* What RemoveNonLockedTx with retryChildren adds to pendingRetryTxs.
ChildrenToRetry(n, S) == UNION {n.children[t] : t \in S \cap n.entry}
=============================================================================
