------------------------- MODULE InstantSendProofs -------------------------
(***************************************************************************)
(* The stores of CInstantSendManager stay consistent for every set of      *)
(* transactions, locks and blocks: IndexesExact and NonLockedLinked of     *)
(* module InstantSend are invariants.  The operators keep both for any     *)
(* argument (Exact and Linked); Holders adds what an action knows of       *)
(* its arguments: the threads hold locks, the holder of cs_main a          *)
(* transaction, and the ConnectTrace consists of blocks.  TypeOK follows   *)
(* with four more invariants, and UnconcernedTracked, in the last part,    *)
(* with another four.                                                      *)
(***************************************************************************)
EXTENDS InstantSend, BlockTreeProofs

\* Zenon proves every leaf that names no other prover.
USE Zenon

-----------------------------------------------------------------------------
(***************************************************************************)
(* What the operators of InstantSendDb keep.  Exact and Linked say of a    *)
(* store what IndexesExact and NonLockedLinked say of db and nl, with the  *)
(* types the operators need; both are closed under every operator.         *)
(***************************************************************************)

USE TxAssumption, ChainAssumption

\* A record with the fields of a CInstantSendDb.
IsDb(d) ==
    /\ DOMAIN d = {"lock", "tx", "in", "mined", "archived", "seen"}
    /\ d.lock \subseteq Locks
    /\ d.tx \in [Txs -> Locks \cup {Null}] /\ d.in \in [Outpoints -> Locks \cup {Null}]

Exact(d) ==
    /\ IsDb(d)
    /\ \A t \in Txs : d.tx[t] # Null => d.tx[t] \in d.lock /\ LockTx[d.tx[t]] = t
    /\ \A o \in Outpoints : d.in[o] # Null => d.in[o] \in d.lock /\ o \in Inputs[LockTx[d.in[o]]]
    /\ \A l \in d.lock : d.tx[LockTx[l]] = l /\ \A o \in Inputs[LockTx[l]] : d.in[o] = l

Linked(n) ==
    /\ n \in NonLocked
    /\ n.known \subseteq n.entry
    /\ \A p \in Txs : \A x \in n.children[p] : x \in n.known /\ p \in Parents(x) /\ p \in n.entry
    /\ \A p \in n.entry \ n.known : n.children[p] # {}
    /\ \A o \in Outpoints : n.out[o] # Null => n.out[o] \in n.known /\ o \in Inputs[n.out[o]]
    /\ \A t \in Txs \ n.known : n.mined[t] = Null

-----------------------------------------------------------------------------
(* The lock database. *)

\* What leaves the is_i, is_tx and is_in keys alone keeps the indexes exact.
LEMMA SameIndexes ==
    ASSUME NEW d, Exact(d), NEW e,
           DOMAIN e = DOMAIN d, e.lock = d.lock, e.tx = d.tx, e.in = d.in
    PROVE  Exact(e)
BY SMT DEF Exact, IsDb

\* WriteNewInstantSendLock of any lock keeps the indexes exact.
LEMMA WriteNewExact ==
    ASSUME NEW d, Exact(d), NEW l \in Locks
    PROVE  Exact(WriteNewInstantSendLock(d, l))
<1> DEFINE e == WriteNewInstantSendLock(d, l)
<1>1. /\ e.lock = d.lock \cup {l}
      /\ e.tx = [d.tx EXCEPT ![LockTx[l]] = l]
      /\ e.in = [o \in Outpoints |-> IF o \in Inputs[LockTx[l]] THEN l ELSE d.in[o]]
      /\ DOMAIN e = DOMAIN d
  BY DEF Exact, IsDb, WriteNewInstantSendLock
<1> HIDE DEF e
<1>2. LockTx[l] \in Txs /\ Inputs[LockTx[l]] \subseteq Outpoints /\ l # Null
  OBVIOUS
<1>3. IsDb(e)
  BY <1>1, <1>2, SMT DEF Exact, IsDb
<1>4. \A t \in Txs : e.tx[t] # Null => e.tx[t] \in e.lock /\ LockTx[e.tx[t]] = t
  BY <1>1, <1>2, SMT DEF Exact, IsDb
<1>5. \A o \in Outpoints : e.in[o] # Null => e.in[o] \in e.lock /\ o \in Inputs[LockTx[e.in[o]]]
  BY <1>1, <1>2, SMT DEF Exact, IsDb
<1>6. ASSUME NEW m \in e.lock
      PROVE  e.tx[LockTx[m]] = m /\ \A o \in Inputs[LockTx[m]] : e.in[o] = m
  <2>1. CASE m = l
    BY <2>1, <1>1, <1>2, SMT DEF Exact, IsDb
  <2>2. CASE m # l
    <3>1. m \in d.lock /\ m \in Locks
      BY <2>2, <1>1 DEF Exact, IsDb
    <3>2. LockTx[m] # LockTx[l] /\ Inputs[LockTx[m]] \cap Inputs[LockTx[l]] = {}
      BY <3>1, <2>2, LocksAgree
    <3>3. LockTx[m] \in Txs /\ Inputs[LockTx[m]] \subseteq Outpoints
      BY <3>1
    <3> QED
      BY <3>1, <3>2, <3>3, <1>1, SMT DEF Exact, IsDb
  <2> QED
    BY <2>1, <2>2
<1>7. Exact(e)
  BY <1>3, <1>4, <1>5, <1>6 DEF Exact
<1> QED
  BY <1>7 DEF e

\* RemoveInstantSendLock of any locks, stored or not, keeps the indexes exact.
LEMMA RemoveExact ==
    ASSUME NEW d, Exact(d), NEW S
    PROVE  Exact(RemoveInstantSendLocks(d, S))
<1> DEFINE e == RemoveInstantSendLocks(d, S)
           gone == {LockTx[l] : l \in S \cap d.lock}
           free == UNION {Inputs[t] : t \in gone}
<1>1. /\ e.lock = d.lock \ S
      /\ e.tx = [t \in Txs |-> IF t \in gone THEN Null ELSE d.tx[t]]
      /\ e.in = [o \in Outpoints |-> IF o \in free THEN Null ELSE d.in[o]]
      /\ DOMAIN e = DOMAIN d
  BY DEF Exact, IsDb, RemoveInstantSendLocks
<1> HIDE DEF e
<1>2. IsDb(e)
  BY <1>1, SMT DEF Exact, IsDb
<1>3. ASSUME NEW t \in Txs, e.tx[t] # Null
      PROVE  e.tx[t] \in e.lock /\ LockTx[e.tx[t]] = t
  <2>1. t \notin gone /\ e.tx[t] = d.tx[t]
    BY <1>1, <1>3
  <2>2. d.tx[t] \in d.lock /\ LockTx[d.tx[t]] = t
    BY <2>1, <1>3 DEF Exact
  <2>3. d.tx[t] \notin S
    BY <2>1, <2>2
  <2> QED
    BY <1>1, <2>1, <2>2, <2>3
<1>4. ASSUME NEW o \in Outpoints, e.in[o] # Null
      PROVE  e.in[o] \in e.lock /\ o \in Inputs[LockTx[e.in[o]]]
  <2>1. o \notin free /\ e.in[o] = d.in[o]
    BY <1>1, <1>4
  <2>2. d.in[o] \in d.lock /\ o \in Inputs[LockTx[d.in[o]]]
    BY <2>1, <1>4 DEF Exact
  <2>3. d.in[o] \notin S
    <3>1. SUFFICES ASSUME d.in[o] \in S PROVE FALSE
      OBVIOUS
    <3>2. LockTx[d.in[o]] \in gone
      BY <3>1, <2>2
    <3> QED
      BY <3>2, <2>1, <2>2
  <2> QED
    BY <1>1, <2>1, <2>2, <2>3
<1>5. ASSUME NEW m \in e.lock
      PROVE  e.tx[LockTx[m]] = m /\ \A o \in Inputs[LockTx[m]] : e.in[o] = m
  <2>1. m \in d.lock /\ m \notin S /\ m \in Locks
    BY <1>1 DEF Exact, IsDb
  <2>2. LockTx[m] \in Txs /\ Inputs[LockTx[m]] \subseteq Outpoints
    BY <2>1
  <2>3. ASSUME NEW l \in S \cap d.lock
        PROVE  LockTx[l] # LockTx[m] /\ Inputs[LockTx[l]] \cap Inputs[LockTx[m]] = {}
    BY <2>1, LocksAgree, SMT DEF Exact, IsDb
  <2>4. LockTx[m] \notin gone /\ \A o \in Inputs[LockTx[m]] : o \notin free
    BY <2>3, SMT
  <2> QED
    BY <2>1, <2>2, <2>4, <1>1, SMT DEF Exact
<1>6. Exact(e)
  BY <1>2, <1>3, <1>4, <1>5 DEF Exact
<1> QED
  BY <1>6 DEF e

\* WriteInstantSendLockMined and RemoveInstantSendLockMined.
LEMMA MinedExact ==
    ASSUME NEW d, Exact(d), NEW l, NEW h, NEW keys
    PROVE  /\ Exact(WriteInstantSendLockMined(d, l, h))
           /\ Exact(RemoveInstantSendLockMined(d, keys))
<1>1. Exact(WriteInstantSendLockMined(d, l, h))
  <2> DEFINE e == WriteInstantSendLockMined(d, l, h)
  <2>1. DOMAIN e = DOMAIN d /\ e.lock = d.lock /\ e.tx = d.tx /\ e.in = d.in
    BY DEF Exact, IsDb, WriteInstantSendLockMined
  <2> QED
    BY <2>1, SameIndexes
<1>2. Exact(RemoveInstantSendLockMined(d, keys))
  <2> DEFINE e == RemoveInstantSendLockMined(d, keys)
  <2>1. DOMAIN e = DOMAIN d /\ e.lock = d.lock /\ e.tx = d.tx /\ e.in = d.in
    BY DEF Exact, IsDb, RemoveInstantSendLockMined
  <2> QED
    BY <2>1, SameIndexes
<1> QED
  BY <1>1, <1>2

\* The archive: WriteInstantSendLockArchived, RemoveArchivedInstantSendLocks.
LEMMA ArchiveExact ==
    ASSUME NEW d, Exact(d), NEW keys, NEW until
    PROVE  /\ Exact(WriteInstantSendLockArchived(d, keys))
           /\ Exact(RemoveArchivedInstantSendLocks(d, until))
<1>1. Exact(WriteInstantSendLockArchived(d, keys))
  <2> DEFINE e == WriteInstantSendLockArchived(d, keys)
  <2>1. DOMAIN e = DOMAIN d /\ e.lock = d.lock /\ e.tx = d.tx /\ e.in = d.in
    BY DEF Exact, IsDb, WriteInstantSendLockArchived
  <2> QED
    BY <2>1, SameIndexes
<1>2. Exact(RemoveArchivedInstantSendLocks(d, until))
  <2> DEFINE e == RemoveArchivedInstantSendLocks(d, until)
  <2>1. DOMAIN e = DOMAIN d /\ e.lock = d.lock /\ e.tx = d.tx /\ e.in = d.in
    BY DEF Exact, IsDb, RemoveArchivedInstantSendLocks
  <2> QED
    BY <2>1, SameIndexes
<1> QED
  BY <1>1, <1>2

\* RemoveChainedInstantSendLocks, whatever it meets on its stack.
LEMMA ChainedExact ==
    ASSUME NEW d, Exact(d), NEW l, NEW h
    PROVE  Exact(RemoveChainedInstantSendLocks(d, l, h))
<1> DEFINE all == Chained(d, l) \cup {l}
<1>1. Exact(RemoveInstantSendLocks(d, all))
  BY RemoveExact
<1>2. Exact(WriteInstantSendLockArchived(RemoveInstantSendLocks(d, all), {h} \X all))
  BY <1>1, ArchiveExact
<1> QED
  BY <1>2 DEF RemoveChainedInstantSendLocks

\* RemoveConfirmedInstantSendLocks archives what it removes.
LEMMA ConfirmedExact ==
    ASSUME NEW d, Exact(d), NEW until
    PROVE  Exact(RemoveConfirmedInstantSendLocks(d, until))
<1> DEFINE keys == Confirmed(d, until)
           kept == RemoveInstantSendLocks(d, {k[2] : k \in keys})
           arch == WriteInstantSendLockArchived(kept, keys)
           e == [arch EXCEPT !.mined = @ \ keys]
<1>1. Exact(kept)
  BY RemoveExact
<1>2. Exact(arch)
  BY <1>1, ArchiveExact
<1> HIDE DEF arch
<1>3. DOMAIN e = DOMAIN arch /\ e.lock = arch.lock /\ e.tx = arch.tx /\ e.in = arch.in
  BY <1>2 DEF Exact, IsDb
<1>4. Exact(e)
  BY <1>2, <1>3, SameIndexes
<1> QED
  BY <1>4 DEF RemoveConfirmedInstantSendLocks, arch

-----------------------------------------------------------------------------
(* The transactions that are not locked. *)

\* The parents of a transaction are transactions.
LEMMA ParentsType ==
    ASSUME NEW t \in Txs
    PROVE  Parents(t) \subseteq Txs /\ Inputs[t] \subseteq Outpoints
BY DEF Parents

\* AddNonLockedTx keeps the links sound.
LEMMA AddLinked ==
    ASSUME NEW n, Linked(n), NEW t \in Txs, NEW b \in Blocks \cup {Null}
    PROVE  Linked(AddNonLockedTx(n, t, b))
<1> DEFINE m == AddNonLockedTx(n, t, b)
           first == t \notin n.known
<1>1. /\ m.entry = n.entry \cup {t} \cup (IF first THEN Parents(t) ELSE {})
      /\ m.known = n.known \cup {t}
      /\ m.mined = [n.mined EXCEPT ![t] = b]
      /\ m.children = [p \in Txs |-> IF first /\ p \in Parents(t) THEN n.children[p] \cup {t}
                                     ELSE n.children[p]]
      /\ m.out = [o \in Outpoints |->
                     IF t \notin n.entry /\ o \in Inputs[t] /\ n.out[o] = Null THEN t ELSE n.out[o]]
  BY DEF AddNonLockedTx
<1>2. m \in NonLocked
  <2>1. /\ n.entry \in SUBSET Txs /\ n.known \in SUBSET Txs
        /\ n.mined \in [Txs -> Blocks \cup {Null}]
        /\ n.children \in [Txs -> SUBSET Txs] /\ n.out \in [Outpoints -> Txs \cup {Null}]
    BY DEF Linked, NonLocked
  <2>2. m.entry \in SUBSET Txs /\ m.known \in SUBSET Txs
    BY <1>1, <2>1, ParentsType, SMT
  <2>3. m.mined \in [Txs -> Blocks \cup {Null}]
    BY <1>1, <2>1, SMT
  <2>4. m.children \in [Txs -> SUBSET Txs]
    BY <1>1, <2>1, SMT
  <2>5. m.out \in [Outpoints -> Txs \cup {Null}]
    BY <1>1, <2>1, SMT
  <2>6. m = [entry |-> m.entry, known |-> m.known, mined |-> m.mined, children |-> m.children,
             out |-> m.out]
    BY DEF AddNonLockedTx
  <2> HIDE DEF m
  <2> QED
    BY <2>2, <2>3, <2>4, <2>5, <2>6 DEF NonLocked
<1>3. n.entry \subseteq Txs /\ n.known \subseteq n.entry /\ n.mined \in [Txs -> Blocks \cup {Null}]
  BY DEF Linked, NonLocked
<1> HIDE DEF m
<1>4. m.known \subseteq m.entry
  BY <1>1, <1>3
<1>5. \A p \in Txs : \A x \in m.children[p] : x \in m.known /\ p \in Parents(x) /\ p \in m.entry
  BY <1>1, SMT DEF Linked
<1>6. ASSUME NEW p \in m.entry \ m.known
      PROVE  m.children[p] # {}
  <2>1. p \in Txs
    BY <1>1, <1>3, ParentsType
  <2>2. CASE first /\ p \in Parents(t)
    BY <2>1, <2>2, <1>1, SMT
  <2>3. CASE ~(first /\ p \in Parents(t))
    <3>1. p \in n.entry \ n.known
      BY <2>3, <1>1, <1>6
    <3> QED
      BY <3>1, <2>1, <2>3, <1>1 DEF Linked
  <2> QED
    BY <2>2, <2>3
<1>7. \A o \in Outpoints : m.out[o] # Null => m.out[o] \in m.known /\ o \in Inputs[m.out[o]]
  BY <1>1 DEF Linked
<1>8. \A x \in Txs \ m.known : m.mined[x] = Null
  BY <1>1, <1>3, SMT DEF Linked
<1>9. Linked(m)
  BY <1>2, <1>4, <1>5, <1>6, <1>7, <1>8 DEF Linked
<1> QED
  BY <1>9 DEF m

\* RemoveNonLockedTx of any transactions keeps the links sound.
LEMMA RemoveLinked ==
    ASSUME NEW n, Linked(n), NEW S
    PROVE  Linked(RemoveNonLockedTxs(n, S))
<1> DEFINE m == RemoveNonLockedTxs(n, S)
           gone == S \cap n.known
           left == [p \in Txs |-> n.children[p] \ {t \in gone : p \in Parents(t)}]
           empty == {p \in n.entry \ n.known : left[p] = {} /\ left[p] # n.children[p]}
           entry == n.entry \ (S \cup empty)
<1>1. /\ m.entry = entry
      /\ m.known = n.known \ S
      /\ m.mined = [t \in Txs |-> IF t \in S THEN Null ELSE n.mined[t]]
      /\ m.children = [p \in Txs |-> IF p \in entry THEN left[p] ELSE {}]
      /\ m.out = [o \in Outpoints |-> IF \E t \in gone : o \in Inputs[t] THEN Null ELSE n.out[o]]
  BY DEF RemoveNonLockedTxs
<1>2. /\ n.entry \subseteq Txs /\ n.known \subseteq n.entry
      /\ n.mined \in [Txs -> Blocks \cup {Null}] /\ n.out \in [Outpoints -> Txs \cup {Null}]
      /\ n.children \in [Txs -> SUBSET Txs]
  BY DEF Linked, NonLocked
<1>3. m \in NonLocked
  BY <1>2 DEF NonLocked, RemoveNonLockedTxs
<1> HIDE DEF m
<1>4. m.known \subseteq m.entry
  BY <1>1, <1>2
<1>5. ASSUME NEW p \in Txs, NEW x \in m.children[p]
      PROVE  x \in m.known /\ p \in Parents(x) /\ p \in m.entry
  <2>1. p \in entry /\ x \in left[p]
    BY <1>1, <1>5
  <2>2. x \in n.children[p] /\ x \notin {t \in gone : p \in Parents(t)}
    BY <2>1
  <2>3. x \in n.known /\ p \in Parents(x)
    BY <2>2 DEF Linked
  <2> QED
    BY <1>1, <2>1, <2>2, <2>3
<1>6. ASSUME NEW p \in m.entry \ m.known
      PROVE  m.children[p] # {}
  <2>1. p \in n.entry /\ p \notin S /\ p \notin empty /\ p \in Txs
    BY <1>1, <1>2, <1>6
  <2>2. p \notin n.known
    BY <2>1, <1>1, <1>6
  <2>3. n.children[p] # {}
    BY <2>1, <2>2 DEF Linked
  <2>4. left[p] # {}
    BY <2>1, <2>2, <2>3
  <2> QED
    BY <1>1, <2>1, <2>4
<1>7. ASSUME NEW o \in Outpoints, m.out[o] # Null
      PROVE  m.out[o] \in m.known /\ o \in Inputs[m.out[o]]
  <2>1. m.out[o] = n.out[o] /\ ~ \E t \in gone : o \in Inputs[t]
    BY <1>1, <1>7
  <2>2. n.out[o] \in n.known /\ o \in Inputs[n.out[o]]
    BY <2>1, <1>7 DEF Linked
  <2> QED
    BY <1>1, <2>1, <2>2
<1>8. \A x \in Txs \ m.known : m.mined[x] = Null
  BY <1>1 DEF Linked
<1>9. Linked(m)
  BY <1>3, <1>4, <1>5, <1>6, <1>7, <1>8 DEF Linked
<1> QED
  BY <1>9 DEF m

-----------------------------------------------------------------------------
(***************************************************************************)
(* What the actions know of their arguments.                               *)
(***************************************************************************)
HIDE TxAssumption
HIDE ChainAssumption

\* What the threads hold: a lock unless they are idle, a transaction or a block
\* where the next step of validation needs one, blocks in the ConnectTrace.
Labels == {"idle", "lookup", "write", "mempool", "conflicted", "collect", "resolve", "untrack",
           "invalidate"}
Holders ==
    /\ pc \in [LockThreads -> Labels] /\ cur \in [LockThreads -> Locks \cup {Null}]
    /\ \A h \in LockThreads : pc[h] # "idle" => cur[h] \in Locks
    /\ have \subseteq Blocks /\ mempool \subseteq Txs
    /\ vpc \in {"add", "read", "track"} => vtx \in Txs
    /\ vblk \in Blocks \cup {Null}
    /\ vpc \in {"connect", "tip", "forced"} => goal \in Blocks
    /\ vpc = "notify" => trace # <<>>
    /\ trace \in Seq(Blocks \X SUBSET Txs)

IInv == Exact(db) /\ Linked(nl) /\ Holders

holderVars == <<pc, cur, have, mempool, vpc, vtx, vblk, goal, trace>>

\* The invariant holds of a node that starts for the first time.
LEMMA InitInv == Init => IInv
<1> SUFFICES ASSUME Init PROVE IInv
  OBVIOUS
<1>1. Exact(EmptyDb)
  BY DEF Exact, IsDb, EmptyDb
<1>2. Linked(NoNonLockedTxs)
  BY DEF Linked, NonLocked, NoNonLockedTxs
<1>3. Holders
  BY TreeAssumption, SMT DEF Init, Holders, Labels, LockThreads
<1> QED
  BY <1>1, <1>2, <1>3 DEF Init, IInv

\* What is left to do never includes a report of no block.
LEMMA AfterFree ==
    ASSUME NEW p, NEW tr
    PROVE  After(p, tr) \in {"pool", "notify", "free"} /\ (After(p, tr) = "notify" => tr # <<>>)
BY DEF After

\* Accepting a transaction.
LEMMA AcceptStep ==
    ASSUME IInv, NEW t \in Txs, AcceptToMemoryPool(t)
    PROVE  IInv'
<1>1. db' = db /\ nl' = nl
  BY DEF AcceptToMemoryPool, isVars
<1>2. Holders'
  BY DEF IInv, Holders, AcceptToMemoryPool, chainVars, threadVars
<1> QED
  BY <1>1, <1>2 DEF IInv

LEMMA AddStep ==
    ASSUME IInv, AddToMempool
    PROVE  IInv'
<1>1. db' = db /\ nl' = nl
  BY DEF AddToMempool, isVars
<1>2. Holders'
  BY DEF IInv, Holders, AddToMempool, chainVars, threadVars
<1> QED
  BY <1>1, <1>2 DEF IInv

\* ProcessNewTransaction.
LEMMA ReadStep ==
    ASSUME IInv, ProcessNewTransactionRead
    PROVE  IInv'
<1>1. nl' = nl
  BY DEF ProcessNewTransactionRead
<1>2. Exact(db')
  <2>1. CASE db' = db
    BY <2>1 DEF IInv
  <2>2. CASE db' = WriteInstantSendLockMined(db, db.tx[vtx], Height[vblk])
    BY <2>2, MinedExact DEF IInv
  <2> QED
    BY <2>1, <2>2 DEF ProcessNewTransactionRead
<1>3. Holders'
  BY DEF IInv, Holders, ProcessNewTransactionRead, chainVars, threadVars
<1> QED
  BY <1>1, <1>2, <1>3 DEF IInv

LEMMA TrackStep ==
    ASSUME IInv, ProcessNewTransactionTrack
    PROVE  IInv'
<1>1. db' = db
  BY DEF ProcessNewTransactionTrack
<1>2. Linked(nl')
  <2>1. vtx \in Txs /\ vblk \in Blocks \cup {Null}
    BY DEF IInv, Holders, ProcessNewTransactionTrack
  <2>2. CASE nl' = RemoveNonLockedTxs(nl, {vtx})
    BY <2>2, RemoveLinked DEF IInv
  <2>3. CASE nl' = AddNonLockedTx(nl, vtx, vblk)
    BY <2>1, <2>3, AddLinked DEF IInv
  <2> QED
    BY <2>2, <2>3 DEF ProcessNewTransactionTrack
<1>3. Holders'
  <2>1. vpc' \in {"pool", "notify", "free"} /\ (vpc' = "notify" => trace # <<>>)
    BY AfterFree DEF ProcessNewTransactionTrack
  <2> QED
    BY <2>1 DEF IInv, Holders, ProcessNewTransactionTrack, chainVars, threadVars
<1> QED
  BY <1>1, <1>2, <1>3 DEF IInv

\* Blocks.
LEMMA ReceiveStep ==
    ASSUME IInv, NEW b \in Blocks, ReceiveBlock(b)
    PROVE  IInv'
<1>1. db' = db /\ nl' = nl
  BY DEF ReceiveBlock, isVars
<1>2. Holders'
  BY DEF IInv, Holders, ReceiveBlock, valVars, threadVars
<1> QED
  BY <1>1, <1>2 DEF IInv

\* DisconnectTip erases is_m keys only.
LEMMA DisconnectExact ==
    ASSUME IInv, NEW fork, Disconnect(fork)
    PROVE  Exact(db')
BY MinedExact DEF IInv, Disconnect

LEMMA ActivateStep ==
    ASSUME IInv, ActivateBestChain
    PROVE  IInv'
<1>1. PICK m \in MostWork \ {tip} :
          /\ Disconnect(ForkOf[tip][m])
          /\ \E b \in Anc[m] : Height[b] = Height[tip] + 1 /\ goal' = b
  BY DEF ActivateBestChain
<1>2. Exact(db')
  BY <1>1, DisconnectExact
<1>3. nl' = nl
  BY DEF ActivateBestChain
<1>4. m \in Blocks
  BY <1>1 DEF IInv, Holders, MostWork, Usable
<1>5. goal' \in Blocks
  BY <1>1, <1>4, TreeAssumption, SMT
<1>6. Holders'
  BY <1>5 DEF IInv, Holders, ActivateBestChain, threadVars
<1> QED
  BY <1>2, <1>3, <1>6 DEF IInv

\* ConnectBlock removes a chain of locks, if anything.
LEMMA ConnectBlockStep ==
    ASSUME IInv, ConnectBlock
    PROVE  IInv'
<1>1. Exact(db')
  <2>1. CASE db' = db
    BY <2>1 DEF IInv
  <2>2. CASE \E l : db' = RemoveChainedInstantSendLocks(db, l, Height[tip])
    BY <2>2, ChainedExact DEF IInv
  <2> QED
    BY <2>1, <2>2 DEF ConnectBlock
<1>2. nl' = nl
  BY DEF ConnectBlock
<1>3. \/ vpc' = After(pool, trace)
      \/ vpc' \in {"tip", "forced"} /\ goal' = goal
  BY DEF ConnectBlock
<1>4. vpc = "connect" /\ UNCHANGED <<have, mempool, vtx, vblk, trace, pc, cur>>
  BY DEF ConnectBlock, threadVars
<1>5. \/ vpc' \in {"pool", "notify", "free"} /\ (vpc' = "notify" => trace # <<>>)
      \/ vpc' \in {"tip", "forced"} /\ goal' = goal
  BY <1>3, AfterFree
<1>6. Holders'
  BY <1>4, <1>5 DEF IInv, Holders
<1> QED
  BY <1>1, <1>2, <1>6 DEF IInv

LEMMA ConnectTipStep ==
    ASSUME IInv, ConnectTip
    PROVE  IInv'
<1>1. db' = db /\ nl' = nl
  BY DEF ConnectTip, isVars
<1>2. goal \in Blocks /\ Anc[goal] \subseteq Blocks
  BY TreeAssumption DEF IInv, Holders, ConnectTip
<1> DEFINE E(b) == IF BlockTx[b] = Null THEN {}
                  ELSE (mempool \ {BlockTx[b]}) \ Without(mempool, Conflicting(BlockTx[b]))
<1>3. PICK b \in Anc[goal] :
          /\ trace' = Append(trace, <<b, E(b)>>) /\ mempool' = mempool \ (E(b) \cup {BlockTx[b]})
          /\ vpc' = After(pool', trace') \/ (vpc' = "connect" /\ goal' = goal)
  BY DEF ConnectTip
<1>4. <<b, E(b)>> \in Blocks \X SUBSET Txs /\ mempool' \subseteq Txs
  <2>1. mempool \subseteq Txs
    BY DEF IInv, Holders
  <2>2. E(b) \subseteq Txs
    BY <2>1
  <2>3. mempool' \subseteq Txs
    BY <1>3, <2>1
  <2> HIDE DEF E
  <2> QED
    BY <1>2, <2>2, <2>3
<1> HIDE DEF E
<1>5. trace' \in Seq(Blocks \X SUBSET Txs)
  <2>1. trace \in Seq(Blocks \X SUBSET Txs)
    BY DEF IInv, Holders
  <2> QED
    BY <1>3, <1>4, <2>1, SMT
<1>6. \/ vpc' \in {"pool", "notify", "free"} /\ (vpc' = "notify" => trace' # <<>>)
      \/ vpc' = "connect" /\ goal' \in Blocks
  BY <1>2, <1>3, AfterFree
<1>7. UNCHANGED <<have, vtx, vblk, pc, cur>>
  BY DEF ConnectTip, threadVars
<1>8. Holders'
  BY <1>4, <1>5, <1>6, <1>7 DEF IInv, Holders
<1> QED
  BY <1>1, <1>8 DEF IInv

LEMMA ReorgStep ==
    ASSUME IInv, NEW t \in Txs, UpdateMempoolForReorg(t)
    PROVE  IInv'
<1>1. db' = db /\ nl' = nl
  BY DEF UpdateMempoolForReorg, isVars
<1>2. mempool' \subseteq Txs
  BY DEF IInv, Holders, UpdateMempoolForReorg, Without
<1>3. \/ vpc' = "add" /\ vtx' = t
      \/ vpc' \in {"pool", "notify", "free"} /\ (vpc' = "notify" => trace # <<>>)
  BY AfterFree DEF UpdateMempoolForReorg
<1>4. Holders'
  BY <1>2, <1>3 DEF IInv, Holders, UpdateMempoolForReorg, chainVars, threadVars
<1> QED
  BY <1>1, <1>4 DEF IInv

LEMMA BlockConnectedStep ==
    ASSUME IInv, BlockConnected
    PROVE  IInv'
<1>1. db' = db /\ Linked(nl')
  BY RemoveLinked DEF IInv, BlockConnected
<1>2. trace \in Seq(Blocks \X SUBSET Txs) /\ trace # <<>>
  BY DEF IInv, Holders, BlockConnected
<1>3. Head(trace) \in Blocks \X SUBSET Txs /\ trace' \in Seq(Blocks \X SUBSET Txs)
  BY <1>2, SMT DEF BlockConnected
<1>4. Head(trace)[1] \in Blocks
  BY <1>3
<1>5. \/ vpc' \in {"pool", "notify", "free"} /\ (vpc' = "notify" => trace' # <<>>) /\ vblk' = vblk
      \/ vpc' = "read" /\ vtx' \in Txs /\ vblk' \in Blocks
  BY <1>4, AfterFree, ChainAssumption DEF BlockConnected
<1>6. Holders'
  BY <1>3, <1>5 DEF IInv, Holders, BlockConnected, chainVars, threadVars
<1> QED
  BY <1>1, <1>6 DEF IInv

\* A lock thread that goes on keeps its lock, one that leaves gives it up; what
\* else it may touch of the other threads' state is the mempool and vpc.
LEMMA ThreadMoves ==
    ASSUME Holders, NEW h \in LockThreads,
           \/ Leave(h)
           \/ pc[h] # "idle" /\ (\E label \in Labels : Goto(h, label)) /\ cur' = cur
           \/ UNCHANGED <<pc, cur>>,
           mempool' \subseteq Txs,
           vpc' \in {"pool", "notify", "free"} \/ vpc' = vpc, vpc' = "notify" => trace # <<>>,
           UNCHANGED <<have, vtx, vblk, goal, trace>>
    PROVE  Holders'
<1>1. pc' \in [LockThreads -> Labels] /\ cur' \in [LockThreads -> Locks \cup {Null}]
  BY DEF Holders, Leave, Goto, Labels
<1>2. \A g \in LockThreads : pc'[g] # "idle" => cur'[g] \in Locks
  BY DEF Holders, Leave, Goto, Labels
<1> QED
  BY <1>1, <1>2 DEF Holders

\* The lock threads.
LEMMA StartStep ==
    ASSUME IInv, NEW h \in LockThreads, NEW l \in Locks, Start(h, l)
    PROVE  IInv'
<1>1. db' = db /\ nl' = nl
  BY DEF Start, isVars
<1>2. Holders'
  BY DEF IInv, Holders, Labels, Start, Goto, chainVars, valVars
<1> QED
  BY <1>1, <1>2 DEF IInv

LEMMA LookupStep ==
    ASSUME IInv, NEW h \in LockThreads, LockLookup(h)
    PROVE  IInv'
<1>1. db' = db /\ nl' = nl
  BY DEF LockLookup, isVars
<1>2. Holders /\ mempool' \subseteq Txs /\ (vpc' = "notify" => trace # <<>>)
  BY DEF IInv, Holders, LockLookup, valVars
<1>3. Leave(h) \/ (pc[h] # "idle" /\ (\E label \in Labels : Goto(h, label)) /\ cur' = cur)
  BY DEF LockLookup, Labels
<1>4. UNCHANGED <<have, vtx, vblk, goal, trace, vpc>>
  BY DEF LockLookup, valVars, chainVars
<1> QED
  BY <1>1, <1>2, <1>3, <1>4, ThreadMoves DEF IInv

\* A new lock is stored with its keys, and its transaction is tracked no more.
LEMMA WriteStep ==
    ASSUME IInv, NEW h \in LockThreads, LockWrite(h)
    PROVE  IInv'
<1>1. cur[h] \in Locks
  BY DEF IInv, Holders, LockWrite
<1>2. Exact(db')
  <2>1. CASE cur[h] \in db.lock
    BY <2>1 DEF IInv, LockWrite, isVars
  <2>2. CASE cur[h] \notin db.lock
    <3>1. Exact(WriteNewInstantSendLock(db, cur[h]))
      BY <1>1, <2>2, WriteNewExact DEF IInv
    <3>2. \/ db' = WriteNewInstantSendLock(db, cur[h])
          \/ db' = WriteInstantSendLockMined(WriteNewInstantSendLock(db, cur[h]), cur[h],
                                             Height[found[h]])
      BY <2>2 DEF LockWrite
    <3> QED
      BY <3>1, <3>2, MinedExact
  <2> QED
    BY <2>1, <2>2
<1>3. Linked(nl')
  <2>1. nl' = nl \/ nl' = RemoveNonLockedTxs(nl, {LockTx[cur[h]]})
    BY DEF LockWrite, isVars
  <2> QED
    BY <2>1, RemoveLinked DEF IInv
<1>4. Holders /\ mempool' \subseteq Txs /\ (vpc' = "notify" => trace # <<>>)
  BY DEF IInv, Holders, LockWrite, valVars
<1>5. Leave(h) \/ (pc[h] # "idle" /\ (\E label \in Labels : Goto(h, label)) /\ cur' = cur)
  BY DEF LockWrite, Labels
<1>6. UNCHANGED <<have, vtx, vblk, goal, trace, vpc>>
  BY DEF LockWrite, valVars, chainVars
<1>7. Holders'
  BY <1>4, <1>5, <1>6, ThreadMoves
<1> QED
  BY <1>2, <1>3, <1>7 DEF IInv

LEMMA MempoolStep ==
    ASSUME IInv, NEW h \in LockThreads, LockMempool(h)
    PROVE  IInv'
<1>1. db' = db /\ nl' = nl
  BY DEF LockMempool, isVars
<1>2. Holders /\ mempool' \subseteq Txs /\ (vpc' = "notify" => trace # <<>>)
  BY DEF IInv, Holders, LockMempool, valVars, Without
<1>3. pc[h] # "idle" /\ (\E label \in Labels : Goto(h, label)) /\ cur' = cur
  BY DEF LockMempool, Labels
<1>4. UNCHANGED <<have, vtx, vblk, goal, trace, vpc>>
  BY DEF LockMempool, valVars, chainVars
<1> QED
  BY <1>1, <1>2, <1>3, <1>4, ThreadMoves DEF IInv

LEMMA ConflictedStep ==
    ASSUME IInv, NEW h \in LockThreads, LockConflicted(h)
    PROVE  IInv'
<1>1. db' = db /\ Linked(nl')
  BY RemoveLinked DEF IInv, LockConflicted
<1>2. Holders /\ mempool' \subseteq Txs /\ (vpc' = "notify" => trace # <<>>)
  BY DEF IInv, Holders, LockConflicted, valVars
<1>3. pc[h] # "idle" /\ (\E label \in Labels : Goto(h, label)) /\ cur' = cur
  BY DEF LockConflicted, Labels
<1>4. UNCHANGED <<have, vtx, vblk, goal, trace, vpc>>
  BY DEF LockConflicted, valVars, chainVars
<1> QED
  BY <1>1, <1>2, <1>3, <1>4, ThreadMoves DEF IInv

LEMMA CollectStep ==
    ASSUME IInv, NEW h \in LockThreads, LockCollect(h)
    PROVE  IInv'
<1>1. db' = db /\ nl' = nl
  BY DEF LockCollect, isVars
<1>2. Holders /\ mempool' \subseteq Txs /\ (vpc' = "notify" => trace # <<>>)
  BY DEF IInv, Holders, LockCollect, valVars
<1>3. Leave(h) \/ (pc[h] # "idle" /\ (\E label \in Labels : Goto(h, label)) /\ cur' = cur)
  BY DEF LockCollect, Labels
<1>4. UNCHANGED <<have, vtx, vblk, goal, trace, vpc>>
  BY DEF LockCollect, valVars, chainVars
<1> QED
  BY <1>1, <1>2, <1>3, <1>4, ThreadMoves DEF IInv

\* A lock below which a ChainLock has won goes, with the locks that build on it.
LEMMA ResolveStep ==
    ASSUME IInv, NEW h \in LockThreads, LockResolve(h)
    PROVE  IInv'
<1>1. nl' = nl
  BY DEF LockResolve
<1>2. Exact(db')
  <2>1. db' = db \/ db' = RemoveChainedInstantSendLocks(db, cur[h], Height[tip])
    BY DEF LockResolve
  <2> QED
    BY <2>1, ChainedExact DEF IInv
<1>3. Holders /\ mempool' \subseteq Txs /\ (vpc' = "notify" => trace # <<>>)
  BY DEF IInv, Holders, LockResolve, valVars
<1>4. Leave(h) \/ (pc[h] # "idle" /\ (\E label \in Labels : Goto(h, label)) /\ cur' = cur)
  BY DEF LockResolve, Labels
<1>5. UNCHANGED <<have, vtx, vblk, goal, trace, vpc>>
  BY DEF LockResolve, valVars, chainVars
<1> QED
  BY <1>1, <1>2, <1>3, <1>4, <1>5, ThreadMoves DEF IInv

LEMMA UntrackStep ==
    ASSUME IInv, NEW h \in LockThreads, LockUntrack(h)
    PROVE  IInv'
<1>1. db' = db /\ Linked(nl')
  BY RemoveLinked, SMT DEF IInv, LockUntrack
<1>2. Holders /\ mempool' \subseteq Txs /\ (vpc' = "notify" => trace # <<>>)
  BY DEF IInv, Holders, LockUntrack, valVars
<1>3. pc[h] # "idle" /\ (\E label \in Labels : Goto(h, label)) /\ cur' = cur
  BY DEF LockUntrack, Labels
<1>4. UNCHANGED <<have, vtx, vblk, goal, trace, vpc>>
  BY DEF LockUntrack, valVars, chainVars
<1> QED
  BY <1>1, <1>2, <1>3, <1>4, ThreadMoves DEF IInv

LEMMA InvalidateStep ==
    ASSUME IInv, NEW h \in LockThreads, LockInvalidate(h)
    PROVE  IInv'
<1>1. Invalidate(found[h], failed) /\ nl' = nl
  BY DEF LockInvalidate
<1>2. Exact(db')
  BY <1>1, DisconnectExact DEF Invalidate, IInv
<1>3. /\ vpc' \in {"pool", "notify", "free"} \/ vpc' = vpc
      /\ vpc' = "notify" => trace # <<>>
  BY <1>1, AfterFree DEF IInv, Holders, Invalidate
<1>4. Holders /\ mempool' \subseteq Txs /\ UNCHANGED <<have, vtx, vblk, goal, trace>>
  BY DEF IInv, Holders, LockInvalidate
<1>5. Leave(h) \/ (pc[h] # "idle" /\ (\E label \in Labels : Goto(h, label)) /\ cur' = cur)
  BY DEF LockInvalidate, Labels
<1>6. Holders'
  BY <1>3, <1>4, <1>5, ThreadMoves
<1> QED
  BY <1>1, <1>2, <1>6 DEF IInv

\* ChainLocks.
LEMMA EnforceStep ==
    ASSUME IInv, EnforceBestChainLock
    PROVE  IInv'
<1>1. Exact(db') /\ nl' = nl
  BY DisconnectExact DEF EnforceBestChainLock
<1>2. vpc' \in {"pool", "notify", "free"} /\ (vpc' = "notify" => trace # <<>>)
  BY AfterFree DEF EnforceBestChainLock
<1>3. Holders'
  BY <1>2 DEF IInv, Holders, EnforceBestChainLock, threadVars
<1> QED
  BY <1>1, <1>3 DEF IInv

LEMMA FullyConfirmedStep ==
    ASSUME IInv, HandleFullyConfirmedBlock
    PROVE  IInv'
<1>1. Exact(db')
  <2>1. Exact(RemoveConfirmedInstantSendLocks(db, Height[chainLock]))
    BY ConfirmedExact DEF IInv
  <2> QED
    BY <2>1, ArchiveExact DEF HandleFullyConfirmedBlock
<1>2. Linked(nl')
  BY RemoveLinked DEF IInv, HandleFullyConfirmedBlock
<1>3. Holders'
  BY DEF IInv, Holders, HandleFullyConfirmedBlock, chainVars, valVars, threadVars
<1> QED
  BY <1>1, <1>2, <1>3 DEF IInv

LEMMA RestartStep ==
    ASSUME IInv, Restart
    PROVE  IInv'
<1>1. Exact(db')
  BY DEF IInv, Restart
<1>2. Linked(NoNonLockedTxs)
  BY DEF Linked, NonLocked, NoNonLockedTxs
<1>3. nl' = NoNonLockedTxs
  BY DEF Restart
<1>4. Holders'
  BY SMT DEF IInv, Holders, Restart, Labels
<1> QED
  BY <1>1, <1>2, <1>3, <1>4 DEF IInv

\* The steps that touch neither the stores nor what the threads hold.
LEMMA OtherStep ==
    ASSUME IInv, UNCHANGED <<db, nl>>, UNCHANGED holderVars
    PROVE  IInv'
BY DEF IInv, Holders, holderVars

LEMMA NextInv == IInv /\ [Next]_vars => IInv'
<1> SUFFICES ASSUME IInv, [Next]_vars PROVE IInv'
  OBVIOUS
<1>1. ASSUME NEW t \in Txs, AcceptToMemoryPool(t) PROVE IInv'
  BY <1>1, AcceptStep
<1>2. ASSUME NEW t \in Txs, ProcessPendingRetryLockTxs(t) PROVE IInv'
  BY <1>2, OtherStep DEF ProcessPendingRetryLockTxs, chainVars, valVars, threadVars, holderVars
<1>3. ASSUME NEW b \in Blocks, ReceiveBlock(b) PROVE IInv'
  BY <1>3, ReceiveStep
<1>4. ASSUME NEW b \in Blocks, ProcessNewChainLock(b) PROVE IInv'
  BY <1>4, OtherStep DEF ProcessNewChainLock, chainVars, isVars, valVars, threadVars, holderVars
<1>5. CASE Validate
  BY <1>5, AddStep, ReadStep, TrackStep, ActivateStep, ConnectBlockStep, ConnectTipStep,
     BlockConnectedStep, ReorgStep DEF Validate
<1>6. ASSUME NEW l \in Locks, ProcessMessageInstantSendLock(l) \/ TrySignInstantSendLock(l)
      PROVE  IInv'
  BY <1>6, OtherStep
     DEF ProcessMessageInstantSendLock, TrySignInstantSendLock, chainVars, isVars, valVars,
         threadVars, holderVars
<1>7. ASSUME NEW l \in Locks,
             ProcessPendingInstantSendLocks(l) \/ HandleNewInstantSendLockRecoveredSig(l)
      PROVE  IInv'
  BY <1>7, StartStep
     DEF ProcessPendingInstantSendLocks, HandleNewInstantSendLockRecoveredSig, LockThreads
<1>8. ASSUME NEW h \in LockThreads, LockStep(h) PROVE IInv'
  BY <1>8, LookupStep, WriteStep, MempoolStep, ConflictedStep, CollectStep, ResolveStep,
     UntrackStep, InvalidateStep DEF LockStep
<1>9. CASE EnforceBestChainLock \/ HandleFullyConfirmedBlock \/ Restart
  BY <1>9, EnforceStep, FullyConfirmedStep, RestartStep
<1>10. CASE UNCHANGED vars
  BY <1>10, OtherStep DEF vars, chainVars, isVars, valVars, threadVars, holderVars
<1> QED
  BY <1>1, <1>2, <1>3, <1>4, <1>5, <1>6, <1>7, <1>8, <1>9, <1>10 DEF Next

-----------------------------------------------------------------------------
\* Whatever locks come, are confirmed, archived or pruned, in whatever order the
\* threads run and wherever the node crashes: the keys of CInstantSendDb name the
\* stored locks, so the conflict checks of the mempool and of ConnectBlock miss
\* none of them.
THEOREM IndexesAreExact == Spec => []IndexesExact
<1>1. IInv => IndexesExact
  BY DEF IInv, Exact, IndexesExact
<1> QED
  BY <1>1, InitInv, NextInv, PTL DEF Spec

\* AddNonLockedTx and RemoveNonLockedTx keep nonLockedTxs linked for any graph of
\* transactions: no child, owner of an outpoint or empty entry is left behind.
THEOREM NonLockedStaysLinked == Spec => []NonLockedLinked
<1>1. IInv => NonLockedLinked
  BY DEF IInv, Linked, NonLockedLinked
<1> QED
  BY <1>1, InitInv, NextInv, PTL DEF Spec

-----------------------------------------------------------------------------
(***************************************************************************)
(* Type correctness.  Rooted: the blocks form a tree and the chain is in   *)
(* it.  Reported: the blocks that the threads name were connected.  Typed: *)
(* the stores and the votes.  Equipped: the holder of cs_main.             *)
(***************************************************************************)

\* The blocks with data form a tree; the tip, the ChainLock and the flags are in it.
Rooted ==
    /\ Genesis \in have /\ \A b \in have : Anc[b] \subseteq have
    /\ failed \subseteq have /\ tip \in have /\ base \in have
    /\ chainLock \in have \cup {Null} /\ notified \in have \cup {Null}
    /\ txIndex \in [Txs -> Blocks \cup {Null}]
    /\ vpc \in {"connect", "tip", "forced"} => goal \in have

\* Blocks that are reported, tracked or invalidated were connected: none is Genesis.
Above == have \ {Genesis}
Reported ==
    /\ \A t \in Txs : nl.mined[t] \in Above \cup {Null}
    /\ vblk \in Above \cup {Null}
    /\ \A n \in 1 .. Len(trace) : trace[n][1] \in Above
    /\ found \in [LockThreads -> Blocks \cup {Null}] /\ bad = [h \in LockThreads |-> bad[h]]
    /\ \A h \in LockThreads :
          /\ pc[h] \in {"resolve", "untrack", "invalidate"} => bad[h] \subseteq Above \X Txs
          /\ pc[h] = "invalidate" => found[h] \in Above

\* A step that leaves the chain alone, and the goal unless cs_main is released.
LEMMA RootedKept ==
    ASSUME Rooted, UNCHANGED <<chainVars, chainLock>>, notified' \in {notified, chainLock},
           vpc' \in {"free", "add", "read", "track", "pool", "notify"} \/ UNCHANGED <<vpc, goal>>
    PROVE  Rooted'
BY DEF Rooted, chainVars

\* Genesis alone is a tree.
LEMMA RootedInit == Init => Rooted
BY TreeAssumption, ChainAssumption, SMT DEF Init, Rooted

\* A block comes after its parent.
LEMMA RootedReceive ==
    ASSUME IInv, Rooted, NEW b \in Blocks \ {Genesis}, ReceiveBlock(b)
    PROVE  Rooted'
<1>1. have' = have \cup {b} /\ Parent[b] \in have /\ Anc[b] = Anc[Parent[b]] \cup {b}
  BY TreeAssumption DEF ReceiveBlock
<1>2. \A x \in have' : Anc[x] \subseteq have'
  BY <1>1 DEF Rooted
<1>3. UNCHANGED <<failed, tip, base, txIndex, chainLock, notified, vpc, goal>>
  BY DEF ReceiveBlock, clVars, valVars
<1> QED
  BY <1>1, <1>2, <1>3 DEF Rooted

\* A refused block is marked with the blocks on top of it that we have.
LEMMA RootedConnectBlock ==
    ASSUME IInv, Rooted, ConnectBlock
    PROVE  Rooted'
<1>1. /\ failed' = failed \/ \E b : failed' = failed \cup {x \in have : b \in Anc[x]}
      /\ vpc' \in {"free", "pool", "notify"} \/ goal' = goal
      /\ vpc = "connect"
  BY AfterFree DEF ConnectBlock
<1>2. failed' \subseteq have
  BY <1>1 DEF Rooted
<1>3. UNCHANGED <<have, tip, base, txIndex, chainLock, notified>>
  BY DEF ConnectBlock, clVars
<1> QED
  BY <1>1, <1>2, <1>3 DEF Rooted

\* The block connected is on the way to the goal.
LEMMA RootedConnectTip ==
    ASSUME IInv, Rooted, ConnectTip
    PROVE  Rooted'
<1>1. PICK b \in Anc[goal] :
          /\ tip' = b
          /\ txIndex' = IF BlockTx[b] = Null THEN txIndex ELSE [txIndex EXCEPT ![BlockTx[b]] = b]
          /\ vpc' = After(pool', trace') \/ goal' = goal
  BY DEF ConnectTip
<1>2. goal \in have /\ b \in have /\ b \in Blocks
  BY <1>1 DEF IInv, Holders, Rooted, ConnectTip
<1>3. txIndex' \in [Txs -> Blocks \cup {Null}]
  BY <1>1, <1>2, ChainAssumption DEF Rooted
<1>4. vpc' \in {"free", "pool", "notify"} \/ goal' = goal
  BY <1>1, AfterFree
<1>5. UNCHANGED <<have, failed, base, chainLock, notified>>
  BY DEF ConnectTip, clVars
<1> QED
  BY <1>1, <1>2, <1>3, <1>4, <1>5 DEF Rooted

\* The block below a block is one of its ancestors.
LEMMA ParentBelow ==
    ASSUME NEW b \in Blocks \ {Genesis}
    PROVE  Parent[b] \in Anc[b]
<1>1. Parent[b] \in Anc[Parent[b]]
  <2>1. CASE Parent[b] = Genesis
    BY <2>1, TreeAssumption
  <2>2. CASE Parent[b] # Genesis
    BY <2>2, TreeAssumption, SMT
  <2> QED
    BY <2>1, <2>2
<1> QED
  BY <1>1, TreeAssumption

\* Only a block above Genesis is invalidated, so it has a parent to go back to.
LEMMA RootedInvalidate ==
    ASSUME IInv, Rooted, Reported, NEW h \in LockThreads, LockInvalidate(h)
    PROVE  Rooted'
<1> DEFINE b == found[h]
<1>1. b \in have /\ b \in Blocks \ {Genesis} /\ Invalidate(b, failed) /\ vpc = "free"
  BY DEF IInv, Holders, Reported, Above, LockInvalidate
<1>2. UNCHANGED <<have, base, txIndex, chainLock, notified, goal>>
  BY DEF LockInvalidate, clVars
<1>3. CASE b \in Anc[tip]
  <2>1. Parent[b] \in Anc[b]
    BY <1>1, ParentBelow
  <2>2. tip' \in have /\ failed' \subseteq have /\ vpc' \in {"pool", "notify", "free"}
    BY <1>1, <1>3, <2>1, AfterFree DEF Rooted, Invalidate, Disconnect
  <2> QED
    BY <1>2, <2>2 DEF Rooted
<1>4. CASE b \notin Anc[tip]
  BY <1>1, <1>2, <1>4 DEF Rooted, Invalidate
<1> QED
  BY <1>3, <1>4

\* Removing transactions from nonLockedTxs moves none to another block.
LEMMA RemoveMined ==
    ASSUME NEW n \in NonLocked, NEW S
    PROVE  \A t \in Txs : RemoveNonLockedTxs(n, S).mined[t] \in {n.mined[t], Null}
BY DEF RemoveNonLockedTxs, NonLocked

\* Nothing is reported when the node starts for the first time.
LEMMA ReportedInit == Init => Reported
BY SMT DEF Init, Reported, NoNonLockedTxs

\* A step of the holder of cs_main.
LEMMA ReportedKept ==
    ASSUME Reported, have \subseteq have',
           \A t \in Txs : nl'.mined[t] \in {nl.mined[t], vblk, Null},
           vblk' \in Above \cup {Null},
           \A n \in 1 .. Len(trace') : trace'[n][1] \in Above,
           UNCHANGED <<pc, found, bad>>
    PROVE  Reported'
BY SMT DEF Reported, Above

\* A step of a lock thread: it leaves, or goes on with what it has.
LEMMA ReportedThread ==
    ASSUME IInv, Reported, NEW h \in LockThreads, UNCHANGED <<have, vblk, trace>>,
           \A t \in Txs : nl'.mined[t] \in {nl.mined[t], Null},
           NEW label, NEW f \in Blocks \cup {Null}, NEW B,
           label \in {"resolve", "untrack", "invalidate"} => B \subseteq Above \X Txs,
           label = "invalidate" => f \in Above,
           pc' = [pc EXCEPT ![h] = label], found' = [found EXCEPT ![h] = f],
           bad' = [bad EXCEPT ![h] = B]
    PROVE  Reported'
<1>1. pc \in [LockThreads -> Labels] /\ found \in [LockThreads -> Blocks \cup {Null}]
      /\ bad = [x \in LockThreads |-> bad[x]]
  BY DEF IInv, Holders, Reported
<1>2. found' \in [LockThreads -> Blocks \cup {Null}] /\ bad' = [x \in LockThreads |-> bad'[x]]
  BY <1>1
<1>3. ASSUME NEW x \in LockThreads
      PROVE  /\ pc'[x] \in {"resolve", "untrack", "invalidate"} => bad'[x] \subseteq Above' \X Txs
             /\ pc'[x] = "invalidate" => found'[x] \in Above'
  <2>1. CASE x = h
    BY <1>1, <2>1 DEF Above
  <2>2. CASE x # h
    <3>1. pc'[x] = pc[x] /\ found'[x] = found[x] /\ bad'[x] = bad[x] /\ Above' = Above
      BY <1>1, <2>2 DEF Above
    <3> QED
      BY <3>1 DEF Reported
  <2> QED
    BY <2>1, <2>2
<1>4. /\ \A t \in Txs : nl'.mined[t] \in Above' \cup {Null}
      /\ vblk' \in Above' \cup {Null}
      /\ \A n \in 1 .. Len(trace') : trace'[n][1] \in Above'
  BY DEF Reported, Above
<1> QED
  BY <1>2, <1>3, <1>4 DEF Reported

\* A thread that is done with its lock.
LEMMA ReportedLeave ==
    ASSUME IInv, Reported, NEW h \in LockThreads, UNCHANGED <<have, vblk, trace>>,
           \A t \in Txs : nl'.mined[t] \in {nl.mined[t], Null}, Leave(h)
    PROVE  Reported'
BY ReportedThread DEF Leave, Goto

\* A thread that goes on with what it has found so far.
LEMMA ReportedGoes ==
    ASSUME IInv, Reported, NEW h \in LockThreads, UNCHANGED <<have, vblk, trace>>,
           \A t \in Txs : nl'.mined[t] \in {nl.mined[t], Null},
           NEW label, Goto(h, label), UNCHANGED <<found, bad>>,
           \/ label \notin {"resolve", "untrack", "invalidate"}
           \/ label = "untrack" /\ pc[h] \in {"resolve", "invalidate"}
    PROVE  Reported'
<1> DEFINE f == found[h]
           B == bad[h]
<1>1. f \in Blocks \cup {Null} /\ found' = [found EXCEPT ![h] = f] /\ bad' = [bad EXCEPT ![h] = B]
  BY DEF Reported
<1>2. /\ label \in {"resolve", "untrack", "invalidate"} => B \subseteq Above \X Txs
      /\ label = "invalidate" => f \in Above
  BY DEF Reported
<1>3. pc' = [pc EXCEPT ![h] = label]
  BY DEF Goto
<1> HIDE DEF f, B
<1> QED
  BY <1>1, <1>2, <1>3, ReportedThread

\* A step that leaves nonLockedTxs alone.
LEMMA SameMined == nl' = nl => \A t \in Txs : nl'.mined[t] \in {nl.mined[t], Null}
OBVIOUS

\* A connected block is above its parent, so it is not Genesis.
LEMMA ReportedConnectTip ==
    ASSUME IInv, Rooted, Reported, ConnectTip
    PROVE  Reported'
<1>1. PICK b \in Anc[goal] : NextBlock(b) /\ \E e : trace' = Append(trace, <<b, e>>)
  BY DEF ConnectTip
<1>2. b \in have /\ b \in Blocks /\ tip \in Blocks
  BY <1>1 DEF IInv, Holders, Rooted, ConnectTip
<1>3. b \in Above
  BY <1>1, <1>2, TreeAssumption, SMT DEF NextBlock, Above
<1>4. trace \in Seq(Blocks \X SUBSET Txs)
  BY DEF IInv, Holders
<1>5. \A n \in 1 .. Len(trace') : trace'[n][1] \in Above
  <2>1. PICK e : trace' = Append(trace, <<b, e>>)
    BY <1>1
  <2>2. ASSUME NEW n \in 1 .. Len(trace') PROVE trace'[n][1] \in Above
    <3>1. CASE n \in 1 .. Len(trace)
      BY <1>4, <2>1, <3>1, SMT DEF Reported
    <3>2. CASE n = Len(trace) + 1
      BY <1>3, <1>4, <2>1, <3>2, SMT
    <3> QED
      BY <1>4, <2>1, <2>2, <3>1, <3>2, SMT
  <2> QED
    BY <2>2
<1>6. UNCHANGED <<have, nl, vblk, pc, found, bad>>
  BY DEF ConnectTip, isVars, threadVars
<1> QED
  BY <1>5, <1>6, ReportedKept DEF Reported

\* BlockConnected reports the oldest entry of the trace.
LEMMA ReportedBlockConnected ==
    ASSUME IInv, Reported, BlockConnected
    PROVE  Reported'
<1>1. trace \in Seq(Blocks \X SUBSET Txs) /\ trace # <<>> /\ trace' = Tail(trace)
  BY DEF IInv, Holders, BlockConnected
<1>2. Head(trace)[1] \in Above
  BY <1>1, SMT DEF Reported
<1>3. \A n \in 1 .. Len(trace') : trace'[n][1] \in Above
  <2>1. \A n \in 1 .. Len(trace') : n + 1 \in 1 .. Len(trace) /\ trace'[n] = trace[n + 1]
    BY <1>1, SMT
  <2> QED
    BY <2>1 DEF Reported
<1>4. vblk' \in Above \cup {Null}
  BY <1>2 DEF Reported, BlockConnected
<1>5. nl \in NonLocked /\ nl' = RemoveNonLockedTxs(nl, Head(trace)[2])
  BY DEF IInv, Linked, BlockConnected
<1>6. UNCHANGED <<have, pc, found, bad>>
  BY DEF BlockConnected, chainVars, threadVars
<1> QED
  BY <1>3, <1>4, <1>5, <1>6, RemoveMined, ReportedKept

\* AddNonLockedTx notes the block that BlockConnected reported.
LEMMA ReportedTrack ==
    ASSUME IInv, Reported, ProcessNewTransactionTrack
    PROVE  Reported'
<1>1. nl \in NonLocked /\ vtx \in Txs
  BY DEF IInv, Linked, Holders, ProcessNewTransactionTrack
<1>2. \A t \in Txs : nl'.mined[t] \in {nl.mined[t], vblk, Null}
  <2>1. CASE nl' = RemoveNonLockedTxs(nl, {vtx})
    BY <1>1, <2>1, RemoveMined
  <2>2. CASE nl' = AddNonLockedTx(nl, vtx, vblk)
    BY <1>1, <2>2 DEF AddNonLockedTx, NonLocked
  <2> QED
    BY <2>1, <2>2 DEF ProcessNewTransactionTrack
<1>3. vblk' = Null /\ UNCHANGED <<have, trace, pc, found, bad>>
  BY DEF ProcessNewTransactionTrack, chainVars, threadVars
<1> QED
  BY <1>2, <1>3, ReportedKept DEF Reported

\* ResolveBlockConflicts finds mined transactions only.
LEMMA ReportedCollect ==
    ASSUME IInv, Reported, NEW h \in LockThreads, LockCollect(h)
    PROVE  Reported'
<1>1. UNCHANGED <<have, vblk, trace, nl>>
  BY DEF LockCollect, chainVars, valVars, isVars
<1>2. CASE Leave(h)
  BY <1>1, <1>2, ReportedLeave, SameMined
<1>3. CASE /\ bad' = [bad EXCEPT ![h] = {<<nl.mined[t], t>> : t \in Conflicts(nl, cur[h])}]
           /\ Goto(h, "resolve") /\ found' = found
  <2>1. \A t \in Conflicts(nl, cur[h]) : t \in Txs /\ nl.mined[t] # Null
    BY DEF IInv, Linked, NonLocked, Conflicts
  <2>2. {<<nl.mined[t], t>> : t \in Conflicts(nl, cur[h])} \subseteq Above \X Txs
    BY <2>1, SMT DEF Reported
  <2>3. found[h] \in Blocks \cup {Null} /\ found' = [found EXCEPT ![h] = found[h]]
    BY <1>3 DEF Reported
  <2> QED
    BY <1>1, <1>3, <2>2, <2>3, ReportedThread, SameMined DEF Goto
<1> QED
  BY <1>2, <1>3 DEF LockCollect

\* The block to invalidate is one that a conflict was mined in.
LEMMA ReportedUntrack ==
    ASSUME IInv, Reported, NEW h \in LockThreads, LockUntrack(h)
    PROVE  Reported'
<1>1. UNCHANGED <<have, vblk, trace>> /\ pc[h] = "untrack" /\ Goto(h, "invalidate")
  BY DEF LockUntrack, chainVars, valVars
<1>2. PICK p \in bad[h] :
          /\ \E S : nl' = RemoveNonLockedTxs(nl, S)
          /\ \E here \in SUBSET bad[h] : bad' = [bad EXCEPT ![h] = @ \ here]
          /\ found' = [found EXCEPT ![h] = p[1]]
  <2>1. PICK p \in bad[h] : LET here == {q \in bad[h] : q[1] = p[1]} IN
          /\ nl' = RemoveNonLockedTxs(nl, {q[2] : q \in here})
          /\ bad' = [bad EXCEPT ![h] = @ \ here]
          /\ found' = [found EXCEPT ![h] = p[1]]
    BY DEF LockUntrack
  <2>2. {q \in bad[h] : q[1] = p[1]} \in SUBSET bad[h]
    OBVIOUS
  <2> QED
    BY <2>1, <2>2
<1>3. bad[h] \subseteq Above \X Txs
  BY <1>1 DEF Reported
<1>4. p[1] \in Above /\ p[1] \in Blocks
  BY <1>2, <1>3 DEF Above, IInv, Holders
<1>5. \A t \in Txs : nl'.mined[t] \in {nl.mined[t], Null}
  BY <1>2, RemoveMined DEF IInv, Linked
<1>6. PICK here \in SUBSET bad[h] : bad' = [bad EXCEPT ![h] = bad[h] \ here]
  BY <1>2 DEF Reported
<1> QED
  BY <1>1, <1>2, <1>3, <1>4, <1>5, <1>6, ReportedThread DEF Goto

\* Every step reports, tracks and invalidates connected blocks only.
LEMMA ReportedStep == IInv /\ Rooted /\ Reported /\ [Next]_vars => Reported'
<1> SUFFICES ASSUME IInv, Rooted, Reported, [Next]_vars PROVE Reported'
  OBVIOUS
<1>k. ASSUME have \subseteq have', UNCHANGED <<nl, vblk, trace, pc, found, bad>> PROVE Reported'
  BY <1>k, ReportedKept DEF Reported
<1>1. ASSUME NEW t \in Txs,
             \/ AcceptToMemoryPool(t) \/ ProcessPendingRetryLockTxs(t) \/ UpdateMempoolForReorg(t)
      PROVE  Reported'
  BY <1>1, <1>k
     DEF AcceptToMemoryPool, ProcessPendingRetryLockTxs, UpdateMempoolForReorg, chainVars, isVars,
         valVars, threadVars
<1>2. ASSUME NEW b \in Blocks, ReceiveBlock(b) \/ ProcessNewChainLock(b) PROVE Reported'
  BY <1>2, <1>k DEF ReceiveBlock, ProcessNewChainLock, chainVars, isVars, valVars, threadVars
<1>3. CASE \/ AddToMempool \/ ProcessNewTransactionRead \/ ActivateBestChain \/ ConnectBlock
           \/ EnforceBestChainLock
  BY <1>3, <1>k
     DEF AddToMempool, ProcessNewTransactionRead, ActivateBestChain, ConnectBlock,
         EnforceBestChainLock, chainVars, isVars, threadVars
<1>4. ASSUME NEW l \in Locks, ProcessMessageInstantSendLock(l) \/ TrySignInstantSendLock(l)
      PROVE  Reported'
  BY <1>4, <1>k
     DEF ProcessMessageInstantSendLock, TrySignInstantSendLock, chainVars, isVars, valVars,
         threadVars
<1>5. ASSUME NEW l \in Locks,
             ProcessPendingInstantSendLocks(l) \/ HandleNewInstantSendLockRecoveredSig(l)
      PROVE  Reported'
  <2>1. PICK h \in LockThreads : Start(h, l)
    BY <1>5 DEF ProcessPendingInstantSendLocks, HandleNewInstantSendLockRecoveredSig, LockThreads
  <2>2. Goto(h, "lookup") /\ UNCHANGED <<have, vblk, trace, found, bad, nl>>
    BY <2>1 DEF Start, chainVars, valVars, isVars
  <2> QED
    BY <2>2, SameMined, ReportedGoes
<1>6. ASSUME NEW h \in LockThreads, LockLookup(h) PROVE Reported'
  <2>1. UNCHANGED <<have, vblk, trace, nl>>
    BY <1>6 DEF LockLookup, chainVars, valVars, isVars
  <2>2. CASE Leave(h)
    BY <2>1, <2>2, SameMined, ReportedLeave
  <2>3. CASE ~Leave(h)
    <3> DEFINE f == IF LockTx[cur[h]] \in mempool THEN Null ELSE txIndex[LockTx[cur[h]]]
               B == bad[h]
    <3>1. f \in Blocks \cup {Null}
      BY <1>6, TxAssumption DEF IInv, Holders, Rooted, LockLookup
    <3>2. pc' = [pc EXCEPT ![h] = "write"] /\ found' = [found EXCEPT ![h] = f] /\ bad' = bad
      BY <1>6, <2>3 DEF LockLookup, Goto
    <3>3. bad' = [bad EXCEPT ![h] = B]
      BY <3>2 DEF Reported
    <3> HIDE DEF f, B
    <3> QED
      BY <2>1, <3>1, <3>2, <3>3, SameMined, ReportedThread
  <2> QED
    BY <2>2, <2>3
<1>7. ASSUME NEW h \in LockThreads, LockWrite(h) PROVE Reported'
  <2>1. UNCHANGED <<have, vblk, trace>>
    BY <1>7 DEF LockWrite, chainVars, valVars
  <2>2. \A t \in Txs : nl'.mined[t] \in {nl.mined[t], Null}
    <3>1. nl' = nl \/ nl' = RemoveNonLockedTxs(nl, {LockTx[cur[h]]})
      BY <1>7 DEF LockWrite, isVars
    <3> QED
      BY <3>1, RemoveMined DEF IInv, Linked
  <2>3. Leave(h) \/ (Goto(h, "mempool") /\ UNCHANGED <<found, bad>>)
    BY <1>7 DEF LockWrite
  <2> QED
    BY <2>1, <2>2, <2>3, ReportedLeave, ReportedGoes
<1>8. ASSUME NEW h \in LockThreads, LockMempool(h) \/ LockConflicted(h) PROVE Reported'
  <2>1. UNCHANGED <<have, vblk, trace, found>>
    BY <1>8 DEF LockMempool, LockConflicted, chainVars, valVars
  <2>2. \A t \in Txs : nl'.mined[t] \in {nl.mined[t], Null}
    <3>1. nl' = nl \/ nl' = RemoveNonLockedTxs(nl, bad[h])
      BY <1>8 DEF LockMempool, LockConflicted, isVars
    <3> QED
      BY <3>1, RemoveMined DEF IInv, Linked
  <2>3. PICK label \in {"collect", "conflicted"} : pc' = [pc EXCEPT ![h] = label]
    BY <1>8 DEF LockMempool, LockConflicted, Goto
  <2>4. PICK B : bad' = [bad EXCEPT ![h] = B]
    BY <1>8 DEF LockMempool, LockConflicted
  <2> DEFINE f == found[h]
  <2>5. f \in Blocks \cup {Null} /\ found' = [found EXCEPT ![h] = f]
    BY <2>1 DEF Reported
  <2> HIDE DEF f
  <2> QED
    BY <2>1, <2>2, <2>3, <2>4, <2>5, ReportedThread
<1>9. ASSUME NEW h \in LockThreads, LockResolve(h) PROVE Reported'
  <2>1. UNCHANGED <<have, vblk, trace, nl>> /\ pc[h] = "resolve"
    BY <1>9 DEF LockResolve, chainVars, valVars
  <2>2. Leave(h) \/ (Goto(h, "untrack") /\ UNCHANGED <<found, bad>>)
    BY <1>9 DEF LockResolve
  <2> QED
    BY <2>1, <2>2, SameMined, ReportedLeave, ReportedGoes
<1>10. ASSUME NEW h \in LockThreads, LockInvalidate(h) PROVE Reported'
  <2>1. UNCHANGED <<have, vblk, trace, nl>> /\ pc[h] = "invalidate"
    BY <1>10 DEF LockInvalidate
  <2>2. Leave(h) \/ (Goto(h, "untrack") /\ UNCHANGED <<found, bad>>)
    BY <1>10 DEF LockInvalidate
  <2> QED
    BY <2>1, <2>2, SameMined, ReportedLeave, ReportedGoes
<1>11. CASE HandleFullyConfirmedBlock
  <2>1. UNCHANGED <<have, vblk, trace, pc, found, bad>> /\ \E S : nl' = RemoveNonLockedTxs(nl, S)
    BY <1>11 DEF HandleFullyConfirmedBlock, chainVars, valVars, threadVars
  <2>2. \A t \in Txs : nl'.mined[t] \in {nl.mined[t], Null}
    BY <2>1, RemoveMined DEF IInv, Linked
  <2> QED
    BY <2>1, <2>2, ReportedKept DEF Reported
<1>12. CASE Restart
  BY <1>12, SMT DEF Restart, Reported, NoNonLockedTxs
<1>13. CASE UNCHANGED vars
  BY <1>13, <1>k DEF vars, chainVars, isVars, valVars, threadVars
<1> QED
  BY <1>1, <1>2, <1>3, <1>4, <1>5, <1>6, <1>7, <1>8, <1>9, <1>10, <1>11, <1>12, <1>13,
     ReportedConnectTip, ReportedBlockConnected, ReportedTrack, ReportedCollect, ReportedUntrack
     DEF Next, Validate, LockStep

-----------------------------------------------------------------------------
(* The records of CInstantSendDb. *)

\* What the operations of CInstantSendDb write are database records.
LEMMA WriteNewType ==
    ASSUME NEW d \in Dbs, NEW l \in Locks
    PROVE  WriteNewInstantSendLock(d, l) \in Dbs
BY TxAssumption DEF Dbs, WriteNewInstantSendLock

\* RemoveInstantSendLock of a set of locks.
LEMMA RemoveType ==
    ASSUME NEW d \in Dbs, NEW S
    PROVE  RemoveInstantSendLocks(d, S) \in Dbs
BY TxAssumption DEF Dbs, RemoveInstantSendLocks

\* The is_m keys.
LEMMA MinedType ==
    ASSUME NEW d \in Dbs, NEW l \in Locks, NEW h \in Nat, NEW keys
    PROVE  WriteInstantSendLockMined(d, l, h) \in Dbs /\ RemoveInstantSendLockMined(d, keys) \in Dbs
BY SMT DEF Dbs, WriteInstantSendLockMined, RemoveInstantSendLockMined

\* The is_a1 and is_a2 keys.
LEMMA ArchiveType ==
    ASSUME NEW d \in Dbs, NEW keys \in SUBSET (Nat \X Locks), NEW until
    PROVE  /\ WriteInstantSendLockArchived(d, keys) \in Dbs
           /\ RemoveArchivedInstantSendLocks(d, until) \in Dbs
<1>1. {k[2] : k \in keys} \subseteq Locks
  OBVIOUS
<1>2. WriteInstantSendLockArchived(d, keys) \in Dbs
  BY <1>1 DEF Dbs, WriteInstantSendLockArchived
<1>3. RemoveArchivedInstantSendLocks(d, until) \in Dbs
  BY DEF Dbs, RemoveArchivedInstantSendLocks
<1> QED
  BY <1>2, <1>3

\* A lock and the locks chained to it go to the archive.
LEMMA ChainedType ==
    ASSUME NEW d \in Dbs, NEW l \in Locks, NEW h \in Nat
    PROVE  RemoveChainedInstantSendLocks(d, l, h) \in Dbs
<1> DEFINE all == Chained(d, l) \cup {l}
<1>1. all \subseteq Locks
  BY DEF Dbs, Chained
<1>2. {h} \X all \in SUBSET (Nat \X Locks)
  BY <1>1
<1>3. RemoveInstantSendLocks(d, all) \in Dbs
  BY RemoveType
<1> QED
  BY <1>2, <1>3, ArchiveType DEF RemoveChainedInstantSendLocks

\* Confirmed locks go to the archive.
LEMMA ConfirmedType ==
    ASSUME NEW d \in Dbs, NEW until
    PROVE  RemoveConfirmedInstantSendLocks(d, until) \in Dbs
<1> DEFINE keys == Confirmed(d, until)
           kept == RemoveInstantSendLocks(d, {k[2] : k \in keys})
           arch == WriteInstantSendLockArchived(kept, keys)
<1>1. keys \in SUBSET (Nat \X Locks)
  BY DEF Dbs, Confirmed
<1>2. kept \in Dbs
  BY RemoveType
<1>3. arch \in Dbs
  BY <1>1, <1>2, ArchiveType
<1> HIDE DEF arch
<1>4. [arch EXCEPT !.mined = @ \ keys] \in Dbs
  BY <1>3 DEF Dbs
<1> QED
  BY <1>4 DEF RemoveConfirmedInstantSendLocks, arch

\* The stores, the votes, and what the holder of cs_main has.
Typed ==
    /\ db \in Dbs /\ retry \subseteq Txs /\ pending \subseteq Locks
    /\ voted \subseteq Txs /\ asked \subseteq Outpoints
    /\ creating \subseteq Locks /\ made \subseteq Locks
    /\ restarts \in 0 .. MaxRestarts
Equipped ==
    /\ vpc \in {"free", "add", "read", "track", "connect", "tip", "forced", "pool", "notify"}
    /\ vpc \in {"add", "read", "track"} => Inputs[vtx] # {}
    /\ vpc = "pool" => pool # {}
    /\ vlocked \in BOOLEAN /\ pool \subseteq Txs

\* Everything is empty when the node starts for the first time.
LEMMA TypedInit == Init => Typed /\ Equipped
<1>1. EmptyDb \in Dbs
  BY DEF EmptyDb, Dbs
<1>2. 0 \in 0 .. MaxRestarts
  BY ChainAssumption, SMT
<1>3. Init => Typed
  BY <1>1, <1>2 DEF Init, Typed
<1>4. Init => Equipped
  BY DEF Init, Equipped
<1> QED
  BY <1>3, <1>4

\* Only tracked transactions are retried.
LEMMA RetryType ==
    ASSUME IInv, NEW S
    PROVE  ChildrenToRetry(nl, S) \subseteq Txs
BY SMT DEF IInv, Linked, NonLocked, ChildrenToRetry

\* ProcessTx votes for the inputs of one transaction.
LEMMA VotesType ==
    ASSUME Typed, NEW t \in Txs, NEW a, ProcessTx(t, a) \/ UNCHANGED voteVars
    PROVE  voted' \subseteq Txs /\ asked' \subseteq Outpoints /\ UNCHANGED <<creating, made>>
BY TxAssumption DEF Typed, ProcessTx, voteVars

\* DisconnectTip collects the transactions of blocks.
LEMMA DisconnectType ==
    ASSUME IInv, Rooted, Typed, NEW fork, Disconnect(fork)
    PROVE  db' \in Dbs /\ pool' \subseteq Txs
<1>1. db' \in Dbs
  <2>1. \E keys : db' = RemoveInstantSendLockMined(db, keys)
    BY DEF Disconnect
  <2> QED
    BY <2>1, SMT DEF Typed, Dbs, RemoveInstantSendLockMined
<1>2. pool' \subseteq Txs
  <2>1. Anc[tip] \subseteq Blocks
    BY TreeAssumption DEF IInv, Holders, Rooted
  <2> QED
    BY <2>1, ChainAssumption DEF Disconnect
<1> QED
  BY <1>1, <1>2

\* UpdateMempoolForReorg runs only while there is something to accept.
LEMMA AfterPool ==
    ASSUME NEW p, NEW tr
    PROVE  After(p, tr) \in {"pool", "notify", "free"} /\ (After(p, tr) = "pool" => p # {})
BY DEF After

\* Every step stores values of the types.
LEMMA TypedStep == IInv /\ Rooted /\ Reported /\ Typed /\ [Next]_vars => Typed'
<1> SUFFICES ASSUME IInv, Rooted, Reported, Typed, [Next]_vars PROVE Typed'
  OBVIOUS
<1>k. ASSUME db' \in Dbs, UNCHANGED <<retry, pending, voteVars, restarts>> PROVE Typed'
  BY <1>k DEF Typed, voteVars
<1>d. db \in Dbs
  BY DEF Typed
<1>t. Height[tip] \in Nat
  BY TreeAssumption DEF IInv, Holders, Rooted
<1>1. ASSUME NEW t \in Txs, AcceptToMemoryPool(t) \/ UpdateMempoolForReorg(t) PROVE Typed'
  BY <1>1, <1>k, <1>d DEF AcceptToMemoryPool, UpdateMempoolForReorg, isVars
<1>2. ASSUME NEW t \in Txs, ProcessPendingRetryLockTxs(t) PROVE Typed'
  <2>1. ProcessTx(t, FALSE) \/ UNCHANGED voteVars
    BY <1>2 DEF ProcessPendingRetryLockTxs
  <2>2. retry' \subseteq retry /\ UNCHANGED <<db, pending, restarts>>
    BY <1>2 DEF ProcessPendingRetryLockTxs
  <2> QED
    BY <2>1, <2>2, VotesType DEF Typed
<1>3. ASSUME NEW b \in Blocks, ReceiveBlock(b) \/ ProcessNewChainLock(b) PROVE Typed'
  BY <1>3, <1>k, <1>d DEF ReceiveBlock, ProcessNewChainLock, isVars
<1>4. CASE AddToMempool \/ ConnectTip \/ BlockConnected
  BY <1>4, <1>k, <1>d DEF AddToMempool, ConnectTip, BlockConnected, isVars
<1>5. CASE ProcessNewTransactionRead
  <2>1. vtx \in Txs /\ vblk \in Blocks \cup {Null}
    BY <1>5 DEF IInv, Holders, ProcessNewTransactionRead
  <2>2. db' \in Dbs
    <3>1. CASE db' = db
      BY <1>d, <3>1
    <3>2. CASE /\ db.tx[vtx] # Null /\ vblk # Null
               /\ db' = WriteInstantSendLockMined(db, db.tx[vtx], Height[vblk])
      <4>1. db.tx[vtx] \in Locks /\ Height[vblk] \in Nat
        BY <1>d, <2>1, <3>2, TreeAssumption DEF Dbs
      <4> QED
        BY <1>d, <3>2, <4>1, MinedType
    <3> QED
      BY <1>5, <3>1, <3>2 DEF ProcessNewTransactionRead
  <2>3. ProcessTx(vtx, vblk # Null) \/ UNCHANGED voteVars
    BY <1>5 DEF ProcessNewTransactionRead
  <2>4. UNCHANGED <<retry, pending, restarts>>
    BY <1>5 DEF ProcessNewTransactionRead
  <2> QED
    BY <2>1, <2>2, <2>3, <2>4, VotesType DEF Typed
<1>6. CASE ProcessNewTransactionTrack
  <2>1. retry' = retry \/ retry' = retry \cup ChildrenToRetry(nl, {vtx})
    BY <1>6 DEF ProcessNewTransactionTrack
  <2>2. UNCHANGED <<db, pending, voted, asked, creating, made, restarts>>
    BY <1>6 DEF ProcessNewTransactionTrack, voteVars
  <2> QED
    BY <2>1, <2>2, RetryType DEF Typed
<1>7. CASE ActivateBestChain \/ EnforceBestChainLock
  <2>1. (\E fork : Disconnect(fork)) /\ UNCHANGED <<retry, pending, voteVars, restarts>>
    BY <1>7 DEF ActivateBestChain, EnforceBestChainLock
  <2> QED
    BY <2>1, <1>k, DisconnectType
<1>8. CASE ConnectBlock
  <2>1. db' = db \/ \E l \in db.lock : db' = RemoveChainedInstantSendLocks(db, l, Height[tip])
    BY <1>8 DEF ConnectBlock, GetConflictingLocks
  <2>2. db.lock \subseteq Locks
    BY <1>d DEF Dbs
  <2>3. db' \in Dbs
    BY <1>d, <1>t, <2>1, <2>2, ChainedType
  <2>4. UNCHANGED <<retry, pending, voteVars, restarts>>
    BY <1>8 DEF ConnectBlock
  <2> QED
    BY <2>3, <2>4, <1>k
<1>9. ASSUME NEW l \in Locks, ProcessMessageInstantSendLock(l) \/ TrySignInstantSendLock(l)
      PROVE  Typed'
  BY <1>9 DEF Typed, ProcessMessageInstantSendLock, TrySignInstantSendLock, isVars, voteVars
<1>10. ASSUME NEW l \in Locks,
             ProcessPendingInstantSendLocks(l) \/ HandleNewInstantSendLockRecoveredSig(l)
      PROVE  Typed'
  BY <1>10
     DEF Typed, ProcessPendingInstantSendLocks, HandleNewInstantSendLockRecoveredSig, Start, isVars,
         voteVars
<1>11. ASSUME NEW h \in LockThreads,
              \/ LockLookup(h) \/ LockMempool(h) \/ LockConflicted(h) \/ LockCollect(h)
              \/ LockUntrack(h)
       PROVE  Typed'
  BY <1>11, <1>k, <1>d, ZenonT(30)
     DEF LockLookup, LockMempool, LockConflicted, LockCollect, LockUntrack, isVars
<1>12. ASSUME NEW h \in LockThreads, LockWrite(h) PROVE Typed'
  <2> DEFINE l == cur[h]
  <2>1. l \in Locks /\ found[h] \in Blocks \cup {Null}
    BY <1>12 DEF IInv, Holders, Reported, LockWrite
  <2>2. db' \in Dbs
    <3>1. WriteNewInstantSendLock(db, l) \in Dbs
      BY <1>d, <2>1, WriteNewType
    <3>2. found[h] # Null
          => WriteInstantSendLockMined(WriteNewInstantSendLock(db, l), l, Height[found[h]]) \in Dbs
      BY <2>1, <3>1, MinedType, TreeAssumption
    <3> QED
      BY <1>12, <1>d, <3>1, <3>2 DEF LockWrite, isVars
  <2>3. retry' = retry \/ retry' = retry \cup ChildrenToRetry(nl, {LockTx[l]})
    BY <1>12 DEF LockWrite, isVars
  <2>4. asked' = asked \/ asked' = asked \ Inputs[LockTx[l]]
    BY <1>12 DEF LockWrite
  <2>5. /\ creating' = creating \ {l} /\ made' = made \cup {l}
        /\ UNCHANGED <<pending, voted, restarts>>
    BY <1>12 DEF LockWrite
  <2> HIDE DEF l
  <2> QED
    BY <2>1, <2>2, <2>3, <2>4, <2>5, RetryType DEF Typed
<1>13. ASSUME NEW h \in LockThreads, LockResolve(h) PROVE Typed'
  <2>1. cur[h] \in Locks
    BY <1>13 DEF IInv, Holders, LockResolve
  <2>2. db' = db \/ db' = RemoveChainedInstantSendLocks(db, cur[h], Height[tip])
    BY <1>13 DEF LockResolve
  <2>3. db' \in Dbs
    BY <1>d, <1>t, <2>1, <2>2, ChainedType
  <2>4. UNCHANGED <<retry, pending, voteVars, restarts>>
    BY <1>13 DEF LockResolve
  <2> QED
    BY <2>3, <2>4, <1>k
<1>14. ASSUME NEW h \in LockThreads, LockInvalidate(h) PROVE Typed'
  <2>1. db' = db \/ \E fork : Disconnect(fork)
    BY <1>14 DEF LockInvalidate, Invalidate
  <2>2. UNCHANGED <<retry, pending, voteVars, restarts>>
    BY <1>14 DEF LockInvalidate
  <2> QED
    BY <1>d, <2>1, <2>2, <1>k, DisconnectType
<1>15. CASE HandleFullyConfirmedBlock
  <2> DEFINE confirmed == RemoveConfirmedInstantSendLocks(db, Height[chainLock])
  <2>1. confirmed \in Dbs
    BY <1>d, ConfirmedType
  <2>2. db' \in Dbs
    <3> HIDE DEF confirmed
    <3>1. \A u : RemoveArchivedInstantSendLocks(confirmed, u) \in Dbs
      BY <2>1, ArchiveType
    <3> USE DEF confirmed
    <3> QED
      BY <1>15, <2>1, <3>1 DEF HandleFullyConfirmedBlock
  <2>3. \E S : retry' = retry \cup ChildrenToRetry(nl, S)
    BY <1>15 DEF HandleFullyConfirmedBlock
  <2>4. asked' \subseteq asked /\ UNCHANGED <<pending, voted, creating, made, restarts>>
    BY <1>15 DEF HandleFullyConfirmedBlock
  <2> QED
    BY <2>2, <2>3, <2>4, RetryType DEF Typed
<1>16. CASE Restart
  BY <1>16, ChainAssumption, SMT DEF Restart, Typed
<1>17. CASE UNCHANGED vars
  BY <1>17, <1>k, <1>d DEF vars, isVars
<1> QED
  BY <1>1, <1>2, <1>3, <1>4, <1>5, <1>6, <1>7, <1>8, <1>9, <1>10, <1>11, <1>12, <1>13, <1>14, <1>15,
     <1>16, <1>17 DEF Next, Validate, LockStep

\* Every step leaves the holder of cs_main with what its next one needs.
LEMMA EquippedStep == IInv /\ Rooted /\ Reported /\ Typed /\ Equipped /\ [Next]_vars => Equipped'
<1> SUFFICES ASSUME IInv, Rooted, Reported, Typed, Equipped, [Next]_vars PROVE Equipped'
  OBVIOUS
<1>k. ASSUME UNCHANGED <<vpc, vtx, vlocked, pool>> PROVE Equipped'
  BY <1>k DEF Equipped
\* The next label is chosen by After: what the holder needs is looked at first.
<1>a. ASSUME vpc' = After(pool', trace'), pool' \subseteq Txs, vlocked' \in BOOLEAN PROVE Equipped'
  <2>1. vpc' \in {"pool", "notify", "free"} /\ (vpc' = "pool" => pool' # {})
    BY <1>a, AfterPool
  <2> QED
    BY <1>a, <2>1 DEF Equipped
<1>e. pool \subseteq Txs /\ vlocked \in BOOLEAN
  BY DEF Equipped
<1>1. ASSUME NEW t \in Txs, AcceptToMemoryPool(t) PROVE Equipped'
  BY <1>1, <1>e DEF AcceptToMemoryPool, Acceptable, Equipped
<1>2. ASSUME NEW t \in Txs, UpdateMempoolForReorg(t) PROVE Equipped'
  <2>1. pool' \subseteq Txs /\ vlocked' \in BOOLEAN
    BY <1>2, <1>e DEF UpdateMempoolForReorg
  <2>2. CASE Acceptable(t)
    BY <1>2, <2>1, <2>2 DEF UpdateMempoolForReorg, Acceptable, Equipped
  <2>3. CASE ~Acceptable(t)
    <3>1. vpc' = After(pool', trace')
      BY <1>2, <2>3 DEF UpdateMempoolForReorg
    <3> QED
      BY <2>1, <3>1, <1>a
  <2> QED
    BY <2>2, <2>3
<1>3. CASE AddToMempool
  BY <1>3 DEF AddToMempool, Equipped
<1>4. CASE ProcessNewTransactionRead
  <2>1. vlocked' \in BOOLEAN /\ vpc = "read" /\ vpc' = "track" /\ UNCHANGED <<vtx, pool>>
    BY <1>4 DEF ProcessNewTransactionRead
  <2> QED
    BY <2>1 DEF Equipped
<1>5. CASE ProcessNewTransactionTrack
  <2>1. vpc' = After(pool', trace') /\ pool' = pool /\ vlocked' = FALSE
    BY <1>5 DEF ProcessNewTransactionTrack
  <2> QED
    BY <1>a, <1>e, <2>1
<1>6. CASE ActivateBestChain
  <2>1. (\E fork : Disconnect(fork)) /\ vpc' = "connect" /\ vlocked' = vlocked
    BY <1>6 DEF ActivateBestChain
  <2>2. pool' \subseteq Txs
    BY <2>1, DisconnectType
  <2> QED
    BY <1>e, <2>1, <2>2 DEF Equipped
<1>7. CASE ConnectBlock
  <2>1. UNCHANGED <<trace, pool, vlocked, vtx>>
    BY <1>7 DEF ConnectBlock
  <2>2. vpc' = After(pool, trace) \/ vpc' \in {"tip", "forced"}
    BY <1>7 DEF ConnectBlock
  <2>3. CASE vpc' = After(pool, trace)
    BY <1>a, <1>e, <2>1, <2>3
  <2>4. CASE vpc' \in {"tip", "forced"}
    BY <1>e, <2>1, <2>4 DEF Equipped
  <2> QED
    BY <2>2, <2>3, <2>4
<1>8. CASE ConnectTip
  <2>1. (\E t : pool' = pool \ {t}) /\ vlocked' = vlocked
    BY <1>8 DEF ConnectTip
  <2>2. pool' \subseteq Txs
    BY <1>e, <2>1
  <2>3. vpc' = After(pool', trace') \/ vpc' = "connect"
    BY <1>8 DEF ConnectTip
  <2>4. CASE vpc' = "connect"
    BY <1>e, <2>1, <2>2, <2>4 DEF Equipped
  <2> QED
    BY <1>a, <1>e, <2>1, <2>2, <2>3, <2>4
<1>9. CASE BlockConnected
  <2>1. pool' = pool /\ vlocked' = vlocked
    BY <1>9 DEF BlockConnected
  <2>2. \/ vpc' = After(pool', trace')
        \/ vpc' = "read" /\ Inputs[vtx'] # {}
    BY <1>9 DEF BlockConnected
  <2>3. CASE vpc' = "read" /\ Inputs[vtx'] # {}
    BY <1>e, <2>1, <2>3 DEF Equipped
  <2> QED
    BY <1>a, <1>e, <2>1, <2>2, <2>3
<1>10. CASE EnforceBestChainLock
  <2>1. (\E fork : Disconnect(fork)) /\ vpc' = After(pool', trace') /\ vlocked' = vlocked
    BY <1>10 DEF EnforceBestChainLock
  <2>2. pool' \subseteq Txs
    BY <2>1, DisconnectType
  <2> QED
    BY <1>a, <1>e, <2>1, <2>2
<1>11. ASSUME NEW h \in LockThreads, LockInvalidate(h) PROVE Equipped'
  <2>1. UNCHANGED <<trace, vtx, vlocked>>
    BY <1>11 DEF LockInvalidate
  <2>2. \/ (\E fork : Disconnect(fork)) /\ vpc' = After(pool', trace)
        \/ UNCHANGED <<pool, vpc>>
    BY <1>11 DEF LockInvalidate, Invalidate
  <2>3. CASE (\E fork : Disconnect(fork)) /\ vpc' = After(pool', trace)
    <3>1. pool' \subseteq Txs
      BY <2>3, DisconnectType
    <3> QED
      BY <1>a, <1>e, <2>1, <2>3, <3>1
  <2> QED
    BY <1>k, <2>1, <2>2, <2>3
<1>12. CASE Restart
  BY <1>12 DEF Restart, Equipped
<1>13. ASSUME UNCHANGED valVars PROVE Equipped'
  BY <1>13, <1>k DEF valVars
<1>14. ASSUME NEW t \in Txs, ProcessPendingRetryLockTxs(t) PROVE Equipped'
  BY <1>14, <1>13 DEF ProcessPendingRetryLockTxs
<1>15. ASSUME NEW b \in Blocks, ReceiveBlock(b) \/ ProcessNewChainLock(b) PROVE Equipped'
  BY <1>15, <1>13 DEF ReceiveBlock, ProcessNewChainLock
<1>16. ASSUME NEW l \in Locks,
              \/ ProcessMessageInstantSendLock(l) \/ ProcessPendingInstantSendLocks(l)
              \/ TrySignInstantSendLock(l) \/ HandleNewInstantSendLockRecoveredSig(l)
       PROVE  Equipped'
  BY <1>16, <1>13
     DEF ProcessMessageInstantSendLock, ProcessPendingInstantSendLocks, TrySignInstantSendLock,
         HandleNewInstantSendLockRecoveredSig, Start
<1>17. ASSUME NEW h \in LockThreads,
              \/ LockLookup(h) \/ LockWrite(h) \/ LockMempool(h) \/ LockConflicted(h)
              \/ LockCollect(h) \/ LockResolve(h) \/ LockUntrack(h)
       PROVE  Equipped'
  BY <1>17, <1>13
     DEF LockLookup, LockWrite, LockMempool, LockConflicted, LockCollect, LockResolve, LockUntrack
<1>18. CASE HandleFullyConfirmedBlock
  BY <1>18, <1>13 DEF HandleFullyConfirmedBlock
<1>19. CASE UNCHANGED vars
  BY <1>19, <1>13 DEF vars
<1> QED
  BY <1>1, <1>2, <1>3, <1>4, <1>5, <1>6, <1>7, <1>8, <1>9, <1>10, <1>11, <1>12, <1>14, <1>15, <1>16,
     <1>17, <1>18, <1>19 DEF Next, Validate, LockStep

-----------------------------------------------------------------------------
\* The steps that go back to a fork need the tree.

\* FindFork finds a common ancestor.
LEMMA ForkBelow ==
    ASSUME NEW a \in Blocks, NEW b \in Blocks
    PROVE  ForkOf[a][b] \in Anc[a] /\ ForkOf[a][b] \in Anc[b]
<1>1. \E f \in Anc[a] \cap Anc[b] : \A x \in Anc[a] \cap Anc[b] : Height[x] <= Height[f]
  BY ForkExists, TreeAssumption
<1>2. ForkOf[a][b] = CHOOSE f \in Anc[a] \cap Anc[b] :
                         \A x \in Anc[a] \cap Anc[b] : Height[x] <= Height[f]
  BY DEF ForkOf
<1> QED
  BY <1>1, <1>2

\* The tip goes back to the fork, and the goal is on the way to a block we have.
LEMMA RootedActivate ==
    ASSUME IInv, Rooted, ActivateBestChain
    PROVE  Rooted'
<1>1. PICK m \in MostWork \ {tip} :
          /\ Disconnect(ForkOf[tip][m])
          /\ \E b \in Anc[m] : Height[b] = Height[tip] + 1 /\ goal' = b
  BY DEF ActivateBestChain
<1>2. m \in have /\ have \subseteq Blocks /\ tip \in have
  BY <1>1 DEF IInv, Holders, MostWork, Usable, Rooted
<1>3. tip' \in Anc[tip]
  BY <1>1, <1>2, ForkBelow DEF Disconnect
<1>4. goal' \in Anc[m]
  BY <1>1
<1>5. UNCHANGED <<have, failed, base, txIndex, chainLock, notified>>
  BY DEF ActivateBestChain, clVars
<1> QED
  BY <1>2, <1>3, <1>4, <1>5 DEF Rooted

\* The tip goes back to the fork with the ChainLock.
LEMMA RootedEnforce ==
    ASSUME IInv, Rooted, EnforceBestChainLock
    PROVE  Rooted'
<1>1. chainLock \in have /\ tip \in have /\ have \subseteq Blocks
  BY ZenonT(30) DEF IInv, Holders, Rooted, EnforceBestChainLock
<1>2. tip' \in Anc[tip]
  BY <1>1, ForkBelow DEF EnforceBestChainLock, Disconnect
<1>3. failed' \subseteq have
  <2>1. \E marked \in SUBSET have : failed' = ResetBlockFailureFlags(marked)
    BY <1>1, ZenonT(30) DEF Rooted, EnforceBestChainLock
  <2> QED
    BY <2>1 DEF ResetBlockFailureFlags
<1>4. vpc' \in {"pool", "notify", "free"}
  BY AfterFree, ZenonT(30) DEF EnforceBestChainLock
<1>5. UNCHANGED <<have, base, txIndex, chainLock, notified>>
  BY DEF EnforceBestChainLock, clVars
<1> QED
  BY <1>1, <1>2, <1>3, <1>4, <1>5 DEF Rooted

\* Every step keeps the tree.
LEMMA RootedStep == IInv /\ Rooted /\ Reported /\ [Next]_vars => Rooted'
<1> SUFFICES ASSUME IInv, Rooted, Reported, [Next]_vars PROVE Rooted'
  OBVIOUS
<1>1. ASSUME NEW t \in Txs, AcceptToMemoryPool(t) \/ ProcessPendingRetryLockTxs(t) PROVE Rooted'
  BY <1>1, RootedKept, ZenonT(30)
     DEF AcceptToMemoryPool, ProcessPendingRetryLockTxs, clVars, valVars
<1>2. ASSUME NEW b \in Blocks \ {Genesis}, ProcessNewChainLock(b) PROVE Rooted'
  BY <1>2 DEF ProcessNewChainLock, Rooted, chainVars, valVars
<1>3. CASE AddToMempool \/ ProcessNewTransactionRead \/ ProcessNewTransactionTrack
  BY <1>3, RootedKept, AfterFree
     DEF AddToMempool, ProcessNewTransactionRead, ProcessNewTransactionTrack, clVars
<1>4. CASE BlockConnected \/ \E t \in Txs : UpdateMempoolForReorg(t)
  BY <1>4, RootedKept, AfterFree DEF BlockConnected, UpdateMempoolForReorg, clVars
<1>5. ASSUME NEW l \in Locks,
             ProcessMessageInstantSendLock(l) \/ TrySignInstantSendLock(l)
                \/ ProcessPendingInstantSendLocks(l) \/ HandleNewInstantSendLockRecoveredSig(l)
      PROVE  Rooted'
  BY <1>5, RootedKept
     DEF ProcessMessageInstantSendLock, TrySignInstantSendLock, ProcessPendingInstantSendLocks,
         HandleNewInstantSendLockRecoveredSig, Start, clVars, valVars
<1>6. ASSUME NEW h \in LockThreads,
             \/ LockLookup(h) \/ LockWrite(h) \/ LockMempool(h) \/ LockConflicted(h)
             \/ LockCollect(h) \/ LockResolve(h) \/ LockUntrack(h)
      PROVE  Rooted'
  BY <1>6, RootedKept
     DEF LockLookup, LockWrite, LockMempool, LockConflicted, LockCollect, LockResolve, LockUntrack,
         clVars, valVars
<1>7. CASE HandleFullyConfirmedBlock
  BY <1>7, RootedKept, ZenonT(30) DEF HandleFullyConfirmedBlock, valVars
<1>8. CASE Restart
  <2>1. \E b \in Anc[tip] : tip' = b /\ base' = b
    BY <1>8 DEF Restart
  <2>2. chainLock' = Null /\ notified' = Null /\ vpc' = "free" /\ UNCHANGED <<have, failed, txIndex>>
    BY <1>8 DEF Restart
  <2> QED
    BY <2>1, <2>2 DEF Rooted
<1>9. CASE UNCHANGED vars
  BY <1>9, RootedKept DEF vars, clVars, valVars
<1> QED
  BY <1>1, <1>2, <1>3, <1>4, <1>5, <1>6, <1>7, <1>8, <1>9, RootedReceive, RootedActivate,
     RootedConnectBlock, RootedConnectTip, RootedInvalidate, RootedEnforce
     DEF Next, Validate, LockStep

\* Every variable holds values of its type, and the thread that holds cs_main always
\* has what its next step dereferences: a transaction with inputs after
\* AcceptToMemoryPool and BlockConnected, a block to reach in ActivateBestChainStep,
\* a block to report; found never names a block that does not exist, so the heights
\* that LockWrite stores are those of blocks.
THEOREM TypeCorrect == Spec => []TypeOK
<1>1. Init => IInv /\ Rooted /\ Reported /\ Typed /\ Equipped
  BY InitInv, RootedInit, ReportedInit, TypedInit
<1>2. IInv /\ [Next]_vars => IInv'
  BY NextInv
<1>3. IInv /\ Rooted /\ Reported /\ Typed /\ Equipped /\ [Next]_vars
      => Rooted' /\ Reported' /\ Typed' /\ Equipped'
  BY RootedStep, ReportedStep, TypedStep, EquippedStep, ZenonT(30)
<1>4. IInv /\ Rooted /\ Reported /\ Typed /\ Equipped => TypeOK
  BY DEF IInv, Linked, Holders, Rooted, Reported, Typed, Equipped, TypeOK
<1> QED
  BY <1>1, <1>2, <1>3, <1>4, PTL DEF Spec

-----------------------------------------------------------------------------
(***************************************************************************)
(* A transaction that no lock concerns stays tracked.  Four invariants:    *)
(* Apart and Traced, of the thread that holds cs_main (what it has yet to  *)
(* report, and that it reports the truth); Concerned, of the lock threads  *)
(* (the locks they find in the database are known, and what they are about *)
(* to untrack is excluded by one of them); and Tracked, which extends      *)
(* UnconcernedTracked to the time between a change and its report.  First  *)
(* three facts about the tree of blocks.                                   *)
(***************************************************************************)

\* The ancestors of a block are below it, and theirs are among them.
LEMMA Below ==
    ASSUME NEW b \in Blocks, NEW a \in Anc[b]
    PROVE  a \in Blocks /\ Anc[a] \subseteq Anc[b] /\ b \in Anc[b]
<1>1. b \in Anc[b] /\ Anc[b] \subseteq Blocks
  BY AncSelf, TreeAssumption
<1>2. Anc[a] \subseteq Anc[b]
  BY Ancestry, TreeAssumption
<1> QED
  BY <1>1, <1>2

\* The block after x on the way to g adds itself to the chain.
LEMMA OneUp ==
    ASSUME NEW g \in Blocks, NEW x \in Anc[g], NEW b \in Anc[g], Height[b] = Height[x] + 1
    PROVE  Anc[b] = Anc[x] \cup {b}
<1>1. x \in Blocks /\ b \in Blocks /\ Anc[b] \subseteq Anc[g]
  BY Below
<1>2. b # Genesis
  BY <1>1, TreeAssumption, SMT
<1>3. Parent[b] \in Anc[g]
  BY <1>1, <1>2, ParentBelow
<1>4. Height[Parent[b]] = Height[x]
  <2>1. Height[b] = Height[Parent[b]] + 1 /\ Parent[b] \in Blocks
    BY <1>1, <1>2, TreeAssumption
  <2>2. Height[Parent[b]] \in Nat /\ Height[x] \in Nat
    BY <1>1, <2>1, TreeAssumption
  <2> QED
    BY <2>1, <2>2, SMT
<1>5. Parent[b] = x
  BY <1>3, <1>4, SameHeightSame, TreeAssumption
<1> QED
  BY <1>1, <1>2, <1>5, TreeAssumption

\* Going back to the fork leaves the tip on the way to the goal.
LEMMA ForkOnTheWay ==
    ASSUME NEW a \in Blocks, NEW m \in Blocks, NEW b \in Anc[m], Height[b] = Height[a] + 1
    PROVE  ForkOf[a][m] \in Anc[a] /\ ForkOf[a][m] \in Anc[b]
<1> DEFINE f == ForkOf[a][m]
<1>1. f \in Anc[a] /\ f \in Anc[m]
  BY ForkBelow
<1>2. b \in Blocks /\ f \in Blocks
  BY <1>1, Below
<1>3. Height[f] <= Height[a]
  BY <1>1, AncSelf, TreeAssumption
<1> HIDE DEF f
<1>4. Height[f] <= Height[b]
  BY <1>2, <1>3, TreeAssumption, SMT
<1>5. f \in Anc[b]
  BY <1>1, <1>4, Ancestry, TreeAssumption
<1> QED
  BY <1>1, <1>5 DEF f

-----------------------------------------------------------------------------
\* What is in the mempool, what waits in the disconnectpool and what the chain
\* holds are apart; the holder of cs_main is on the way to its goal, and reports a
\* transaction of the mempool without a block, or a transaction of the chain with
\* the block it is in.
Apart ==
    /\ \A t \in mempool : ~MinedIn(t, tip)
    /\ \A t \in pool : t \notin mempool
    /\ vpc = "free" => pool = {} /\ trace = <<>>
    /\ vpc \in {"connect", "tip", "forced"} => tip \in Anc[goal]
    /\ vpc = "add" => vtx \notin pool
    /\ vpc \notin {"read", "track"} => vblk = Null
    /\ vpc \in {"add", "read", "track"} /\ vblk = Null => ~MinedIn(vtx, tip)
    /\ vblk # Null => vblk \in Anc[tip] /\ BlockTx[vblk] = vtx

\* The blocks in the ConnectTrace are active.  What they evicted has not come back
\* to the mempool and does not wait to; if it is in the chain, it got there in a
\* block that is reported later.
Entry(n) ==
    /\ trace[n][1] \in Anc[tip]
    /\ \A t \in trace[n][2] : t \notin mempool /\ t \notin pool
    /\ vpc = "add" => vtx \notin trace[n][2]
    /\ \A b \in Anc[tip] :
          BlockTx[b] \in trace[n][2] => \E m \in n + 1 .. Len(trace) : trace[m][1] = b
Traced == \A n \in 1 .. Len(trace) : Entry(n)

\* cs_main is released when nothing is left to do.
LEMMA AfterDone ==
    ASSUME NEW p, NEW tr
    PROVE  /\ After(p, tr) \in {"pool", "notify", "free"}
           /\ After(p, tr) = "free" => p = {} /\ tr = <<>>
BY DEF After

\* Nothing is in the mempool, the disconnectpool or the trace at first.
LEMMA ApartInit == Init => Apart /\ Traced
<1>1. Init => Apart
  BY DEF Init, Apart
<1>2. Init => Traced
  BY SMT DEF Init, Traced
<1> QED
  BY <1>1, <1>2

\* An empty trace has no entry.
LEMMA NoEntry ==
    ASSUME trace' = <<>>
    PROVE  Traced'
BY SMT DEF Traced

\* A step that leaves the chain and the trace alone, and brings nothing back that
\* was evicted.
LEMMA TracedKept ==
    ASSUME Traced, UNCHANGED <<tip, trace>>,
           \A n \in 1 .. Len(trace) : \A t \in trace[n][2] :
               t \notin mempool' /\ t \notin pool' /\ (vpc' = "add" => t # vtx')
    PROVE  Traced'
<1> SUFFICES ASSUME NEW n \in 1 .. Len(trace) PROVE Entry(n)'
  BY DEF Traced
<1>1. Entry(n)
  BY DEF Traced
<1>2. \A b \in Anc[tip] :
          BlockTx[b] \in trace[n][2] => \E m \in n + 1 .. Len(trace) : trace[m][1] = b
  BY <1>1 DEF Entry
<1>3. trace'[n][1] \in Anc[tip']
  BY <1>1 DEF Entry
<1> QED
  BY <1>2, <1>3 DEF Entry

\* A step that leaves the chain alone, and what the holder of cs_main is about.
LEMMA ApartKept ==
    ASSUME Apart, Traced, UNCHANGED <<tip, vpc, vtx, vblk, goal, trace, pool>>,
           mempool' \subseteq mempool
    PROVE  Apart' /\ Traced'
<1>1. Apart'
  BY DEF Apart, MinedIn
<1>2. \A n \in 1 .. Len(trace) : \A t \in trace[n][2] :
          t \notin mempool' /\ t \notin pool' /\ (vpc' = "add" => t # vtx')
  <2>1. ASSUME NEW n \in 1 .. Len(trace), NEW t \in trace[n][2]
        PROVE  t \notin mempool /\ t \notin pool /\ (vpc = "add" => t # vtx)
    BY <2>1 DEF Traced, Entry
  <2> QED
    BY <2>1
<1>3. Traced'
  BY <1>2, TracedKept
<1> QED
  BY <1>1, <1>3

\* A step of the holder of cs_main that adds nothing to the mempool, the
\* disconnectpool or the chain.
LEMMA ApartGoes ==
    ASSUME Apart, Traced, tip' = tip, trace' = trace, pool' \subseteq pool,
           mempool' \subseteq mempool,
           vpc' \notin {"add", "read", "track"}, vblk' = Null,
           vpc' = "free" => pool' = {} /\ trace' = <<>>,
           vpc' \in {"connect", "tip", "forced"} => vpc \in {"connect", "tip", "forced"} /\ goal' = goal
    PROVE  Apart' /\ Traced'
<1>1. Apart'
  BY DEF Apart, MinedIn
<1>2. Traced'
  <2>1. \A n \in 1 .. Len(trace) : \A t \in trace[n][2] : t \notin mempool' /\ t \notin pool'
    BY DEF Traced, Entry
  <2> QED
    BY <2>1, TracedKept
<1> QED
  BY <1>1, <1>2

\* Transactions.
LEMMA ApartAccept ==
    ASSUME Apart, Traced, NEW t \in Txs, AcceptToMemoryPool(t)
    PROVE  Apart' /\ Traced'
<1>1. /\ vpc = "free" /\ vpc' = "add" /\ vtx' = t /\ ~MinedIn(t, tip)
      /\ UNCHANGED <<tip, mempool, vblk, goal, trace, pool>>
  BY DEF AcceptToMemoryPool, Acceptable, chainVars
<1>2. Apart'
  BY <1>1 DEF Apart, MinedIn
<1>3. Traced'
  BY <1>1, NoEntry DEF Apart
<1> QED
  BY <1>2, <1>3

LEMMA ApartAdd ==
    ASSUME Apart, Traced, AddToMempool
    PROVE  Apart' /\ Traced'
<1>1. /\ vpc = "add" /\ vpc' = "read" /\ mempool' = mempool \cup {vtx}
      /\ UNCHANGED <<tip, vtx, vblk, goal, trace, pool>>
  BY DEF AddToMempool, chainVars
<1>2. vblk = Null /\ ~MinedIn(vtx, tip) /\ vtx \notin pool
  BY <1>1 DEF Apart
<1>3. Apart'
  BY <1>1, <1>2 DEF Apart, MinedIn
<1>4. Traced'
  <2>1. \A n \in 1 .. Len(trace) : \A t \in trace[n][2] : t \notin mempool' /\ t \notin pool'
    BY <1>1 DEF Traced, Entry
  <2> QED
    BY <1>1, <2>1, TracedKept
<1> QED
  BY <1>3, <1>4

LEMMA ApartRead ==
    ASSUME Apart, Traced, ProcessNewTransactionRead
    PROVE  Apart' /\ Traced'
<1>1. /\ vpc = "read" /\ vpc' = "track"
      /\ UNCHANGED <<tip, mempool, vtx, vblk, goal, trace, pool>>
  BY DEF ProcessNewTransactionRead, chainVars
<1>2. Apart'
  BY <1>1 DEF Apart, MinedIn
<1>3. Traced'
  <2>1. \A n \in 1 .. Len(trace) : \A t \in trace[n][2] : t \notin mempool' /\ t \notin pool'
    BY <1>1 DEF Traced, Entry
  <2> QED
    BY <1>1, <2>1, TracedKept
<1> QED
  BY <1>2, <1>3

LEMMA ApartTrack ==
    ASSUME Apart, Traced, ProcessNewTransactionTrack
    PROVE  Apart' /\ Traced'
<1>1. /\ vpc' = After(pool, trace) /\ vblk' = Null
      /\ UNCHANGED <<tip, mempool, trace, pool>>
  BY DEF ProcessNewTransactionTrack, chainVars
<1>2. /\ vpc' \in {"pool", "notify", "free"}
      /\ vpc' = "free" => pool' = {} /\ trace' = <<>>
  BY <1>1, AfterDone
<1> QED
  BY <1>1, <1>2, ApartGoes

\* The transactions that were accepted before come back, or do not.
LEMMA ApartReorg ==
    ASSUME Apart, Traced, NEW t \in Txs, UpdateMempoolForReorg(t)
    PROVE  Apart' /\ Traced'
<1>1. /\ vpc = "pool" /\ t \in pool /\ pool' = pool \ {t}
      /\ UNCHANGED <<tip, vblk, goal, trace>>
  BY DEF UpdateMempoolForReorg, chainVars
<1>2. vblk = Null
  BY <1>1 DEF Apart
<1>3. CASE Acceptable(t)
  <2>1. vpc' = "add" /\ vtx' = t /\ mempool' = mempool /\ ~MinedIn(t, tip)
    BY <1>3 DEF UpdateMempoolForReorg, Acceptable
  <2>2. Apart'
    BY <1>1, <1>2, <2>1 DEF Apart, MinedIn
  <2>3. Traced'
    <3>1. \A n \in 1 .. Len(trace) : \A x \in trace[n][2] : x \notin mempool /\ x \notin pool
      BY DEF Traced, Entry
    <3>2. \A n \in 1 .. Len(trace) : \A x \in trace[n][2] : x \notin mempool' /\ x \notin pool' /\ x # t
      BY <1>1, <2>1, <3>1
    <3> QED
      BY <1>1, <2>1, <3>2, TracedKept
  <2> QED
    BY <2>2, <2>3
<1>4. CASE ~Acceptable(t)
  <2>1. vpc' = After(pool', trace) /\ mempool' \subseteq mempool
    BY <1>4 DEF UpdateMempoolForReorg, Without
  <2>2. /\ vpc' \in {"pool", "notify", "free"}
        /\ vpc' = "free" => pool' = {} /\ trace' = <<>>
    BY <1>1, <2>1, AfterDone
  <2>3. pool' \subseteq pool
    BY <1>1
  <2> QED
    BY <1>1, <1>2, <2>1, <2>2, <2>3, ApartGoes
<1> QED
  BY <1>3, <1>4

\* Blocks.  DisconnectTip moves transactions of the chain to the disconnectpool.
LEMMA ApartDisconnect ==
    ASSUME Apart, tip \in Blocks, NEW f \in Anc[tip], vpc = "free", Disconnect(f),
           UNCHANGED <<mempool, vblk, trace>>,
           vpc' \in {"connect", "pool", "notify", "free"},
           vpc' = "connect" => f \in Anc[goal'], vpc' = "free" => pool' = {}
    PROVE  Apart' /\ Traced'
<1>1. tip' = f /\ \A t \in pool' : MinedIn(t, tip)
  BY DEF Disconnect, MinedIn
<1>2. Anc[f] \subseteq Anc[tip]
  BY Below
<1>3. trace' = <<>> /\ vblk' = Null
  BY DEF Apart
<1>4. \A t \in mempool' : ~MinedIn(t, tip) /\ ~MinedIn(t, tip')
  BY <1>1, <1>2 DEF Apart, MinedIn
<1>5. \A t \in pool' : t \notin mempool'
  BY <1>1, <1>4
<1>6. Apart'
  BY <1>1, <1>3, <1>4, <1>5 DEF Apart, MinedIn
<1> QED
  BY <1>3, <1>6, NoEntry

LEMMA ApartActivate ==
    ASSUME IInv, Rooted, Apart, ActivateBestChain
    PROVE  Apart' /\ Traced'
<1>1. PICK m \in MostWork \ {tip} :
          /\ Disconnect(ForkOf[tip][m])
          /\ \E b \in Anc[m] : Height[b] = Height[tip] + 1 /\ goal' = b
  BY DEF ActivateBestChain
<1>2. m \in Blocks /\ tip \in Blocks
  BY <1>1 DEF IInv, Holders, MostWork, Usable, Rooted
<1>3. ForkOf[tip][m] \in Anc[tip] /\ ForkOf[tip][m] \in Anc[goal']
  BY <1>1, <1>2, ForkOnTheWay
<1>4. vpc = "free" /\ vpc' = "connect" /\ UNCHANGED <<mempool, vblk, trace>>
  BY DEF ActivateBestChain
<1> QED
  BY <1>1, <1>2, <1>3, <1>4, ApartDisconnect

LEMMA ApartEnforce ==
    ASSUME IInv, Rooted, Apart, EnforceBestChainLock
    PROVE  Apart' /\ Traced'
<1>1. chainLock \in Blocks /\ tip \in Blocks
  BY ZenonT(30) DEF IInv, Holders, Rooted, EnforceBestChainLock
<1>2. ForkOf[tip][chainLock] \in Anc[tip]
  BY <1>1, ForkBelow
<1>3. /\ vpc = "free" /\ vpc' = After(pool', trace) /\ Disconnect(ForkOf[tip][chainLock])
      /\ UNCHANGED <<mempool, vblk, trace>>
  BY ZenonT(30) DEF EnforceBestChainLock
<1>4. vpc' \in {"pool", "notify", "free"} /\ (vpc' = "free" => pool' = {})
  BY <1>3, AfterDone
<1> QED
  BY <1>1, <1>2, <1>3, <1>4, ApartDisconnect

LEMMA ApartInvalidate ==
    ASSUME IInv, Rooted, Reported, Apart, Traced, NEW h \in LockThreads, LockInvalidate(h)
    PROVE  Apart' /\ Traced'
<1> DEFINE b == found[h]
<1>1. b \in Blocks \ {Genesis} /\ tip \in Blocks /\ Invalidate(b, failed) /\ vpc = "free"
  BY DEF IInv, Holders, Rooted, Reported, Above, LockInvalidate
<1>2. UNCHANGED <<mempool, vtx, vblk, goal, trace>>
  BY DEF LockInvalidate
<1> HIDE DEF b
<1>3. CASE b \in Anc[tip]
  <2>1. Parent[b] \in Anc[tip]
    BY <1>1, <1>3, ParentBelow, Below
  <2>2. Disconnect(Parent[b]) /\ vpc' = After(pool', trace)
    BY <1>1, <1>3 DEF Invalidate
  <2>3. vpc' \in {"pool", "notify", "free"} /\ (vpc' = "free" => pool' = {})
    BY <2>2, AfterDone
  <2> QED
    BY <1>1, <1>2, <2>1, <2>2, <2>3, ApartDisconnect
<1>4. CASE b \notin Anc[tip]
  <2>1. UNCHANGED <<tip, pool, vpc>>
    BY <1>1, <1>4 DEF Invalidate
  <2> QED
    BY <1>2, <2>1, ApartKept
<1> QED
  BY <1>3, <1>4

LEMMA ApartConnectBlock ==
    ASSUME Apart, Traced, ConnectBlock
    PROVE  Apart' /\ Traced'
<1>1. /\ vpc = "connect" /\ UNCHANGED <<tip, mempool, vblk, trace, pool>>
      /\ vpc' = After(pool, trace) \/ (vpc' \in {"tip", "forced"} /\ goal' = goal)
  BY DEF ConnectBlock
<1>2. vblk' = Null
  BY <1>1 DEF Apart
<1>3. /\ vpc' \in {"pool", "notify", "free", "tip", "forced"}
      /\ vpc' = "free" => pool' = {} /\ trace' = <<>>
      /\ vpc' \in {"connect", "tip", "forced"} => goal' = goal
  <2>1. CASE vpc' = After(pool, trace)
    <3>1. vpc' \in {"pool", "notify", "free"} /\ (vpc' = "free" => pool = {} /\ trace = <<>>)
      BY <2>1, AfterDone
    <3> QED
      BY <1>1, <3>1
  <2>2. CASE vpc' \in {"tip", "forced"} /\ goal' = goal
    BY <2>2
  <2> QED
    BY <1>1, <2>1, <2>2
<1> QED
  BY <1>1, <1>2, <1>3, ApartGoes

\* A connected block takes its transaction out of the mempool and the
\* disconnectpool, and what conflicts with it out of the mempool.
LEMMA ApartConnectTip ==
    ASSUME IInv, Rooted, Apart, Traced, ConnectTip
    PROVE  Apart' /\ Traced'
<1> DEFINE E(b) == IF BlockTx[b] = Null THEN {}
                   ELSE (mempool \ {BlockTx[b]}) \ Without(mempool, Conflicting(BlockTx[b]))
<1>1. PICK b \in Anc[goal] :
          /\ NextBlock(b) /\ tip' = b
          /\ mempool' = mempool \ (E(b) \cup {BlockTx[b]}) /\ pool' = pool \ {BlockTx[b]}
          /\ trace' = Append(trace, <<b, E(b)>>)
          /\ \/ vpc' = After(pool', trace')
             \/ vpc' = "connect" /\ goal' = goal
  BY DEF ConnectTip
<1>2. E(b) \subseteq mempool /\ BlockTx[b] \notin E(b)
  OBVIOUS
<1> HIDE DEF E
<1>3. vpc \in {"tip", "forced"} /\ vblk' = vblk
  BY DEF ConnectTip
<1>4. goal \in Blocks /\ tip \in Anc[goal] /\ vblk' = Null
  BY <1>3 DEF IInv, Holders, Apart
<1>5. Anc[b] = Anc[tip] \cup {b}
  <2>1. Height[b] = Height[tip] + 1
    BY <1>1 DEF NextBlock
  <2>2. \A x, y \in Anc[goal] : Height[y] = Height[x] + 1 => Anc[y] = Anc[x] \cup {y}
    BY <1>4, OneUp
  <2> QED
    BY <1>4, <2>1, <2>2
<1>6. /\ vpc' \in {"pool", "notify", "free", "connect"}
      /\ vpc' = "free" => pool' = {} /\ trace' = <<>>
      /\ vpc' = "connect" => tip' \in Anc[goal']
  BY <1>1, AfterDone
<1>7. \A t \in mempool' : t \in mempool /\ t # BlockTx[b] /\ t \notin E(b)
  BY <1>1
<1>8. \A t \in mempool' : ~MinedIn(t, b)
  BY <1>5, <1>7 DEF Apart, MinedIn
<1>9. Apart'
  <2>1. \A t \in pool' : t \notin mempool'
    BY <1>1, <1>7 DEF Apart
  <2>2. (\A t \in mempool : ~MinedIn(t, tip))'
    BY <1>1, <1>8 DEF MinedIn
  <2> QED
    BY <1>4, <1>6, <2>1, <2>2 DEF Apart
<1>10. trace \in Seq(Blocks \X SUBSET Txs)
  BY DEF IInv, Holders
<1>11. /\ Len(trace) \in Nat /\ Len(trace') = Len(trace) + 1 /\ trace'[Len(trace) + 1] = <<b, E(b)>>
       /\ \A n \in 1 .. Len(trace) : trace'[n] = trace[n]
  BY <1>1, <1>10, SMT
<1>12. ASSUME NEW n \in 1 .. Len(trace) PROVE Entry(n)'
  <2>1. Entry(n) /\ trace'[n] = trace[n]
    BY <1>11 DEF Traced
  <2>2. trace[n][1] \in Anc[b] /\ \A t \in trace[n][2] : t \notin mempool' /\ t \notin pool'
    BY <1>1, <1>5, <1>7, <2>1 DEF Entry
  <2>3. ASSUME NEW c \in Anc[b], BlockTx[c] \in trace[n][2]
        PROVE  \E m \in n + 1 .. Len(trace) + 1 : trace'[m][1] = c
    <3>1. CASE c \in Anc[tip]
      <4>1. PICK m \in n + 1 .. Len(trace) : trace[m][1] = c
        BY <2>1, <2>3, <3>1 DEF Entry
      <4>2. m \in 1 .. Len(trace) /\ m \in n + 1 .. Len(trace) + 1
        BY <1>11, SMT
      <4> QED
        BY <1>11, <4>1, <4>2
    <3>2. CASE c = b
      <4>1. Len(trace) + 1 \in n + 1 .. Len(trace) + 1
        BY <1>11, SMT
      <4>2. trace'[Len(trace) + 1][1] = b
        BY <1>11, SMT
      <4> QED
        BY <3>2, <4>1, <4>2
    <3> QED
      BY <1>5, <3>1, <3>2
  <2> QED
    BY <1>1, <1>6, <1>11, <2>1, <2>2, <2>3 DEF Entry
<1>13. ASSUME NEW n \in Nat, n = Len(trace) + 1 PROVE Entry(n)'
  <2>1. trace'[n][1] = b /\ trace'[n][2] = E(b)
    BY <1>11, <1>13, SMT
  <2>2. b \in Anc[b]
    BY <1>5
  <2>3. \A t \in E(b) : t \notin mempool' /\ t \notin pool'
    BY <1>1, <1>2, <1>7 DEF Apart
  <2>4. \A c \in Anc[b] : BlockTx[c] \notin E(b)
    BY <1>2, <1>5 DEF Apart, MinedIn
  <2>5. tip' = b /\ vpc' # "add"
    BY <1>1, <1>6
  <2> QED
    BY <2>1, <2>2, <2>3, <2>4, <2>5 DEF Entry
<1>14. \A n \in 1 .. Len(trace') : n \in 1 .. Len(trace) \/ (n \in Nat /\ n = Len(trace) + 1)
  BY <1>11, SMT
<1>15. ASSUME NEW n \in 1 .. Len(trace') PROVE Entry(n)'
  <2>1. CASE n \in 1 .. Len(trace)
    BY <1>12, <2>1
  <2>2. CASE n \in Nat /\ n = Len(trace) + 1
    BY <1>13, <2>2
  <2> QED
    BY <1>14, <2>1, <2>2
<1> QED
  BY <1>9, <1>15 DEF Traced

\* BlockConnected takes the oldest entry of the trace.
LEMMA ApartBlockConnected ==
    ASSUME IInv, Apart, Traced, BlockConnected
    PROVE  Apart' /\ Traced'
<1> DEFINE b == Head(trace)[1]
<1>1. /\ vpc = "notify" /\ trace' = Tail(trace) /\ UNCHANGED <<tip, mempool, pool, goal>>
      /\ \/ vpc' = After(pool, trace') /\ UNCHANGED <<vtx, vblk>>
         \/ vpc' = "read" /\ vtx' = BlockTx[b] /\ vblk' = b
  BY DEF BlockConnected, chainVars
<1>2. trace \in Seq(Blocks \X SUBSET Txs) /\ trace # <<>>
  BY <1>1 DEF IInv, Holders
<1>3. /\ Len(trace) \in Nat \ {0} /\ Len(trace') = Len(trace) - 1 /\ Head(trace) = trace[1]
      /\ \A n \in 1 .. Len(trace') : trace'[n] = trace[n + 1]
  BY <1>1, <1>2, SMT
<1>4. b \in Anc[tip]
  <2>1. 1 \in 1 .. Len(trace)
    BY <1>3, SMT
  <2> QED
    BY <1>3, <2>1 DEF Traced, Entry
<1>5. b # Null
  <2>1. Head(trace) \in Blocks \X SUBSET Txs
    BY <1>2, SMT
  <2>2. b \in Blocks
    BY <2>1, SMT
  <2> QED
    BY <2>2, ChainAssumption
<1> HIDE DEF b
<1>6. Apart'
  <2>1. CASE vpc' = After(pool, trace') /\ UNCHANGED <<vtx, vblk>>
    <3>1. /\ vpc' \in {"pool", "notify", "free"}
          /\ vpc' = "free" => pool' = {} /\ trace' = <<>>
      BY <1>1, <2>1, AfterDone
    <3> QED
      BY <1>1, <2>1, <3>1 DEF Apart, MinedIn
  <2>2. CASE vpc' = "read" /\ vtx' = BlockTx[b] /\ vblk' = b
    BY <1>1, <1>4, <1>5, <2>2 DEF Apart, MinedIn
  <2> QED
    BY <1>1, <2>1, <2>2
<1>7. vpc' # "add"
  BY <1>1, AfterDone
<1>8. ASSUME NEW n \in 1 .. Len(trace') PROVE Entry(n)'
  <2>1. n + 1 \in 1 .. Len(trace) /\ trace'[n] = trace[n + 1]
    BY <1>3, SMT
  <2>2. Entry(n + 1)
    BY <2>1 DEF Traced
  <2>3. ASSUME NEW c \in Anc[tip], BlockTx[c] \in trace[n + 1][2]
        PROVE  \E m \in n + 1 .. Len(trace') : trace'[m][1] = c
    <3>1. PICK m \in n + 1 + 1 .. Len(trace) : trace[m][1] = c
      BY <2>2, <2>3 DEF Entry
    <3>2. m - 1 \in n + 1 .. Len(trace') /\ m - 1 \in 1 .. Len(trace') /\ (m - 1) + 1 = m
      BY <1>3, <3>1, SMT
    <3> QED
      BY <1>3, <3>1, <3>2
  <2>4. /\ trace[n + 1][1] \in Anc[tip]
        /\ \A t \in trace[n + 1][2] : t \notin mempool /\ t \notin pool
    BY <2>2 DEF Entry
  <2> QED
    BY <1>1, <1>7, <2>1, <2>3, <2>4 DEF Entry
<1> QED
  BY <1>6, <1>8 DEF Traced

LEMMA ApartRestart ==
    ASSUME Restart
    PROVE  Apart' /\ Traced'
<1>1. /\ mempool' = {} /\ vpc' = "free" /\ vblk' = Null /\ trace' = <<>> /\ pool' = {}
  BY DEF Restart
<1>2. Apart'
  BY <1>1 DEF Apart
<1> QED
  BY <1>1, <1>2, NoEntry

\* Every step keeps the mempool, the disconnectpool, the trace and the chain apart.
LEMMA ApartStep ==
    IInv /\ Rooted /\ Reported /\ Apart /\ Traced /\ [Next]_vars => Apart' /\ Traced'
<1> SUFFICES ASSUME IInv, Rooted, Reported, Apart, Traced, [Next]_vars PROVE Apart' /\ Traced'
  OBVIOUS
<1>1. ASSUME NEW t \in Txs, ProcessPendingRetryLockTxs(t) PROVE Apart' /\ Traced'
  BY <1>1, ApartKept DEF ProcessPendingRetryLockTxs, chainVars, valVars
<1>2. ASSUME NEW b \in Blocks, ReceiveBlock(b) \/ ProcessNewChainLock(b) PROVE Apart' /\ Traced'
  BY <1>2, ApartKept DEF ReceiveBlock, ProcessNewChainLock, chainVars, valVars
<1>3. ASSUME NEW l \in Locks,
             ProcessMessageInstantSendLock(l) \/ TrySignInstantSendLock(l)
                \/ ProcessPendingInstantSendLocks(l) \/ HandleNewInstantSendLockRecoveredSig(l)
      PROVE  Apart' /\ Traced'
  BY <1>3, ApartKept
     DEF ProcessMessageInstantSendLock, TrySignInstantSendLock, ProcessPendingInstantSendLocks,
         HandleNewInstantSendLockRecoveredSig, Start, chainVars, valVars
<1>4. ASSUME NEW h \in LockThreads,
             \/ LockLookup(h) \/ LockWrite(h) \/ LockConflicted(h)
             \/ LockCollect(h) \/ LockResolve(h) \/ LockUntrack(h)
      PROVE  Apart' /\ Traced'
  BY <1>4, ApartKept
     DEF LockLookup, LockWrite, LockConflicted, LockCollect, LockResolve, LockUntrack, chainVars,
         valVars
<1>5. ASSUME NEW h \in LockThreads, LockMempool(h) PROVE Apart' /\ Traced'
  <2>1. mempool' \subseteq mempool /\ UNCHANGED <<tip, vpc, vtx, vblk, goal, trace, pool>>
    BY <1>5 DEF LockMempool, Without, chainVars, valVars
  <2> QED
    BY <2>1, ApartKept
<1>6. CASE HandleFullyConfirmedBlock \/ UNCHANGED vars
  BY <1>6, ApartKept, ZenonT(30) DEF HandleFullyConfirmedBlock, vars, chainVars, valVars
<1> QED
  BY <1>1, <1>2, <1>3, <1>4, <1>5, <1>6, ApartAccept, ApartAdd, ApartRead, ApartTrack, ApartReorg,
     ApartActivate, ApartEnforce, ApartInvalidate, ApartConnectBlock, ApartConnectTip,
     ApartBlockConnected, ApartRestart DEF Next, Validate, LockStep

-----------------------------------------------------------------------------
\* A thread that has stored its lock, and what it is about to remove: the lock is
\* known, and excludes it.
Stored == {"mempool", "conflicted", "collect", "resolve", "untrack", "invalidate"}
Holding(h) ==
    /\ pc[h] \in Stored => cur[h] \in made
    /\ pc[h] = "conflicted" => \A t \in bad[h] : ~Unconcerned(t)
    /\ pc[h] \in {"resolve", "untrack", "invalidate"} => \A p \in bad[h] : ~Unconcerned(p[2])

\* The locks in the database are known, and a transaction found locked has a known
\* lock, or a block with a ChainLock.
Concerned ==
    /\ db.lock \subseteq made
    /\ vpc = "track" /\ vlocked => ~Unconcerned(vtx) \/ (vblk # Null /\ HasChainLock(vblk))
    /\ \A h \in LockThreads : Holding(h)

\* Recovered signatures stay known, and ChainLocks in force until a restart.
LEMMA Lasting ==
    ASSUME IInv, Rooted, [Next]_vars
    PROVE  /\ made \subseteq made'
           /\ Restart \/ \A b : HasChainLock(b) => HasChainLock(b)'
<1>1. ASSUME NEW b \in Blocks, ProcessNewChainLock(b)
      PROVE  made' = made /\ \A x : HasChainLock(x) => HasChainLock(x)'
  <2>1. made' = made /\ chainLock' = b /\ (chainLock # Null => chainLock \in Anc[b])
    BY <1>1 DEF ProcessNewChainLock, voteVars
  <2>2. b # Null
    BY ChainAssumption
  <2>3. chainLock # Null => Anc[chainLock] \subseteq Anc[b]
    BY <2>1, Below
  <2> QED
    BY <2>1, <2>2, <2>3 DEF HasChainLock
<1>k. ASSUME made \subseteq made', chainLock' = chainLock
      PROVE  made \subseteq made' /\ \A x : HasChainLock(x) => HasChainLock(x)'
  BY <1>k DEF HasChainLock
<1>2. ASSUME NEW t \in Txs,
             AcceptToMemoryPool(t) \/ ProcessPendingRetryLockTxs(t) \/ UpdateMempoolForReorg(t)
      PROVE  made \subseteq made' /\ chainLock' = chainLock
  BY <1>2
     DEF AcceptToMemoryPool, ProcessPendingRetryLockTxs, UpdateMempoolForReorg, ProcessTx, voteVars,
         clVars
<1>3. CASE \/ AddToMempool \/ ProcessNewTransactionRead \/ ProcessNewTransactionTrack
           \/ ActivateBestChain \/ ConnectBlock \/ ConnectTip \/ BlockConnected
  BY <1>3, <1>k
     DEF AddToMempool, ProcessNewTransactionRead, ProcessNewTransactionTrack, ActivateBestChain,
         ConnectBlock, ConnectTip, BlockConnected, ProcessTx, voteVars, clVars
<1>4. ASSUME NEW b \in Blocks, ReceiveBlock(b) PROVE made \subseteq made' /\ chainLock' = chainLock
  BY <1>4 DEF ReceiveBlock, voteVars, clVars
<1>5. ASSUME NEW l \in Locks,
             ProcessMessageInstantSendLock(l) \/ TrySignInstantSendLock(l)
                \/ ProcessPendingInstantSendLocks(l) \/ HandleNewInstantSendLockRecoveredSig(l)
      PROVE  made \subseteq made' /\ chainLock' = chainLock
  BY <1>5
     DEF ProcessMessageInstantSendLock, TrySignInstantSendLock, ProcessPendingInstantSendLocks,
         HandleNewInstantSendLockRecoveredSig, Start, voteVars, clVars
<1>6. ASSUME NEW h \in LockThreads, LockStep(h)
      PROVE  made \subseteq made' /\ chainLock' = chainLock
  BY <1>6
     DEF LockStep, LockLookup, LockWrite, LockMempool, LockConflicted, LockCollect, LockResolve,
         LockUntrack, LockInvalidate, voteVars, clVars
<1>7. CASE EnforceBestChainLock \/ HandleFullyConfirmedBlock \/ UNCHANGED vars
  BY <1>7, <1>k, ZenonT(30) DEF EnforceBestChainLock, HandleFullyConfirmedBlock, vars, voteVars, clVars
<1>8. CASE Restart
  BY <1>8 DEF Restart
<1> QED
  BY <1>1, <1>k, <1>2, <1>3, <1>4, <1>5, <1>6, <1>7, <1>8 DEF Next, Validate

\* What the operations of CInstantSendDb other than WriteNewInstantSendLock write
\* holds no new lock.
LEMMA MinedSame ==
    ASSUME NEW d, Exact(d), NEW l, NEW h, NEW keys
    PROVE  /\ WriteInstantSendLockMined(d, l, h).lock = d.lock
           /\ RemoveInstantSendLockMined(d, keys).lock = d.lock
BY DEF Exact, IsDb, WriteInstantSendLockMined, RemoveInstantSendLockMined

LEMMA ArchiveSame ==
    ASSUME NEW d, Exact(d), NEW keys, NEW until
    PROVE  /\ WriteInstantSendLockArchived(d, keys).lock = d.lock
           /\ RemoveArchivedInstantSendLocks(d, until).lock = d.lock
BY DEF Exact, IsDb, WriteInstantSendLockArchived, RemoveArchivedInstantSendLocks

LEMMA RemoveFewer ==
    ASSUME NEW d, Exact(d), NEW S, NEW keys
    PROVE  WriteInstantSendLockArchived(RemoveInstantSendLocks(d, S), keys).lock \subseteq d.lock
<1>1. RemoveInstantSendLocks(d, S).lock \subseteq d.lock
  BY DEF Exact, IsDb, RemoveInstantSendLocks
<1>2. Exact(RemoveInstantSendLocks(d, S))
  BY RemoveExact, TxAssumption, ChainAssumption
<1>3. WriteInstantSendLockArchived(RemoveInstantSendLocks(d, S), keys).lock
        = RemoveInstantSendLocks(d, S).lock
  BY <1>2, ArchiveSame
<1> QED
  BY <1>1, <1>3

LEMMA ChainedFewer ==
    ASSUME NEW d, Exact(d), NEW l, NEW h
    PROVE  RemoveChainedInstantSendLocks(d, l, h).lock \subseteq d.lock
BY RemoveFewer DEF RemoveChainedInstantSendLocks

LEMMA ConfirmedFewer ==
    ASSUME NEW d, Exact(d), NEW until
    PROVE  RemoveConfirmedInstantSendLocks(d, until).lock \subseteq d.lock
<1> DEFINE keys == Confirmed(d, until)
           kept == RemoveInstantSendLocks(d, {k[2] : k \in keys})
           arch == WriteInstantSendLockArchived(kept, keys)
<1>1. arch.lock \subseteq d.lock
  BY RemoveFewer
<1>2. Exact(arch)
  BY RemoveExact, ArchiveExact, TxAssumption, ChainAssumption
<1> HIDE DEF arch
<1>3. [arch EXCEPT !.mined = @ \ keys].lock = arch.lock
  BY <1>2 DEF Exact, IsDb
<1> QED
  BY <1>1, <1>3 DEF RemoveConfirmedInstantSendLocks, arch

\* The locks in the database are known.
LEMMA StoredKnown ==
    ASSUME IInv, Rooted, db.lock \subseteq made, [Next]_vars
    PROVE  db'.lock \subseteq made'
<1>1. made \subseteq made' /\ Exact(db)
  BY Lasting DEF IInv
<1>2. SUFFICES ASSUME ~(db'.lock \subseteq db.lock) PROVE db'.lock \subseteq made'
  BY <1>1
<1>k. ASSUME db' = db PROVE FALSE
  BY <1>k, <1>2
<1>d. ASSUME NEW f, Disconnect(f) PROVE FALSE
  <2>1. PICK keys : db' = RemoveInstantSendLockMined(db, keys)
    BY <1>d DEF Disconnect
  <2> QED
    BY <1>1, <1>2, <2>1, MinedSame
<1>3. ASSUME NEW t \in Txs,
             AcceptToMemoryPool(t) \/ ProcessPendingRetryLockTxs(t) \/ UpdateMempoolForReorg(t)
      PROVE  FALSE
  BY <1>3, <1>k DEF AcceptToMemoryPool, ProcessPendingRetryLockTxs, UpdateMempoolForReorg, isVars
<1>4. CASE AddToMempool \/ ProcessNewTransactionTrack \/ ConnectTip \/ BlockConnected
  BY <1>4, <1>k DEF AddToMempool, ProcessNewTransactionTrack, ConnectTip, BlockConnected, isVars
<1>5. CASE ProcessNewTransactionRead
  <2>1. PICK l, h : db' \in {db, WriteInstantSendLockMined(db, l, h)}
    BY <1>5 DEF ProcessNewTransactionRead
  <2>2. WriteInstantSendLockMined(db, l, h).lock \subseteq db.lock
    BY <1>1, MinedSame
  <2> QED
    BY <1>2, <2>1, <2>2
<1>6. CASE ConnectBlock
  <2>1. PICK l, h : db' \in {db, RemoveChainedInstantSendLocks(db, l, h)}
    BY <1>6 DEF ConnectBlock
  <2>2. RemoveChainedInstantSendLocks(db, l, h).lock \subseteq db.lock
    BY <1>1, ChainedFewer
  <2> QED
    BY <1>2, <2>1, <2>2
<1>7. CASE ActivateBestChain
  BY <1>7, <1>d DEF ActivateBestChain
<1>8. ASSUME NEW b \in Blocks, ReceiveBlock(b) \/ ProcessNewChainLock(b) PROVE FALSE
  BY <1>8, <1>k DEF ReceiveBlock, ProcessNewChainLock, isVars
<1>9. ASSUME NEW l \in Locks,
             ProcessMessageInstantSendLock(l) \/ TrySignInstantSendLock(l)
                \/ ProcessPendingInstantSendLocks(l) \/ HandleNewInstantSendLockRecoveredSig(l)
      PROVE  FALSE
  BY <1>9, <1>k
     DEF ProcessMessageInstantSendLock, TrySignInstantSendLock, ProcessPendingInstantSendLocks,
         HandleNewInstantSendLockRecoveredSig, Start, isVars
<1>10. ASSUME NEW h \in LockThreads,
              \/ LockLookup(h) \/ LockMempool(h) \/ LockConflicted(h) \/ LockCollect(h)
              \/ LockUntrack(h)
       PROVE  FALSE
  BY <1>10, <1>k DEF LockLookup, LockMempool, LockConflicted, LockCollect, LockUntrack, isVars
<1>11. ASSUME NEW h \in LockThreads, LockWrite(h) PROVE db'.lock \subseteq made'
  <2> DEFINE s == WriteNewInstantSendLock(db, cur[h])
  <2>1. made' = made \cup {cur[h]} /\ cur[h] \in Locks
    BY <1>11 DEF LockWrite, IInv, Holders
  <2>2. PICK l, x : db' \in {db, s, WriteInstantSendLockMined(s, l, x)}
    BY <1>11 DEF LockWrite, isVars
  <2>3. s.lock = db.lock \cup {cur[h]}
    BY <1>1 DEF Exact, IsDb, WriteNewInstantSendLock
  <2>4. Exact(s)
    BY <1>1, <2>1, WriteNewExact, TxAssumption, ChainAssumption
  <2> HIDE DEF s
  <2>5. WriteInstantSendLockMined(s, l, x).lock = s.lock
    BY <2>4, MinedSame
  <2> QED
    BY <1>1, <1>2, <2>1, <2>2, <2>3, <2>5 DEF Concerned
<1>12. ASSUME NEW h \in LockThreads, LockResolve(h) PROVE FALSE
  <2>1. PICK l, x : db' \in {db, RemoveChainedInstantSendLocks(db, l, x)}
    BY <1>12 DEF LockResolve
  <2>2. RemoveChainedInstantSendLocks(db, l, x).lock \subseteq db.lock
    BY <1>1, ChainedFewer
  <2> QED
    BY <1>2, <2>1, <2>2
<1>13. ASSUME NEW h \in LockThreads, LockInvalidate(h) PROVE FALSE
  BY <1>13, <1>k, <1>d DEF LockInvalidate, Invalidate
<1>14. CASE EnforceBestChainLock
  BY <1>14, <1>d, ZenonT(30) DEF EnforceBestChainLock
<1>15. CASE HandleFullyConfirmedBlock
  <2> DEFINE e == RemoveConfirmedInstantSendLocks(db, Height[chainLock])
  <2>1. PICK x : db' \in {e, RemoveArchivedInstantSendLocks(e, x)}
    BY <1>15, ZenonT(30) DEF HandleFullyConfirmedBlock
  <2>2. e.lock \subseteq db.lock /\ Exact(e)
    BY <1>1, ConfirmedFewer, ConfirmedExact, TxAssumption, ChainAssumption
  <2> HIDE DEF e
  <2>3. RemoveArchivedInstantSendLocks(e, x).lock = e.lock
    BY <2>2, ArchiveSame
  <2> QED
    BY <1>2, <2>1, <2>2, <2>3
<1>16. CASE Restart \/ UNCHANGED vars
  BY <1>16, <1>k DEF Restart, vars, isVars
<1> QED
  BY <1>3, <1>4, <1>5, <1>6, <1>7, <1>8, <1>9, <1>10, <1>11, <1>12, <1>13, <1>14, <1>15, <1>16
     DEF Next, Validate, LockStep

\* What is concerned by a lock stays so.
LEMMA StaysConcerned ==
    ASSUME made \subseteq made'
    PROVE  \A t : Unconcerned(t)' => Unconcerned(t)
BY DEF Unconcerned

\* ProcessNewTransaction finds a lock that is known, or a ChainLock.
LEMMA FoundLocked ==
    ASSUME IInv, Rooted, Equipped, Apart, Concerned, [Next]_vars, vpc' = "track", vlocked'
    PROVE  ~Unconcerned(vtx)' \/ (vblk' # Null /\ HasChainLock(vblk)')
<1>1. made \subseteq made' /\ (Restart \/ \A b : HasChainLock(b) => HasChainLock(b)')
  BY Lasting
<1>2. ~Restart
  BY DEF Restart
<1>3. CASE ProcessNewTransactionRead
  <2> DEFINE l == db.tx[vtx]
  <2>1. vpc = "read" /\ UNCHANGED <<vtx, vblk>>
    BY <1>3 DEF ProcessNewTransactionRead
  <2>2. l # Null \/ (vblk # Null /\ HasChainLock(vblk))
    BY <1>3 DEF ProcessNewTransactionRead
  <2>3. vtx \in Txs
    BY <2>1 DEF IInv, Holders
  <2>4. CASE l # Null
    <3>1. l \in made /\ LockTx[l] = vtx
      BY <2>3, <2>4 DEF IInv, Exact, Concerned
    <3> QED
      BY <1>1, <2>1, <3>1 DEF Unconcerned
  <2>5. CASE vblk # Null /\ HasChainLock(vblk)
    <3>1. HasChainLock(vblk)'
      BY <1>1, <1>2, <2>1, <2>5 DEF HasChainLock
    <3> QED
      BY <2>1, <2>5, <3>1
  <2> QED
    BY <2>2, <2>4, <2>5
<1>4. CASE vpc = "track" /\ UNCHANGED <<vtx, vblk, vlocked>>
  <2>1. ~Unconcerned(vtx) \/ (vblk # Null /\ HasChainLock(vblk))
    BY <1>4 DEF Concerned
  <2>2. CASE ~Unconcerned(vtx)
    BY <1>1, <1>4, <2>2 DEF Unconcerned
  <2>3. CASE vblk # Null /\ HasChainLock(vblk)
    <3>1. HasChainLock(vblk)'
      BY <1>1, <1>2, <1>4, <2>3 DEF HasChainLock
    <3> QED
      BY <1>4, <2>3, <3>1
  <2> QED
    BY <2>1, <2>2, <2>3
<1>5. ASSUME NEW t \in Txs,
             AcceptToMemoryPool(t) \/ ProcessPendingRetryLockTxs(t) \/ UpdateMempoolForReorg(t)
      PROVE  vpc = "track" /\ UNCHANGED <<vtx, vblk, vlocked>>
  BY <1>5, AfterDone
     DEF AcceptToMemoryPool, ProcessPendingRetryLockTxs, UpdateMempoolForReorg, valVars
<1>6. CASE \/ AddToMempool \/ ProcessNewTransactionTrack \/ ActivateBestChain \/ ConnectBlock
           \/ ConnectTip \/ BlockConnected
  <2>1. \/ vpc' \in {"read", "connect", "tip", "forced"}
        \/ \E p, tr : vpc' = After(p, tr)
    BY <1>6
       DEF AddToMempool, ProcessNewTransactionTrack, ActivateBestChain, ConnectBlock, ConnectTip,
           BlockConnected
  <2> QED
    BY <2>1, AfterDone
<1>7. ASSUME NEW b \in Blocks, ReceiveBlock(b) \/ ProcessNewChainLock(b)
      PROVE  vpc = "track" /\ UNCHANGED <<vtx, vblk, vlocked>>
  BY <1>7 DEF ReceiveBlock, ProcessNewChainLock, valVars
<1>8. ASSUME NEW l \in Locks,
             ProcessMessageInstantSendLock(l) \/ TrySignInstantSendLock(l)
                \/ ProcessPendingInstantSendLocks(l) \/ HandleNewInstantSendLockRecoveredSig(l)
      PROVE  vpc = "track" /\ UNCHANGED <<vtx, vblk, vlocked>>
  BY <1>8
     DEF ProcessMessageInstantSendLock, TrySignInstantSendLock, ProcessPendingInstantSendLocks,
         HandleNewInstantSendLockRecoveredSig, Start, valVars
<1>9. ASSUME NEW h \in LockThreads,
             \/ LockLookup(h) \/ LockWrite(h) \/ LockMempool(h) \/ LockConflicted(h)
             \/ LockCollect(h) \/ LockResolve(h) \/ LockUntrack(h)
      PROVE  vpc = "track" /\ UNCHANGED <<vtx, vblk, vlocked>>
  BY <1>9
     DEF LockLookup, LockWrite, LockMempool, LockConflicted, LockCollect, LockResolve, LockUntrack,
         valVars
<1>10. ASSUME NEW h \in LockThreads, LockInvalidate(h) PROVE FALSE
  <2>1. vpc' = "free" \/ \E p, tr : vpc' = After(p, tr)
    BY <1>10 DEF LockInvalidate, Invalidate
  <2> QED
    BY <2>1, AfterDone
<1>11. CASE EnforceBestChainLock
  <2>1. \E p, tr : vpc' = After(p, tr)
    BY <1>11, ZenonT(30) DEF EnforceBestChainLock
  <2> QED
    BY <2>1, AfterDone
<1>12. CASE HandleFullyConfirmedBlock \/ UNCHANGED vars
  <2>1. vpc = "track" /\ UNCHANGED <<vtx, vblk, vlocked>>
    BY <1>12, ZenonT(30) DEF HandleFullyConfirmedBlock, vars, valVars
  <2> QED
    BY <1>4, <2>1
<1> QED
  BY <1>2, <1>3, <1>4, <1>5, <1>6, <1>7, <1>8, <1>9, <1>10, <1>11, <1>12
     DEF Next, Validate, LockStep

\* A step of a lock thread.
LEMMA HoldingThread ==
    ASSUME IInv, Reported, \A x \in LockThreads : Holding(x), made \subseteq made',
           NEW h \in LockThreads, NEW label, NEW l, NEW B,
           pc' = [pc EXCEPT ![h] = label], cur' = [cur EXCEPT ![h] = l],
           bad' = [bad EXCEPT ![h] = B],
           label \in Stored => l \in made',
           label = "conflicted" => \A t \in B : ~Unconcerned(t),
           label \in {"resolve", "untrack", "invalidate"} => \A p \in B : ~Unconcerned(p[2])
    PROVE  \A x \in LockThreads : Holding(x)'
<1>1. /\ pc \in [LockThreads -> Labels] /\ cur \in [LockThreads -> Locks \cup {Null}]
      /\ bad = [x \in LockThreads |-> bad[x]]
  BY DEF IInv, Holders, Reported
<1>2. \A t : Unconcerned(t)' => Unconcerned(t)
  BY StaysConcerned
<1> SUFFICES ASSUME NEW x \in LockThreads PROVE Holding(x)'
  OBVIOUS
<1>3. CASE x = h
  <2>1. pc'[x] = label /\ cur'[x] = l /\ bad'[x] = B
    BY <1>1, <1>3
  <2> QED
    BY <1>2, <2>1 DEF Holding
<1>4. CASE x # h
  <2>1. pc'[x] = pc[x] /\ cur'[x] = cur[x] /\ bad'[x] = bad[x]
    BY <1>1, <1>4
  <2> QED
    BY <1>2, <2>1 DEF Holding
<1> QED
  BY <1>3, <1>4

\* A thread that is done with its lock, or has not stored it yet.
LEMMA HoldingLeave ==
    ASSUME IInv, Reported, \A x \in LockThreads : Holding(x), made \subseteq made',
           NEW h \in LockThreads,
           \/ Leave(h)
           \/ bad' = bad /\ \E label, l : /\ label \notin Stored /\ Goto(h, label)
                                          /\ cur' = [cur EXCEPT ![h] = l]
    PROVE  \A x \in LockThreads : Holding(x)'
<1>1. CASE Leave(h)
  <2>1. "idle" \notin Stored /\ "idle" \notin {"conflicted", "resolve", "untrack", "invalidate"}
    BY DEF Stored
  <2> QED
    BY <1>1, <2>1, HoldingThread DEF Leave, Goto
<1>2. ASSUME NEW label, NEW l, label \notin Stored, Goto(h, label), cur' = [cur EXCEPT ![h] = l],
             bad' = bad
      PROVE  \A x \in LockThreads : Holding(x)'
  <2> DEFINE B == bad[h]
  <2>1. bad' = [bad EXCEPT ![h] = B]
    BY <1>2 DEF Reported
  <2>2. label \notin {"conflicted", "resolve", "untrack", "invalidate"}
    BY <1>2 DEF Stored
  <2> HIDE DEF B
  <2> QED
    BY <1>2, <2>1, <2>2, HoldingThread DEF Goto
<1> QED
  BY <1>1, <1>2

\* A thread goes on with its lock, and with less to remove.
LEMMA HoldingGoes ==
    ASSUME IInv, Reported, \A x \in LockThreads : Holding(x), made \subseteq made',
           NEW h \in LockThreads, NEW label \in {"collect", "untrack", "invalidate"}, Goto(h, label),
           cur' = cur, pc[h] \in Stored,
           NEW B, bad' = [bad EXCEPT ![h] = B], B \subseteq bad[h],
           label # "collect" => pc[h] \in {"resolve", "untrack", "invalidate"}
    PROVE  \A x \in LockThreads : Holding(x)'
<1> DEFINE l == cur[h]
<1>1. cur' = [cur EXCEPT ![h] = l]
  BY DEF IInv, Holders
<1>2. l \in made' /\ (label # "collect" => \A p \in B : ~Unconcerned(p[2]))
  BY DEF Holding
<1> HIDE DEF l
<1>3. label # "conflicted" /\ (label \in {"resolve", "untrack", "invalidate"} => label # "collect")
  OBVIOUS
<1> QED
  BY <1>1, <1>2, <1>3, HoldingThread DEF Goto

\* What a lock excludes is concerned by it.
LEMMA Excluded ==
    ASSUME NEW l \in made, NEW t \in Conflicting(LockTx[l])
    PROVE  ~Unconcerned(t)
BY DEF Unconcerned

\* ResolveBlockConflicts finds what its lock excludes.
LEMMA HoldingCollect ==
    ASSUME IInv, Reported, \A x \in LockThreads : Holding(x), made \subseteq made',
           NEW h \in LockThreads, LockCollect(h)
    PROVE  \A x \in LockThreads : Holding(x)'
<1> DEFINE l == cur[h]
           B == {<<nl.mined[t], t>> : t \in Conflicts(nl, l)}
<1>1. CASE Leave(h)
  BY <1>1, HoldingLeave
<1>2. CASE bad' = [bad EXCEPT ![h] = B] /\ Goto(h, "resolve") /\ cur' = cur
  <2>1. pc[h] \in Stored
    BY DEF LockCollect, Stored
  <2>2. l \in made /\ l \in made' /\ l \in Locks /\ LockTx[l] \in Txs
    BY <2>1, TxAssumption DEF Holding, LockCollect, IInv, Holders
  <2>3. cur' = [cur EXCEPT ![h] = l]
    BY <1>2 DEF IInv, Holders
  <2> HIDE DEF l
  <2>4. ASSUME NEW t \in Conflicts(nl, l) PROVE ~Unconcerned(t)
    <3>1. PICK o \in Inputs[LockTx[l]] : t = nl.out[o]
      BY <2>4 DEF Conflicts
    <3>2. t # LockTx[l] /\ t # Null /\ t \in nl.known
      BY <2>4 DEF Conflicts
    <3>3. o \in Outpoints
      BY <2>2, <3>1, TxAssumption
    <3>4. o \in Inputs[t] /\ t \in Txs
      BY <3>1, <3>2, <3>3 DEF IInv, Linked, NonLocked
    <3>5. t \in Conflicting(LockTx[l])
      BY <3>1, <3>2, <3>4 DEF Conflicting
    <3> QED
      BY <2>2, <3>5, Excluded
  <2>5. \A p \in B : ~Unconcerned(p[2])
    <3> SUFFICES ASSUME NEW t \in Conflicts(nl, l) PROVE ~Unconcerned(<<nl.mined[t], t>>[2])
      OBVIOUS
    <3>1. <<nl.mined[t], t>>[2] = t
      BY SMT
    <3> QED
      BY <2>4, <3>1
  <2> HIDE DEF B
  <2> QED
    BY <1>2, <2>2, <2>3, <2>5, HoldingThread DEF Goto
<1> QED
  BY <1>1, <1>2 DEF LockCollect

\* RemoveMempoolConflictsForLock finds what its lock excludes.
LEMMA HoldingMempool ==
    ASSUME IInv, Reported, \A x \in LockThreads : Holding(x), made \subseteq made',
           NEW h \in LockThreads, LockMempool(h)
    PROVE  \A x \in LockThreads : Holding(x)'
<1> DEFINE l == cur[h]
           B == mempool \cap Conflicting(LockTx[l])
           label == IF B = {} THEN "collect" ELSE "conflicted"
<1>1. pc[h] \in Stored /\ bad' = [bad EXCEPT ![h] = B] /\ Goto(h, label) /\ cur' = cur
  BY DEF LockMempool, Stored
<1>2. l \in made /\ l \in made' /\ cur' = [cur EXCEPT ![h] = l]
  BY <1>1 DEF Holding, IInv, Holders
<1> HIDE DEF l
<1>3. \A t \in B : ~Unconcerned(t)
  BY <1>2, Excluded
<1>4. label \notin {"resolve", "untrack", "invalidate"}
  OBVIOUS
<1> HIDE DEF B, label
<1> QED
  BY <1>1, <1>2, <1>3, <1>4, HoldingThread DEF Goto

\* Every step of a lock thread.
LEMMA HoldingLockStep ==
    ASSUME IInv, Reported, \A x \in LockThreads : Holding(x), made \subseteq made',
           NEW h \in LockThreads, LockStep(h)
    PROVE  \A x \in LockThreads : Holding(x)'
<1> DEFINE l == cur[h]
           B == bad[h]
<1>0. cur = [cur EXCEPT ![h] = l] /\ bad = [bad EXCEPT ![h] = B]
  BY DEF IInv, Holders, Reported
<1>1. CASE LockLookup(h)
  <2>1. Leave(h) \/ (Goto(h, "write") /\ UNCHANGED <<cur, bad>>)
    BY <1>1 DEF LockLookup
  <2>2. "write" \notin Stored
    BY DEF Stored
  <2>3. CASE Goto(h, "write") /\ UNCHANGED <<cur, bad>>
    <3>1. cur' = [cur EXCEPT ![h] = l]
      BY <1>0, <2>3
    <3>2. \E label, k : label \notin Stored /\ Goto(h, label) /\ cur' = [cur EXCEPT ![h] = k]
      BY <2>2, <2>3, <3>1
    <3> QED
      BY <2>3, <3>2, HoldingLeave
  <2> QED
    BY <2>1, <2>3, HoldingLeave
<1>2. CASE LockWrite(h)
  <2>1. l \in made' /\ (Leave(h) \/ (Goto(h, "mempool") /\ UNCHANGED <<cur, bad>>))
    BY <1>2 DEF LockWrite
  <2>2. CASE Leave(h)
    BY <2>2, HoldingLeave
  <2>3. CASE Goto(h, "mempool") /\ UNCHANGED <<cur, bad>>
    <3> HIDE DEF l, B
    <3>1. "mempool" \notin {"conflicted", "resolve", "untrack", "invalidate"}
      OBVIOUS
    <3> QED
      BY <1>0, <2>1, <2>3, <3>1, HoldingThread DEF Goto
  <2> QED
    BY <2>1, <2>2, <2>3
<1>3. CASE LockConflicted(h)
  <2> DEFINE none == {}
             label == "collect"
  <2>1. /\ pc[h] \in Stored /\ Goto(h, label) /\ cur' = cur /\ bad' = [bad EXCEPT ![h] = none]
        /\ none \subseteq bad[h] /\ label \in {"collect", "untrack", "invalidate"}
    BY <1>3 DEF LockConflicted, Stored
  <2>2. label = "collect"
    OBVIOUS
  <2> HIDE DEF none, label
  <2> QED
    BY <2>1, <2>2, HoldingGoes
<1>4. CASE LockResolve(h)
  <2>1. pc[h] = "resolve" /\ (Leave(h) \/ (Goto(h, "untrack") /\ UNCHANGED <<cur, bad>>))
    BY <1>4 DEF LockResolve
  <2>2. CASE Leave(h)
    BY <2>2, HoldingLeave
  <2>3. CASE Goto(h, "untrack") /\ UNCHANGED <<cur, bad>>
    <3>1. bad' = [bad EXCEPT ![h] = B] /\ B \subseteq bad[h] /\ pc[h] \in Stored
      BY <1>0, <2>1, <2>3 DEF Stored
    <3> HIDE DEF B
    <3> QED
      BY <2>1, <2>3, <3>1, HoldingGoes
  <2> QED
    BY <2>1, <2>2, <2>3
<1>5. CASE LockUntrack(h)
  <2>1. PICK here : bad' = [bad EXCEPT ![h] = bad[h] \ here]
    BY <1>5, <1>0 DEF LockUntrack, Reported
  <2>2. pc[h] = "untrack" /\ pc[h] \in Stored /\ Goto(h, "invalidate") /\ cur' = cur
    BY <1>5 DEF LockUntrack, Stored
  <2>3. bad[h] \ here \subseteq bad[h]
    OBVIOUS
  <2> QED
    BY <2>1, <2>2, <2>3, HoldingGoes
<1>6. CASE LockInvalidate(h)
  <2>1. pc[h] = "invalidate" /\ (Leave(h) \/ (Goto(h, "untrack") /\ UNCHANGED <<cur, bad>>))
    BY <1>6 DEF LockInvalidate
  <2>2. CASE Leave(h)
    BY <2>2, HoldingLeave
  <2>3. CASE Goto(h, "untrack") /\ UNCHANGED <<cur, bad>>
    <3>1. bad' = [bad EXCEPT ![h] = B] /\ B \subseteq bad[h] /\ pc[h] \in Stored
      BY <1>0, <2>1, <2>3 DEF Stored
    <3> HIDE DEF B
    <3> QED
      BY <2>1, <2>3, <3>1, HoldingGoes
  <2> QED
    BY <2>1, <2>2, <2>3
<1> QED
  BY <1>1, <1>2, <1>3, <1>4, <1>5, <1>6, HoldingCollect, HoldingMempool DEF LockStep

\* Every step.
LEMMA ConcernedStep ==
    IInv /\ Rooted /\ Reported /\ Equipped /\ Apart /\ Concerned /\ [Next]_vars => Concerned'
<1> SUFFICES ASSUME IInv, Rooted, Reported, Equipped, Apart, Concerned, [Next]_vars PROVE Concerned'
  OBVIOUS
<1>1. made \subseteq made'
  BY Lasting
<1>2. db'.lock \subseteq made'
  BY StoredKnown DEF Concerned
<1>3. vpc' = "track" /\ vlocked' => ~Unconcerned(vtx)' \/ (vblk' # Null /\ HasChainLock(vblk)')
  BY FoundLocked
<1>4. \A h \in LockThreads : Holding(h)
  BY DEF Concerned
<1>5. \A h \in LockThreads : Holding(h)'
  <2>k. ASSUME UNCHANGED threadVars PROVE \A h \in LockThreads : Holding(h)'
    <3>1. \A t : Unconcerned(t)' => Unconcerned(t)
      BY <1>1, StaysConcerned
    <3>2. pc' = pc /\ cur' = cur /\ bad' = bad
      BY <2>k DEF threadVars
    <3> QED
      BY <1>1, <1>4, <3>1, <3>2 DEF Holding
  <2>1. ASSUME NEW t \in Txs,
               AcceptToMemoryPool(t) \/ ProcessPendingRetryLockTxs(t) \/ UpdateMempoolForReorg(t)
        PROVE  UNCHANGED threadVars
    BY <2>1 DEF AcceptToMemoryPool, ProcessPendingRetryLockTxs, UpdateMempoolForReorg
  <2>2. CASE \/ AddToMempool \/ ProcessNewTransactionRead \/ ProcessNewTransactionTrack
             \/ ActivateBestChain \/ ConnectBlock \/ ConnectTip \/ BlockConnected
    BY <2>2, <2>k
       DEF AddToMempool, ProcessNewTransactionRead, ProcessNewTransactionTrack, ActivateBestChain,
           ConnectBlock, ConnectTip, BlockConnected
  <2>3. ASSUME NEW b \in Blocks, ReceiveBlock(b) \/ ProcessNewChainLock(b)
        PROVE  UNCHANGED threadVars
    BY <2>3 DEF ReceiveBlock, ProcessNewChainLock
  <2>4. ASSUME NEW l \in Locks, ProcessMessageInstantSendLock(l) \/ TrySignInstantSendLock(l)
        PROVE  UNCHANGED threadVars
    BY <2>4 DEF ProcessMessageInstantSendLock, TrySignInstantSendLock
  <2>5. ASSUME NEW l \in Locks,
               ProcessPendingInstantSendLocks(l) \/ HandleNewInstantSendLockRecoveredSig(l)
        PROVE  \A h \in LockThreads : Holding(h)'
    <3>1. PICK h \in LockThreads : Start(h, l)
      BY <2>5 DEF ProcessPendingInstantSendLocks, HandleNewInstantSendLockRecoveredSig, LockThreads
    <3>2. "lookup" \notin Stored
      BY DEF Stored
    <3>3. bad' = bad /\ \E label, k : label \notin Stored /\ Goto(h, label) /\ cur' = [cur EXCEPT ![h] = k]
      BY <3>1, <3>2 DEF Start
    <3> QED
      BY <1>1, <1>4, <3>3, HoldingLeave
  <2>6. CASE EnforceBestChainLock \/ HandleFullyConfirmedBlock \/ UNCHANGED vars
    BY <2>6, <2>k, ZenonT(30) DEF EnforceBestChainLock, HandleFullyConfirmedBlock, vars
  <2>7. CASE Restart
    <3>1. \A h \in LockThreads : pc'[h] = "idle"
      BY <2>7 DEF Restart
    <3> QED
      BY <3>1 DEF Holding, Stored
  <2> QED
    BY <1>1, <1>4, <2>k, <2>1, <2>2, <2>3, <2>4, <2>5, <2>6, <2>7, HoldingLockStep
       DEF Next, Validate
<1> QED
  BY <1>2, <1>3, <1>5 DEF Concerned

LEMMA ConcernedInit == Init => Concerned
<1>1. EmptyDb.lock = {}
  BY DEF EmptyDb
<1>2. Init => \A h \in LockThreads : pc[h] = "idle"
  BY DEF Init
<1>3. Init => \A h \in LockThreads : Holding(h)
  BY <1>2 DEF Holding, Stored
<1>4. Init => db.lock = {} /\ vpc = "free"
  BY <1>1 DEF Init
<1> QED
  BY <1>3, <1>4 DEF Concerned

-----------------------------------------------------------------------------
\* A transaction that no lock concerns is tracked, unless the holder of cs_main is
\* about to: it is at the transaction, or has yet to report its block.
Reporting == vpc \in {"read", "track"}
Traces(b) == \E n \in 1 .. Len(trace) : trace[n][1] = b
InPool(t) == t \in mempool => TrackedAs(t, Null) \/ (Reporting /\ vtx = t /\ vblk = Null)
InBlock(t, b) ==
    BlockTx[b] = t /\ Inputs[t] # {} =>
        HasChainLock(b) \/ TrackedAs(t, b) \/ (Reporting /\ vblk = b) \/ Traces(b)
Tracked ==
    \A t \in Txs : Unconcerned(t) => InPool(t) /\ \A b \in Anc[tip] \ Anc[base] : InBlock(t, b)

\* At first there is nothing to track.
LEMMA TrackedInit == Init => Tracked
<1>1. Init => mempool = {} /\ tip = base
  BY DEF Init
<1> QED
  BY <1>1 DEF Tracked, InPool

\* Removing other transactions from nonLockedTxs leaves t alone.
LEMMA RemoveOthers ==
    ASSUME nl \in NonLocked, NEW S, nl' = RemoveNonLockedTxs(nl, S), NEW t \in Txs, t \notin S, NEW b,
           TrackedAs(t, b)
    PROVE  TrackedAs(t, b)'
BY DEF NonLocked, RemoveNonLockedTxs, TrackedAs

\* AddNonLockedTx notes the block, and leaves other transactions alone.
LEMMA AddOthers ==
    ASSUME nl \in NonLocked, NEW x \in Txs, NEW b, nl' = AddNonLockedTx(nl, x, b)
    PROVE  /\ TrackedAs(x, b)'
           /\ \A t \in Txs \ {x} : \A c : TrackedAs(t, c) => TrackedAs(t, c)'
<1>1. nl'.known = nl.known \cup {x} /\ nl'.mined = [nl.mined EXCEPT ![x] = b]
  BY DEF AddNonLockedTx
<1>2. nl.mined \in [Txs -> Blocks \cup {Null}]
  BY DEF NonLocked
<1> QED
  BY <1>1, <1>2 DEF TrackedAs

\* A step that adds nothing to the mempool or the chain, keeps what is about to be
\* reported, and untracks only what a lock or a ChainLock takes care of.
LEMMA TrackedKept ==
    ASSUME Tracked, made \subseteq made', \A b : HasChainLock(b) => HasChainLock(b)',
           base' = base, Anc[tip'] \subseteq Anc[tip], mempool' \subseteq mempool, trace' = trace,
           Reporting => Reporting' /\ UNCHANGED <<vtx, vblk>>,
           \A t \in Txs : Unconcerned(t)' =>
               \A b : TrackedAs(t, b) => TrackedAs(t, b)' \/ (b # Null /\ HasChainLock(b)')
    PROVE  Tracked'
<1> SUFFICES ASSUME NEW t \in Txs, Unconcerned(t)'
             PROVE  InPool(t)' /\ \A b \in Anc[tip'] \ Anc[base'] : InBlock(t, b)'
  BY DEF Tracked
<1>1. Unconcerned(t)
  BY StaysConcerned
<1>2. InPool(t) /\ \A b \in Anc[tip] \ Anc[base] : InBlock(t, b)
  BY <1>1 DEF Tracked
<1>3. \A b : TrackedAs(t, b) => TrackedAs(t, b)' \/ (b # Null /\ HasChainLock(b)')
  OBVIOUS
<1>4. InPool(t)'
  <2>1. TrackedAs(t, Null) => TrackedAs(t, Null)'
    BY <1>3
  <2> QED
    BY <1>2, <2>1 DEF InPool
<1>5. ASSUME NEW b \in Anc[tip'] \ Anc[base'] PROVE InBlock(t, b)'
  <2>1. InBlock(t, b)
    BY <1>2, <1>5
  <2>2. Traces(b) => Traces(b)'
    BY DEF Traces
  <2>3. TrackedAs(t, b) => TrackedAs(t, b)' \/ HasChainLock(b)'
    BY <1>3
  <2> QED
    BY <2>1, <2>2, <2>3 DEF InBlock
<1> QED
  BY <1>4, <1>5

\* Transactions.
LEMMA TrackedAdd ==
    ASSUME Apart, Tracked, AddToMempool
    PROVE  Tracked'
<1>1. /\ vpc = "add" /\ vpc' = "read" /\ mempool' = mempool \cup {vtx}
      /\ UNCHANGED <<tip, base, vtx, vblk, trace, nl, made, chainLock>>
  BY DEF AddToMempool, chainVars, isVars, voteVars, clVars
<1>2. vblk' = Null /\ ~Reporting /\ Reporting'
  BY <1>1 DEF Apart, Reporting
<1> SUFFICES ASSUME NEW t \in Txs, Unconcerned(t)'
             PROVE  InPool(t)' /\ \A b \in Anc[tip'] \ Anc[base'] : InBlock(t, b)'
  BY DEF Tracked
<1>3. Unconcerned(t)
  BY <1>1, StaysConcerned
<1>4. InPool(t) /\ \A b \in Anc[tip] \ Anc[base] : InBlock(t, b)
  BY <1>3 DEF Tracked
<1>5. InPool(t)'
  BY <1>1, <1>2, <1>4 DEF InPool, TrackedAs
<1>6. ASSUME NEW b \in Anc[tip'] \ Anc[base'] PROVE InBlock(t, b)'
  <2>1. InBlock(t, b)
    BY <1>1, <1>4, <1>6
  <2> QED
    BY <1>1, <1>2, <2>1 DEF InBlock, TrackedAs, HasChainLock, Traces
<1> QED
  BY <1>5, <1>6

LEMMA TrackedTrack ==
    ASSUME IInv, Rooted, Apart, Concerned, Tracked, ProcessNewTransactionTrack
    PROVE  Tracked'
<1>1. /\ vpc = "track" /\ UNCHANGED <<tip, base, mempool, trace, made, chainLock>>
      /\ IF vlocked THEN nl' = RemoveNonLockedTxs(nl, {vtx})
         ELSE nl' = AddNonLockedTx(nl, vtx, vblk)
  BY DEF ProcessNewTransactionTrack, chainVars, voteVars, clVars
<1>2. vtx \in Txs /\ nl \in NonLocked /\ tip \in Blocks
  BY <1>1 DEF IInv, Holders, Linked, Rooted
<1> SUFFICES ASSUME NEW t \in Txs, Unconcerned(t)'
             PROVE  InPool(t)' /\ \A b \in Anc[tip'] \ Anc[base'] : InBlock(t, b)'
  BY DEF Tracked
<1>3. Unconcerned(t)
  BY <1>1, StaysConcerned
<1>4. InPool(t) /\ \A b \in Anc[tip] \ Anc[base] : InBlock(t, b)
  BY <1>3 DEF Tracked
<1>5. vtx # t => \A b : TrackedAs(t, b) => TrackedAs(t, b)'
  <2>1. CASE nl' = RemoveNonLockedTxs(nl, {vtx})
    <3>1. vtx # t => t \notin {vtx}
      OBVIOUS
    <3> QED
      BY <1>2, <2>1, <3>1, RemoveOthers
  <2>2. CASE nl' = AddNonLockedTx(nl, vtx, vblk)
    <3>1. PICK x \in Txs, c \in {vblk} : x = vtx /\ nl' = AddNonLockedTx(nl, x, c)
      BY <1>2, <2>2
    <3>2. \A y \in Txs \ {x} : \A b : TrackedAs(y, b) => TrackedAs(y, b)'
      BY <1>2, <3>1, AddOthers
    <3> QED
      BY <3>1, <3>2
  <2> QED
    BY <1>1, <2>1, <2>2
<1>6. ASSUME vtx = t, ~vlocked, NEW b, vblk = b PROVE TrackedAs(t, b)'
  <2>1. nl' = AddNonLockedTx(nl, t, b)
    BY <1>1, <1>6
  <2> QED
    BY <1>2, <2>1, AddOthers
<1>7. vtx = t /\ vlocked => vblk # Null /\ HasChainLock(vblk)
  BY <1>1, <1>3 DEF Concerned
<1>8. ASSUME t \in mempool PROVE TrackedAs(t, Null)'
  <2>1. CASE vtx = t
    <3>1. vblk = Null
      BY <1>8, <2>1 DEF Apart, MinedIn
    <3> QED
      BY <1>6, <1>7, <2>1, <3>1
  <2>2. CASE vtx # t
    BY <1>4, <1>5, <1>8, <2>2 DEF InPool
  <2> QED
    BY <2>1, <2>2
<1>9. ASSUME NEW b \in Anc[tip] \ Anc[base], BlockTx[b] = t, Inputs[t] # {}
      PROVE  HasChainLock(b) \/ TrackedAs(t, b)' \/ Traces(b)
  <2>1. CASE vtx = t
    <3>1. vblk # Null
      BY <1>1, <1>9, <2>1 DEF Apart, MinedIn
    <3>2. vblk \in Anc[tip] /\ BlockTx[vblk] = BlockTx[b] /\ BlockTx[b] # Null
      BY <1>9, <2>1, <3>1, TxAssumption DEF Apart
    <3>3. vblk = b
      BY <1>2, <1>9, <3>2, OnceAssumption
    <3> QED
      BY <1>6, <1>7, <2>1, <3>3
  <2>2. CASE vtx # t
    <3>1. b \in Blocks
      BY <1>2, <1>9, Below
    <3>2. b # Null
      BY <3>1, ChainAssumption
    <3>3. vblk # b
      BY <1>9, <2>2, <3>2 DEF Apart
    <3> QED
      BY <1>4, <1>5, <1>9, <2>2, <3>3 DEF InBlock
  <2> QED
    BY <2>1, <2>2
<1>10. InPool(t)'
  BY <1>1, <1>8 DEF InPool
<1>11. ASSUME NEW b \in Anc[tip'] \ Anc[base'] PROVE InBlock(t, b)'
  <2>1. b \in Anc[tip] \ Anc[base]
    BY <1>1, <1>11
  <2>2. HasChainLock(b) => HasChainLock(b)'
    BY <1>1 DEF HasChainLock
  <2>3. Traces(b) => Traces(b)'
    BY <1>1 DEF Traces
  <2> QED
    BY <1>9, <2>1, <2>2, <2>3 DEF InBlock
<1> QED
  BY <1>10, <1>11

\* Blocks.
LEMMA TrackedConnectTip ==
    ASSUME IInv, Apart, Tracked, ConnectTip
    PROVE  Tracked'
<1>1. PICK b \in Anc[goal] :
          /\ NextBlock(b) /\ tip' = b /\ mempool' \subseteq mempool
          /\ \E e : trace' = Append(trace, <<b, e>>)
  BY DEF ConnectTip
<1>2. vpc \in {"tip", "forced"} /\ UNCHANGED <<base, nl, made, chainLock>>
  BY DEF ConnectTip, isVars, voteVars, clVars
<1>3. ~Reporting /\ goal \in Blocks /\ tip \in Anc[goal] /\ trace \in Seq(Blocks \X SUBSET Txs)
  BY <1>2 DEF Reporting, IInv, Holders, Apart
<1>4. Anc[b] = Anc[tip] \cup {b}
  <2>1. Height[b] = Height[tip] + 1
    BY <1>1 DEF NextBlock
  <2>2. \A x, y \in Anc[goal] : Height[y] = Height[x] + 1 => Anc[y] = Anc[x] \cup {y}
    BY <1>3, OneUp
  <2> QED
    BY <1>3, <2>1, <2>2
<1>5. /\ Len(trace) + 1 \in 1 .. Len(trace') /\ trace'[Len(trace) + 1][1] = b
      /\ \A n \in 1 .. Len(trace) : n \in 1 .. Len(trace') /\ trace'[n] = trace[n]
  BY <1>1, <1>3, SMT
<1>6. Traces(b)' /\ \A c : Traces(c) => Traces(c)'
  <2>1. \E n \in 1 .. Len(trace') : trace'[n][1] = b
    BY <1>5
  <2>2. ASSUME NEW c, Traces(c) PROVE Traces(c)'
    BY <1>5, <2>2 DEF Traces
  <2> QED
    BY <2>1, <2>2 DEF Traces
<1> SUFFICES ASSUME NEW t \in Txs, Unconcerned(t)'
             PROVE  InPool(t)' /\ \A c \in Anc[tip'] \ Anc[base'] : InBlock(t, c)'
  BY DEF Tracked
<1>7. Unconcerned(t)
  BY <1>2, StaysConcerned
<1>8. InPool(t) /\ \A c \in Anc[tip] \ Anc[base] : InBlock(t, c)
  BY <1>7 DEF Tracked
<1>9. InPool(t)'
  BY <1>1, <1>2, <1>3, <1>8 DEF InPool, TrackedAs
<1>10. ASSUME NEW c \in Anc[tip'] \ Anc[base'] PROVE InBlock(t, c)'
  <2>1. CASE c = b
    BY <1>6, <2>1 DEF InBlock
  <2>2. CASE c # b
    <3>1. InBlock(t, c)
      BY <1>1, <1>2, <1>4, <1>8, <1>10, <2>2
    <3> QED
      BY <1>2, <1>3, <1>6, <3>1 DEF InBlock, TrackedAs, HasChainLock
  <2> QED
    BY <2>1, <2>2
<1> QED
  BY <1>9, <1>10

\* BlockConnected untracks what the block evicted, which is not in the mempool, and
\* goes on to the transaction of the block.  A transaction that was evicted and is
\* in the chain again is in a block that is still to be reported.
LEMMA TrackedBlockConnected ==
    ASSUME IInv, Rooted, Traced, Tracked, BlockConnected
    PROVE  Tracked'
<1> DEFINE e == Head(trace)[2]
           h == Head(trace)[1]
<1>1. /\ vpc = "notify" /\ trace' = Tail(trace) /\ nl' = RemoveNonLockedTxs(nl, e)
      /\ UNCHANGED <<tip, base, mempool, made, chainLock>>
      /\ ~(BlockTx[h] = Null \/ Inputs[BlockTx[h]] = {}) => vpc' = "read" /\ vblk' = h
  BY DEF BlockConnected, chainVars, voteVars, clVars
<1>2. ~Reporting /\ nl \in NonLocked /\ trace \in Seq(Blocks \X SUBSET Txs) /\ trace # <<>>
  BY <1>1 DEF Reporting, IInv, Holders, Linked
<1>3. /\ Len(trace) \in Nat \ {0} /\ Len(trace') = Len(trace) - 1 /\ Head(trace) = trace[1]
      /\ \A n \in 1 .. Len(trace') : trace'[n] = trace[n + 1]
  BY <1>1, <1>2, SMT
<1>4. /\ \A t \in e : t \notin mempool
      /\ \A b \in Anc[tip] : BlockTx[b] \in e => \E m \in 1 + 1 .. Len(trace) : trace[m][1] = b
  <2>1. 1 \in 1 .. Len(trace)
    BY <1>3, SMT
  <2> QED
    BY <1>3, <2>1 DEF Traced, Entry
<1>5. ASSUME NEW b, NEW m \in 1 + 1 .. Len(trace), trace[m][1] = b PROVE Traces(b)'
  <2>1. m - 1 \in 1 .. Len(trace') /\ (m - 1) + 1 = m
    BY <1>3, SMT
  <2> QED
    BY <1>3, <1>5, <2>1 DEF Traces
<1>6. ASSUME NEW b, Traces(b) PROVE b = h \/ Traces(b)'
  <2>1. PICK n \in 1 .. Len(trace) : trace[n][1] = b
    BY <1>6 DEF Traces
  <2>2. n = 1 \/ n \in 1 + 1 .. Len(trace)
    BY <1>3, SMT
  <2> QED
    BY <1>3, <1>5, <2>1, <2>2
<1> HIDE DEF e, h
<1> SUFFICES ASSUME NEW t \in Txs, Unconcerned(t)'
             PROVE  InPool(t)' /\ \A b \in Anc[tip'] \ Anc[base'] : InBlock(t, b)'
  BY DEF Tracked
<1>7. Unconcerned(t)
  BY <1>1, StaysConcerned
<1>8. InPool(t) /\ \A b \in Anc[tip] \ Anc[base] : InBlock(t, b)
  BY <1>7 DEF Tracked
<1>9. t \notin e => \A b : TrackedAs(t, b) => TrackedAs(t, b)'
  BY <1>1, <1>2, RemoveOthers
<1>10. InPool(t)'
  BY <1>1, <1>2, <1>4, <1>8, <1>9 DEF InPool
<1>11. ASSUME NEW b \in Anc[tip'] \ Anc[base'], BlockTx[b] = t, Inputs[t] # {}
       PROVE  HasChainLock(b)' \/ TrackedAs(t, b)' \/ (Reporting' /\ vblk' = b) \/ Traces(b)'
  <2>1. b \in Anc[tip] /\ InBlock(t, b) /\ BlockTx[b] # Null
    BY <1>1, <1>8, <1>11, TxAssumption
  <2>2. HasChainLock(b) \/ TrackedAs(t, b) \/ Traces(b)
    BY <1>2, <1>11, <2>1 DEF InBlock
  <2>3. CASE HasChainLock(b)
    BY <1>1, <2>3 DEF HasChainLock
  <2>4. CASE TrackedAs(t, b)
    <3>1. CASE t \in e
      <4>1. PICK m \in 1 + 1 .. Len(trace) : trace[m][1] = b
        BY <1>4, <1>11, <2>1, <3>1
      <4> QED
        BY <1>5, <4>1
    <3>2. CASE t \notin e
      BY <1>9, <2>4, <3>2
    <3> QED
      BY <3>1, <3>2
  <2>5. CASE Traces(b)
    <3>1. CASE b = h
      BY <1>1, <1>11, <2>1, <3>1 DEF Reporting
    <3>2. CASE b # h
      BY <1>6, <2>5, <3>2
    <3> QED
      BY <3>1, <3>2
  <2> QED
    BY <2>2, <2>3, <2>4, <2>5
<1> QED
  BY <1>10, <1>11 DEF InBlock

\* A restart forgets the mempool, and the chain is the one it starts with.
LEMMA TrackedRestart ==
    ASSUME Restart
    PROVE  Tracked'
<1>1. mempool' = {} /\ Anc[tip'] \ Anc[base'] = {}
  BY DEF Restart
<1> QED
  BY <1>1 DEF Tracked, InPool

\* A lock thread untracks what its lock is of or excludes.
LEMMA LockUntracks ==
    ASSUME IInv, Concerned, made \subseteq made', NEW h \in LockThreads, LockStep(h)
    PROVE  \A t \in Txs : Unconcerned(t)' => \A b : TrackedAs(t, b) => TrackedAs(t, b)'
<1>1. nl \in NonLocked /\ Holding(h) /\ \A t : Unconcerned(t)' => Unconcerned(t)
  BY StaysConcerned DEF IInv, Linked, Concerned
<1>k. ASSUME nl' = nl PROVE \A t \in Txs : \A b : TrackedAs(t, b) => TrackedAs(t, b)'
  BY <1>k DEF TrackedAs
<1>2. CASE LockWrite(h)
  <2>1. cur[h] \in made' /\ (nl' = nl \/ nl' = RemoveNonLockedTxs(nl, {LockTx[cur[h]]}))
    BY <1>2 DEF LockWrite, isVars
  <2>2. \A t : Unconcerned(t)' => t \notin {LockTx[cur[h]]}
    BY <2>1 DEF Unconcerned
  <2>3. CASE nl' = RemoveNonLockedTxs(nl, {LockTx[cur[h]]})
    BY <1>1, <2>2, <2>3, RemoveOthers
  <2> QED
    BY <1>k, <2>1, <2>3
<1>3. CASE LockConflicted(h)
  <2>1. nl' = RemoveNonLockedTxs(nl, bad[h])
    BY <1>3 DEF LockConflicted
  <2>2. \A t : Unconcerned(t)' => t \notin bad[h]
    BY <1>1, <1>3 DEF Holding, LockConflicted
  <2> QED
    BY <1>1, <2>1, <2>2, RemoveOthers
<1>4. CASE LockUntrack(h)
  <2>1. PICK p \in bad[h] :
            nl' = RemoveNonLockedTxs(nl, {q[2] : q \in {x \in bad[h] : x[1] = p[1]}})
    BY <1>4 DEF LockUntrack
  <2> DEFINE S == {q[2] : q \in {x \in bad[h] : x[1] = p[1]}}
  <2>a. \A q \in bad[h] : ~Unconcerned(q[2])
    <3>1. pc[h] = "untrack"
      BY <1>4 DEF LockUntrack
    <3> QED
      BY <1>1, <3>1 DEF Holding
  <2>2. ASSUME NEW t, Unconcerned(t)', t \in S PROVE FALSE
    <3>1. PICK q \in bad[h] : t = q[2]
      BY <2>2
    <3>2. Unconcerned(t)
      BY <1>1, <2>2
    <3> QED
      BY <2>a, <3>1, <3>2
  <2>3. nl' = RemoveNonLockedTxs(nl, S)
    BY <2>1
  <2> HIDE DEF S
  <2> QED
    BY <1>1, <2>2, <2>3, RemoveOthers
<1>5. CASE \/ LockLookup(h) \/ LockMempool(h) \/ LockCollect(h) \/ LockResolve(h)
           \/ LockInvalidate(h)
  BY <1>5, <1>k DEF LockLookup, LockMempool, LockCollect, LockResolve, LockInvalidate, isVars
<1> QED
  BY <1>2, <1>3, <1>4, <1>5 DEF LockStep

\* HandleFullyConfirmedBlock untracks what is mined below the ChainLock.
LEMMA ConfirmedUntracks ==
    ASSUME IInv, HandleFullyConfirmedBlock
    PROVE  \A t \in Txs : \A b : TrackedAs(t, b) => TrackedAs(t, b)' \/ (b # Null /\ HasChainLock(b)')
<1> DEFINE S == {t \in nl.entry : nl.mined[t] # Null /\ nl.mined[t] \in Anc[chainLock]}
<1>1. nl' = RemoveNonLockedTxs(nl, S) /\ chainLock' = chainLock /\ chainLock # Null
  BY ZenonT(30) DEF HandleFullyConfirmedBlock
<1>2. nl \in NonLocked
  BY DEF IInv, Linked
<1>3. ASSUME NEW t \in S, NEW b, TrackedAs(t, b) PROVE b # Null /\ HasChainLock(b)'
  BY <1>1, <1>3 DEF TrackedAs, HasChainLock
<1> HIDE DEF S
<1> QED
  BY <1>1, <1>2, <1>3, RemoveOthers

\* Every step.
LEMMA TrackedStep ==
    /\ IInv /\ Rooted /\ Reported /\ Apart /\ Traced /\ Concerned /\ Tracked /\ [Next]_vars
    => Tracked'
<1> SUFFICES ASSUME IInv, Rooted, Reported, Apart, Traced, Concerned, Tracked, [Next]_vars
             PROVE  Tracked'
  OBVIOUS
<1>1. CASE Restart
  BY <1>1, TrackedRestart
<1>2. CASE ~Restart
  <2>1. made \subseteq made' /\ \A b : HasChainLock(b) => HasChainLock(b)'
    BY <1>2, Lasting
  <2>2. tip \in Blocks
    BY DEF IInv, Holders, Rooted
  <2>n. nl' = nl => \A t \in Txs : \A b : TrackedAs(t, b) => TrackedAs(t, b)'
    BY DEF TrackedAs
  <2>k. ASSUME UNCHANGED <<tip, base, mempool, trace, nl>>,
               Reporting => Reporting' /\ UNCHANGED <<vtx, vblk>>
        PROVE  Tracked'
    <3>1. Anc[tip'] \subseteq Anc[tip] /\ mempool' \subseteq mempool
      BY <2>k
    <3> QED
      BY <2>1, <2>n, <2>k, <3>1, TrackedKept
  <2>d. ASSUME vpc = "free", NEW f \in Anc[tip], Disconnect(f), UNCHANGED <<base, mempool, trace, nl>>
        PROVE  Tracked'
    <3>1. Anc[tip'] \subseteq Anc[tip] /\ mempool' \subseteq mempool /\ ~Reporting
      BY <2>2, <2>d, Below DEF Disconnect, Reporting
    <3> QED
      BY <2>1, <2>n, <2>d, <3>1, TrackedKept
  <2>3. ASSUME NEW t \in Txs, AcceptToMemoryPool(t) \/ ProcessPendingRetryLockTxs(t) PROVE Tracked'
    BY <2>3, <2>k
       DEF AcceptToMemoryPool, ProcessPendingRetryLockTxs, Reporting, chainVars, isVars, valVars
  <2>4. ASSUME NEW t \in Txs, UpdateMempoolForReorg(t) PROVE Tracked'
    <3>1. /\ mempool' \subseteq mempool /\ ~Reporting /\ UNCHANGED <<tip, base, trace, nl>>
      BY <2>4 DEF UpdateMempoolForReorg, Without, Reporting, chainVars, isVars
    <3>2. Anc[tip'] \subseteq Anc[tip]
      BY <3>1
    <3> QED
      BY <2>1, <2>n, <3>1, <3>2, TrackedKept
  <2>5. CASE ProcessNewTransactionRead \/ ConnectBlock
    BY <2>5, <2>k DEF ProcessNewTransactionRead, ConnectBlock, Reporting, chainVars
  <2>6. CASE ActivateBestChain
    <3>1. PICK m \in MostWork : Disconnect(ForkOf[tip][m])
      BY <2>6 DEF ActivateBestChain
    <3>2. m \in Blocks
      BY <2>2, <3>1 DEF IInv, Holders, MostWork, Usable
    <3>3. ForkOf[tip][m] \in Anc[tip]
      BY <2>2, <3>2, ForkBelow
    <3> QED
      BY <2>6, <2>d, <3>1, <3>3 DEF ActivateBestChain
  <2>7. CASE EnforceBestChainLock
    <3>1. chainLock \in Blocks
      BY <2>7, ZenonT(30) DEF IInv, Holders, Rooted, EnforceBestChainLock
    <3>2. ForkOf[tip][chainLock] \in Anc[tip]
      BY <2>2, <3>1, ForkBelow
    <3>3. vpc = "free" /\ Disconnect(ForkOf[tip][chainLock]) /\ UNCHANGED <<base, mempool, trace, nl>>
      BY <2>7, ZenonT(30) DEF EnforceBestChainLock
    <3> QED
      BY <2>d, <3>2, <3>3
  <2>8. ASSUME NEW h \in LockThreads, LockInvalidate(h) PROVE Tracked'
    <3> DEFINE b == found[h]
    <3>1. b \in Blocks \ {Genesis} /\ Invalidate(b, failed) /\ vpc = "free"
      BY <2>8 DEF IInv, Holders, Reported, Above, LockInvalidate
    <3>2. UNCHANGED <<base, mempool, vtx, vblk, trace, nl>>
      BY <2>8 DEF LockInvalidate
    <3> HIDE DEF b
    <3>3. CASE b \in Anc[tip]
      <4>1. Parent[b] \in Anc[tip] /\ Disconnect(Parent[b])
        BY <2>2, <3>1, <3>3, ParentBelow, Below DEF Invalidate
      <4> QED
        BY <2>d, <3>1, <3>2, <4>1
    <3>4. CASE b \notin Anc[tip]
      <4>1. UNCHANGED <<tip, vpc>>
        BY <3>1, <3>4 DEF Invalidate
      <4> QED
        BY <2>k, <3>2, <4>1 DEF Reporting
    <3> QED
      BY <3>3, <3>4
  <2>9. ASSUME NEW b \in Blocks, ReceiveBlock(b) \/ ProcessNewChainLock(b) PROVE Tracked'
    BY <2>9, <2>k DEF ReceiveBlock, ProcessNewChainLock, Reporting, chainVars, isVars, valVars
  <2>10. ASSUME NEW l \in Locks,
                ProcessMessageInstantSendLock(l) \/ TrySignInstantSendLock(l)
                   \/ ProcessPendingInstantSendLocks(l) \/ HandleNewInstantSendLockRecoveredSig(l)
         PROVE  Tracked'
    BY <2>10, <2>k
       DEF ProcessMessageInstantSendLock, TrySignInstantSendLock, ProcessPendingInstantSendLocks,
           HandleNewInstantSendLockRecoveredSig, Start, Reporting, chainVars, isVars, valVars
  <2>11. ASSUME NEW h \in LockThreads, LockStep(h), ~LockInvalidate(h) PROVE Tracked'
    <3>1. /\ UNCHANGED <<tip, base, trace, vpc, vtx, vblk>> /\ mempool' \subseteq mempool
      BY <2>11
         DEF LockStep, LockLookup, LockWrite, LockMempool, LockConflicted, LockCollect, LockResolve,
             LockUntrack, Without, chainVars, valVars
    <3>2. \A t \in Txs : Unconcerned(t)' => \A b : TrackedAs(t, b) => TrackedAs(t, b)'
      BY <2>1, <2>11, LockUntracks
    <3>3. Anc[tip'] \subseteq Anc[tip] /\ (Reporting => Reporting')
      BY <3>1 DEF Reporting
    <3> QED
      BY <2>1, <3>1, <3>2, <3>3, TrackedKept
  <2>12. CASE HandleFullyConfirmedBlock
    <3>1. UNCHANGED <<tip, base, mempool, trace, vpc, vtx, vblk>>
      BY <2>12, ZenonT(30) DEF HandleFullyConfirmedBlock, chainVars, valVars
    <3>2. \A t \in Txs : \A b :
              TrackedAs(t, b) => TrackedAs(t, b)' \/ (b # Null /\ HasChainLock(b)')
      BY <2>12, ConfirmedUntracks
    <3>3. Anc[tip'] \subseteq Anc[tip] /\ mempool' \subseteq mempool /\ (Reporting => Reporting')
      BY <3>1 DEF Reporting
    <3> QED
      BY <2>1, <3>1, <3>2, <3>3, TrackedKept
  <2>13. CASE UNCHANGED vars
    BY <2>13, <2>k DEF vars, chainVars, isVars, valVars, Reporting
  <2> QED
    BY <1>2, <2>3, <2>4, <2>5, <2>6, <2>7, <2>8, <2>9, <2>10, <2>11, <2>12, <2>13, TrackedAdd,
       TrackedTrack, TrackedConnectTip, TrackedBlockConnected DEF Next, Validate
<1> QED
  BY <1>1, <1>2

\* Two lock threads, the ChainLocks and the holder of cs_main remove entries of
\* nonLockedTxs at any time and in any order, blocks are connected, disconnected and
\* reported late: a transaction that no known lock is of or excludes is never lost.
\* When cs_main is free it is tracked as not mined in the mempool, and with the very
\* block that holds it in the chain.  A chain holds a transaction once; nothing is
\* assumed of the conflicts between the transactions.
THEOREM UnconcernedStaysTracked == Spec => []UnconcernedTracked
<1> DEFINE I == IInv /\ Rooted /\ Reported /\ Typed /\ Equipped
           J == Apart /\ Traced /\ Concerned /\ Tracked
<1>1. Init => I /\ J
  BY InitInv, RootedInit, ReportedInit, TypedInit, ApartInit, ConcernedInit, TrackedInit
<1>2. I /\ [Next]_vars => I'
  BY NextInv, RootedStep, ReportedStep, TypedStep, EquippedStep, ZenonT(30)
<1>3. I /\ J /\ [Next]_vars => J'
  BY ApartStep, ConcernedStep, TrackedStep, ZenonT(30)
<1>4. J => UnconcernedTracked
  <2> SUFFICES ASSUME Apart, Tracked, vpc = "free" PROVE UnconcernedTracked
    BY DEF UnconcernedTracked
  <2>1. ~Reporting /\ \A b : ~Traces(b)
    <3>1. trace = <<>>
      BY DEF Apart
    <3>2. \A b : ~Traces(b)
      BY <3>1, SMT DEF Traces
    <3> QED
      BY <3>2 DEF Reporting
  <2> QED
    BY <2>1 DEF Tracked, InPool, InBlock, UnconcernedTracked
<1> QED
  BY <1>1, <1>2, <1>3, <1>4, PTL DEF Spec
=============================================================================
