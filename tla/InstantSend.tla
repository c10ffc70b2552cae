---------------------------- MODULE InstantSend ----------------------------
(***************************************************************************)
(* CInstantSendManager of one node (src/llmq/quorums_instantsend.cpp) with *)
(* the mempool, the active chain and the ChainLocks it works against.      *)
(*                                                                         *)
(* Whoever holds cs_main validates: it accepts a transaction, or makes a   *)
(* step of ActivateBestChain, and calls the manager while it holds it.     *)
(* vpc says where it is; "free" means that nobody holds cs_main.  Next to  *)
(* it run "work", the thread of the manager, and "sigs", which gets the    *)
(* recovered signatures; both run ProcessInstantSendLock.  The scheduler   *)
(* enforces ChainLocks.  A step is what a thread does between taking and   *)
(* releasing a lock.                                                       *)
(***************************************************************************)
EXTENDS InstantSendDb, BlockTree, Sequences

CONSTANTS
    BlockTx,        \* the transaction in a block that matters here, or Null
    Lockable,       \* the blocks that may get a ChainLock
    Sent,           \* the transactions that peers send
    Relayed,        \* the locks that peers send
    Created,        \* the locks that our own signing sessions create
    ArchiveDepth,   \* 100
    RestartAt,      \* bound: the tips at which it may crash ...
    MaxRestarts     \* ... and how often

ASSUME ChainAssumption ==
    /\ Null \notin Blocks
    /\ BlockTx \in [Blocks -> Txs \cup {Null}]
    /\ Relayed \subseteq Locks /\ Created \subseteq Locks
    /\ Sent \subseteq Txs /\ Lockable \subseteq Blocks /\ RestartAt \subseteq Blocks
    /\ ArchiveDepth \in Nat /\ MaxRestarts \in Nat

\* Blocks that fail the other checks are left out: a chain has a transaction once, since
\* a copy spends spent inputs, and what has no inputs carries the height of its block.
ASSUME OnceAssumption ==
    \A b \in Blocks : \A x, y \in Anc[b] : BlockTx[x] = BlockTx[y] /\ BlockTx[x] # Null => x = y

VARIABLES
    have,       \* the blocks with data
    failed,     \* BLOCK_FAILED_MASK
    tip,        \* chainActive.Tip()
    base,       \* the tip when the node started
    txIndex,    \* the block the transaction index names
    mempool,
    chainLock,  \* the best ChainLock
    notified,   \* lastNotifyChainLockBlockIndex
    db,         \* CInstantSendDb
    pending,    \* pendingInstantSendLocks
    nl,         \* nonLockedTxs, nonLockedTxsByOutpoints
    retry,      \* pendingRetryTxs
    voted,      \* the transactions on whose inputs this node has voted
    asked,      \* inputRequestIds, as outpoints
    creating,   \* creatingInstantSendLocks
    made,       \* the locks whose recovered signature is known
    vpc,        \* what the holder of cs_main is about to do
    vtx, vblk,  \* tx and pindex of ProcessNewTransaction
    vlocked,    \* whether it found tx locked
    goal,       \* where the step of ActivateBestChain ends
    trace,      \* ConnectTrace: blocks and the transactions they evicted
    pool,       \* disconnectpool
    pc, cur,    \* of the lock threads: the next step, and the lock
    found,      \* pindexMined
    bad,        \* toDelete, then conflicts
    restarts

chainVars == <<have, failed, tip, base, txIndex>>
clVars == <<chainLock, notified>>
isVars == <<db, nl, retry>>
voteVars == <<voted, asked, creating, made>>
valVars == <<vpc, vtx, vblk, vlocked, goal, trace, pool>>
threadVars == <<pc, cur, found, bad>>
vars == <<chainVars, mempool, clVars, isVars, pending, voteVars, valVars, threadVars, restarts>>

LockThreads == {"work", "sigs"}

Init ==
    /\ have = {Genesis} /\ failed = {} /\ tip = Genesis /\ base = Genesis
    /\ txIndex = [t \in Txs |-> IF BlockTx[Genesis] = t THEN Genesis ELSE Null]
    /\ mempool = {} /\ chainLock = Null /\ notified = Null
    /\ db = EmptyDb /\ nl = NoNonLockedTxs /\ retry = {} /\ pending = {}
    /\ voted = {} /\ asked = {} /\ creating = {} /\ made = {}
    /\ vpc = "free" /\ vtx = Null /\ vblk = Null /\ vlocked = FALSE
    /\ goal = Null /\ trace = <<>> /\ pool = {}
    /\ pc = [h \in LockThreads |-> "idle"] /\ cur = [h \in LockThreads |-> Null]
    /\ found = [h \in LockThreads |-> Null] /\ bad = [h \in LockThreads |-> {}]
    /\ restarts = 0

-----------------------------------------------------------------------------
\* InternalHasChainLock, InternalHasConflictingChainLock
HasChainLock(b) == chainLock # Null /\ b \in Anc[chainLock]
HasConflictingChainLock(b) ==
    chainLock # Null /\ Height[b] <= Height[chainLock] /\ b \notin Anc[chainLock]

MinedIn(t, chain) == \E b \in Anc[chain] : BlockTx[b] = t
IsLocked(t) == GetInstantSendLockByTxid(db, t) # Null

\* The transactions that spend outputs of t, directly or not.
Descendants ==
    LET upTo[n \in 0 .. Cardinality(Txs)] ==
            IF n = 0 THEN [t \in Txs |-> {}]
            ELSE LET before == upTo[n - 1]
                 IN  [t \in Txs |-> {x \in Txs : \E p \in Parents(x) : p = t \/ p \in before[t]}]
    IN  upTo[Cardinality(Txs)]

\* removeRecursive of the transactions of T.
Without(S, T) == S \ (T \cup UNION {Descendants[t] : t \in T})

\* CheckCanLock: every parent is locked, or chain locked.  The confirmations
\* that make up for a lock are those of Genesis here.
CheckCanLock(t) ==
    \A p \in Parents(t) :
        \/ IsLocked(p)
        \/ /\ p \notin mempool /\ txIndex[p] # Null
           /\ txIndex[p] = Genesis \/ HasChainLock(txIndex[p])

\* ProcessTx votes on the inputs unless a lock or a vote of ours conflicts, or
\* it has voted already.
ProcessTx(t, allowReSigning) ==
    /\ IF /\ CheckCanLock(t) /\ GetConflictingLocks(db, t) = {} /\ Conflicting(t) \cap voted = {}
          /\ allowReSigning \/ t \notin voted
       THEN voted' = voted \cup {t} /\ asked' = asked \cup Inputs[t]
       ELSE UNCHANGED <<voted, asked>>
    /\ UNCHANGED <<creating, made>>

-----------------------------------------------------------------------------
(***************************************************************************)
(* The holder of cs_main: transactions.                                    *)
(***************************************************************************)
\* What is left to do before cs_main is released.
After(p, tr) == IF p # {} THEN "pool" ELSE IF tr # <<>> THEN "notify" ELSE "free"

Acceptable(t) ==
    /\ t \notin mempool /\ ~MinedIn(t, tip) /\ Inputs[t] # {}
    /\ \A p \in Parents(t) : p \in mempool \/ MinedIn(p, tip)
    /\ \A x \in Conflicting(t) : x \notin mempool /\ ~MinedIn(x, tip)
    /\ GetConflictingLocks(db, t) = {}

\* AcceptToMemoryPool: the checks, ...
AcceptToMemoryPool(t) ==
    /\ t \in Sent /\ vpc = "free" /\ Acceptable(t)
    /\ vpc' = "add" /\ vtx' = t
    /\ UNCHANGED <<chainVars, mempool, clVars, isVars, pending, voteVars, vblk, vlocked, goal,
                   trace, pool, threadVars, restarts>>

\* ... and the insertion.  TransactionAddedToMempool follows.
AddToMempool ==
    /\ vpc = "add"
    /\ mempool' = mempool \cup {vtx}
    /\ vpc' = "read"
    /\ UNCHANGED <<chainVars, clVars, isVars, pending, voteVars, vtx, vblk, vlocked, goal, trace,
                   pool, threadVars, restarts>>

\* ProcessNewTransaction: look for the lock under cs, then vote, ...
ProcessNewTransactionRead ==
    LET l == db.tx[vtx]
        chainlocked == vblk # Null /\ HasChainLock(vblk)
    IN  /\ vpc = "read"
        /\ db' = IF l # Null /\ vblk # Null THEN WriteInstantSendLockMined(db, l, Height[vblk]) ELSE db
        /\ IF l = Null /\ ~chainlocked THEN ProcessTx(vtx, vblk # Null) ELSE UNCHANGED voteVars
        /\ vlocked' = (l # Null \/ chainlocked)
        /\ vpc' = "track"
        /\ UNCHANGED <<chainVars, mempool, clVars, nl, retry, pending, vtx, vblk, goal, trace,
                       pool, threadVars, restarts>>

\* ... and keep track of it, under cs again.
ProcessNewTransactionTrack ==
    /\ vpc = "track"
    /\ IF vlocked
       THEN /\ nl' = RemoveNonLockedTxs(nl, {vtx})
            /\ retry' = retry \cup ChildrenToRetry(nl, {vtx})
       ELSE /\ nl' = AddNonLockedTx(nl, vtx, vblk)
            /\ UNCHANGED retry
    /\ vpc' = After(pool, trace)
    /\ vtx' = Null /\ vblk' = Null /\ vlocked' = FALSE
    /\ UNCHANGED <<chainVars, mempool, clVars, db, pending, voteVars, goal, trace, pool,
                   threadVars, restarts>>

-----------------------------------------------------------------------------
(***************************************************************************)
(* The holder of cs_main: blocks.                                          *)
(***************************************************************************)
\* A block arrives, unless its header is refused: on a failed block, or in
\* conflict with a ChainLock.  ActivateBestChain follows when cs_main is free.
ReceiveBlock(b) ==
    /\ vpc = "free"
    /\ b \notin have /\ Parent[b] \in have
    /\ Anc[b] \cap failed = {} /\ ~HasConflictingChainLock(b)
    /\ have' = have \cup {b}
    /\ UNCHANGED <<failed, tip, base, txIndex, mempool, clVars, isVars, pending, voteVars, valVars,
                   threadVars, restarts>>

\* The chains FindMostWorkChain may choose, as in ChainLocks.
Usable == {b \in have : Anc[b] \cap failed \subseteq Anc[tip]}
MostWork ==
    IF \E b \in Usable : Height[b] > Height[tip]
    THEN {b \in Usable : \A x \in Usable : Height[x] <= Height[b]}
    ELSE {tip}

\* DisconnectTip down to fork, with BlockDisconnected.
Disconnect(fork) ==
    LET off == {b \in Anc[tip] \ Anc[fork] : BlockTx[b] # Null}
        keys == {<<Height[b], db.tx[BlockTx[b]]>> : b \in off}
    IN  /\ tip' = fork
        /\ db' = RemoveInstantSendLockMined(db, keys)
        /\ pool' = {BlockTx[b] : b \in off}

\* FindFork
ForkOf ==
    [a \in Blocks |-> [b \in Blocks |->
        CHOOSE f \in Anc[a] \cap Anc[b] : \A x \in Anc[a] \cap Anc[b] : Height[x] <= Height[f]]]

\* ActivateBestChainStep goes up to the first block that is better than the tip.
ActivateBestChain ==
    /\ vpc = "free"
    /\ \E m \in MostWork \ {tip} :
          /\ Disconnect(ForkOf[tip][m])
          /\ \E b \in Anc[m] : Height[b] = Height[tip] + 1 /\ goal' = b
    /\ vpc' = "connect"
    /\ UNCHANGED <<have, failed, base, txIndex, mempool, clVars, nl, retry, pending, voteVars, vtx,
                   vblk, vlocked, trace, threadVars, restarts>>

\* The block that ActivateBestChainStep connects next.
NextBlock(b) == b \in Anc[goal] /\ Height[b] = Height[tip] + 1

\* ConnectBlock of the next block refuses it when it conflicts with a ChainLock,
\* or with a lock while it has no ChainLock itself; with one, the lock has to
\* go.  A refused block takes what is on top of it along.
ConnectBlock ==
    /\ vpc = "connect"
    /\ \E b \in Anc[goal] :
          LET t == BlockTx[b]
              against == IF t = Null THEN {} ELSE GetConflictingLocks(db, t)
          IN  /\ NextBlock(b)
              /\ IF HasConflictingChainLock(b) \/ (against # {} /\ ~HasChainLock(b))
                 THEN /\ failed' = failed \cup {x \in have : b \in Anc[x]}
                      /\ vpc' = After(pool, trace)
                      /\ goal' = Null
                      /\ UNCHANGED db
                 ELSE /\ IF against = {} THEN vpc' = "tip" /\ UNCHANGED db
                         ELSE /\ vpc' = "forced"
                              /\ \E l \in against :
                                    db' = RemoveChainedInstantSendLocks(db, l, Height[tip])
                      /\ UNCHANGED <<failed, goal>>
    /\ UNCHANGED <<have, tip, base, txIndex, mempool, clVars, nl, retry, pending, voteVars, vtx,
                   vblk, vlocked, trace, pool, threadVars, restarts>>

\* The rest of ConnectTip.  cs was released since ConnectBlock looked for locks.
ConnectTip ==
    /\ vpc \in {"tip", "forced"}
    /\ \E b \in Anc[goal] :
          LET t == BlockTx[b]
              evicted == IF t = Null THEN {} ELSE (mempool \ {t}) \ Without(mempool, Conflicting(t))
          IN  /\ NextBlock(b)
              /\ tip' = b
              /\ txIndex' = IF t = Null THEN txIndex ELSE [txIndex EXCEPT ![t] = b]
              /\ mempool' = mempool \ (evicted \cup {t})
              /\ pool' = pool \ {t}
              /\ trace' = Append(trace, <<b, evicted>>)
              /\ IF b = goal THEN vpc' = After(pool', trace') /\ goal' = Null
                 ELSE vpc' = "connect" /\ UNCHANGED goal
    /\ UNCHANGED <<have, failed, base, clVars, isVars, pending, voteVars, vtx, vblk, vlocked,
                   threadVars, restarts>>

\* Mutant: what a reorg puts back in the mempool is not reported as added.
M_ReorgSilent(t) ==
    /\ vpc = "pool" /\ t \in pool /\ Parents(t) \cap pool = {}
    /\ pool' = pool \ {t}
    /\ mempool' = IF Acceptable(t) THEN mempool \cup {t} ELSE Without(mempool, {t})
    /\ vpc' = After(pool', trace)
    /\ UNCHANGED <<chainVars, clVars, isVars, pending, voteVars, vtx, vblk, vlocked, goal, trace,
                   threadVars, restarts>>

\* UpdateMempoolForReorg: the disconnected transactions are accepted again, or
\* what depends on them has to go.
UpdateMempoolForReorg(t) ==
    /\ vpc = "pool" /\ t \in pool /\ Parents(t) \cap pool = {}
    /\ pool' = pool \ {t}
    /\ IF Acceptable(t)
       THEN vpc' = "add" /\ vtx' = t /\ UNCHANGED mempool
       ELSE /\ mempool' = Without(mempool, {t})
            /\ vpc' = After(pool', trace)
            /\ UNCHANGED vtx
    /\ UNCHANGED <<chainVars, clVars, isVars, pending, voteVars, vblk, vlocked, goal, trace,
                   threadVars, restarts>>

\* Mutant: blocks without a transaction that can be locked are not skipped.
M_BlockConnectedAny ==
    LET b == Head(trace)[1] IN
    /\ vpc = "notify"
    /\ nl' = RemoveNonLockedTxs(nl, Head(trace)[2])
    /\ trace' = Tail(trace)
    /\ vpc' = "read" /\ vtx' = BlockTx[b] /\ vblk' = b
    /\ UNCHANGED <<chainVars, mempool, clVars, db, retry, pending, voteVars, vlocked, goal, pool,
                   threadVars, restarts>>

\* BlockConnected: first the evicted transactions, then the one in the block.
BlockConnected ==
    LET b == Head(trace)[1] IN
    /\ vpc = "notify"
    /\ nl' = RemoveNonLockedTxs(nl, Head(trace)[2])
    /\ trace' = Tail(trace)
    /\ IF BlockTx[b] = Null \/ Inputs[BlockTx[b]] = {}
       THEN vpc' = After(pool, trace') /\ UNCHANGED <<vtx, vblk>>
       ELSE vpc' = "read" /\ vtx' = BlockTx[b] /\ vblk' = b
    /\ UNCHANGED <<chainVars, mempool, clVars, db, retry, pending, voteVars, vlocked, goal, pool,
                   threadVars, restarts>>

-----------------------------------------------------------------------------
(***************************************************************************)
(* ProcessInstantSendLock, run by "work" and "sigs".                       *)
(***************************************************************************)
Goto(h, label) == pc' = [pc EXCEPT ![h] = label]
Leave(h) ==
    /\ Goto(h, "idle")
    /\ cur' = [cur EXCEPT ![h] = Null]
    /\ found' = [found EXCEPT ![h] = Null]
    /\ bad' = [bad EXCEPT ![h] = {}]

AlreadyHave(l) == l \in db.lock \/ l \in pending \/ l \in db.seen

\* An ISLOCK message, after an inv we did not have.
ProcessMessageInstantSendLock(l) ==
    /\ l \in Relayed /\ ~AlreadyHave(l)
    /\ pending' = pending \cup {l}
    /\ UNCHANGED <<chainVars, mempool, clVars, isVars, voteVars, valVars, threadVars, restarts>>

Start(h, l) ==
    /\ pc[h] = "idle"
    /\ Goto(h, "lookup")
    /\ cur' = [cur EXCEPT ![h] = l]
    /\ UNCHANGED <<chainVars, mempool, clVars, isVars, valVars, found, bad, restarts>>

ProcessPendingInstantSendLocks(l) ==
    /\ l \in pending
    /\ pending' = pending \ {l}
    /\ Start("work", l)
    /\ UNCHANGED voteVars

\* HandleNewInputLockRecoveredSig: every input of a transaction that we know
\* has a recovered signature, so its lock is signed.
TrySignInstantSendLock(l) ==
    /\ l \in Created \ (creating \cup made)
    /\ Inputs[LockTx[l]] \cap asked # {}
    /\ LockTx[l] \in mempool \/ txIndex[LockTx[l]] # Null
    /\ creating' = creating \cup {l}
    /\ UNCHANGED <<chainVars, mempool, clVars, isVars, pending, voted, asked, made, valVars,
                   threadVars, restarts>>

\* The recovered signature of the lock itself.
HandleNewInstantSendLockRecoveredSig(l) ==
    /\ l \in creating
    /\ creating' = creating \ {l} /\ made' = made \cup {l}
    /\ Start("sigs", l)
    /\ UNCHANGED <<pending, voted, asked>>

\* GetTransaction, under cs_main: where the transaction is mined.  A lock for
\* one below a ChainLock is dropped.
LockLookup(h) ==
    LET t == LockTx[cur[h]]
        b == IF t \in mempool THEN Null ELSE txIndex[t]
    IN  /\ pc[h] = "lookup" /\ vpc = "free"
        /\ IF b # Null /\ HasChainLock(b)
           THEN Leave(h)
           ELSE /\ Goto(h, "write")
                /\ found' = [found EXCEPT ![h] = b]
                /\ UNCHANGED <<cur, bad>>
        /\ UNCHANGED <<chainVars, mempool, clVars, isVars, pending, voteVars, valVars, restarts>>

\* Store the lock, under cs.
LockWrite(h) ==
    LET l == cur[h]
        stored == WriteNewInstantSendLock(db, l)
    IN  /\ pc[h] = "write"
        /\ creating' = creating \ {l} /\ made' = made \cup {l}
        /\ IF l \in db.lock
           THEN Leave(h) /\ UNCHANGED <<isVars, asked>>
           ELSE /\ db' = IF found[h] = Null THEN stored
                         ELSE WriteInstantSendLockMined(stored, l, Height[found[h]])
                /\ nl' = RemoveNonLockedTxs(nl, {LockTx[l]})
                /\ retry' = retry \cup ChildrenToRetry(nl, {LockTx[l]})
                /\ asked' = asked \ Inputs[LockTx[l]]
                /\ Goto(h, "mempool")
                /\ UNCHANGED <<cur, found, bad>>
        /\ UNCHANGED <<chainVars, mempool, clVars, pending, voted, valVars, restarts>>

\* RemoveMempoolConflictsForLock: under mempool.cs ...
LockMempool(h) ==
    LET dels == mempool \cap Conflicting(LockTx[cur[h]]) IN
    /\ pc[h] = "mempool"
    /\ mempool' = Without(mempool, dels)
    /\ bad' = [bad EXCEPT ![h] = dels]
    /\ Goto(h, IF dels = {} THEN "collect" ELSE "conflicted")
    /\ UNCHANGED <<chainVars, clVars, isVars, pending, voteVars, valVars, cur, found, restarts>>

\* ... and under cs.
LockConflicted(h) ==
    /\ pc[h] = "conflicted"
    /\ nl' = RemoveNonLockedTxs(nl, bad[h])
    /\ bad' = [bad EXCEPT ![h] = {}]
    /\ Goto(h, "collect")
    /\ UNCHANGED <<chainVars, mempool, clVars, db, retry, pending, voteVars, valVars, cur, found,
                   restarts>>

\* ResolveBlockConflicts: the mined transactions that conflict, ...
Conflicts(n, l) ==
    {t \in {n.out[o] : o \in Inputs[LockTx[l]]} \ {LockTx[l], Null} :
        t \in n.known /\ n.mined[t] # Null}

LockCollect(h) ==
    LET conflicts == Conflicts(nl, cur[h]) IN
    /\ pc[h] = "collect"
    /\ IF conflicts = {} THEN Leave(h)
       ELSE /\ bad' = [bad EXCEPT ![h] = {<<nl.mined[t], t>> : t \in conflicts}]
            /\ Goto(h, "resolve")
            /\ UNCHANGED <<cur, found>>
    /\ UNCHANGED <<chainVars, mempool, clVars, isVars, pending, voteVars, valVars, restarts>>

\* ... whether one is below a ChainLock, which is stronger, ...
LockResolve(h) ==
    /\ pc[h] = "resolve"
    /\ IF \E p \in bad[h] : HasChainLock(p[1])
       THEN /\ vpc = "free"
            /\ db' = RemoveChainedInstantSendLocks(db, cur[h], Height[tip])
            /\ Leave(h)
       ELSE /\ Goto(h, "untrack")
            /\ UNCHANGED <<db, cur, found, bad>>
    /\ UNCHANGED <<chainVars, mempool, clVars, nl, retry, pending, voteVars, valVars, restarts>>

\* InvalidateBlock, under cs_main.
Invalidate(b, marked) ==
    IF b \in Anc[tip]
    THEN /\ Disconnect(Parent[b])
         /\ failed' = marked \cup (Anc[tip] \ Anc[Parent[b]])
         /\ vpc' = After(pool', trace)
    ELSE failed' = marked \cup {b} /\ UNCHANGED <<tip, db, pool, vpc>>

\* ... and else, one block after the other, its conflicts are removed under cs
\* (found is not needed any more and names the block) ...
LockUntrack(h) ==
    /\ pc[h] = "untrack"
    /\ \E p \in bad[h] :
          LET here == {q \in bad[h] : q[1] = p[1]} IN
          /\ nl' = RemoveNonLockedTxs(nl, {q[2] : q \in here})
          /\ bad' = [bad EXCEPT ![h] = @ \ here]
          /\ found' = [found EXCEPT ![h] = p[1]]
    /\ Goto(h, "invalidate")
    /\ UNCHANGED <<chainVars, mempool, clVars, db, retry, pending, voteVars, valVars, cur, restarts>>

\* ... and the block is invalidated under cs_main.
LockInvalidate(h) ==
    /\ pc[h] = "invalidate" /\ vpc = "free"
    /\ Invalidate(found[h], failed)
    /\ IF bad[h] = {} THEN Leave(h)
       ELSE Goto(h, "untrack") /\ UNCHANGED <<cur, found, bad>>
    /\ UNCHANGED <<have, base, txIndex, mempool, clVars, nl, retry, pending, voteVars, vtx, vblk,
                   vlocked, goal, trace, restarts>>

\* ProcessPendingRetryLockTxs, one transaction.
ProcessPendingRetryLockTxs(t) ==
    /\ pc["work"] = "idle" /\ vpc = "free" /\ t \in retry
    /\ retry' = retry \ {t}
    /\ IF /\ t \in nl.known /\ ~IsLocked(t) /\ GetConflictingLocks(db, t) = {}
          /\ t \notin {LockTx[l] : l \in creating}
       THEN ProcessTx(t, FALSE) ELSE UNCHANGED voteVars
    /\ UNCHANGED <<chainVars, mempool, clVars, db, nl, pending, valVars, threadVars, restarts>>

-----------------------------------------------------------------------------
(***************************************************************************)
(* ChainLocks, from src/llmq/quorums_chainlocks.cpp; module ChainLocks has *)
(* the details.                                                            *)
(***************************************************************************)
ProcessNewChainLock(b) ==
    /\ b \in Lockable \cap have
    /\ chainLock = Null \/ (chainLock \in Anc[b] /\ chainLock # b)
    /\ chainLock' = b
    /\ UNCHANGED <<chainVars, mempool, notified, isVars, pending, voteVars, valVars, threadVars,
                   restarts>>

\* Mutant: the flags stay.
M_FlagsStay(marked) == marked

\* ResetBlockFailureFlags of the locked block, when it is marked.
ResetBlockFailureFlags(marked) ==
    IF chainLock \in marked
    THEN marked \ {x \in Blocks : chainLock \in Anc[x] \/ x \in Anc[chainLock]}
    ELSE marked

\* EnforceBestChainLock while the locked block is not active.
EnforceBestChainLock ==
    LET fork == ForkOf[tip][chainLock]
        path == Anc[chainLock] \ Anc[fork]
        siblings == {s \in have \ {Genesis} : \E p \in path : s # p /\ Parent[s] = Parent[p]}
        marked == failed \cup siblings \cup (Anc[tip] \ Anc[fork])
    IN  /\ vpc = "free" /\ chainLock # Null /\ chainLock \notin Anc[tip]
        /\ Disconnect(fork)
        /\ failed' = ResetBlockFailureFlags(marked)
        /\ vpc' = After(pool', trace)
        /\ UNCHANGED <<have, base, txIndex, mempool, clVars, nl, retry, pending, voteVars, vtx, vblk,
                       vlocked, goal, trace, threadVars, restarts>>

\* NotifyChainLock, HandleFullyConfirmedBlock: locks at or below the block are
\* archived, transactions below it need no lock any more.
HandleFullyConfirmedBlock ==
    LET b == chainLock
        confirmed == RemoveConfirmedInstantSendLocks(db, Height[b])
        done == {t \in nl.entry : nl.mined[t] # Null /\ nl.mined[t] \in Anc[b]}
    IN  /\ chainLock # Null /\ notified # chainLock /\ chainLock \in Anc[tip]
        /\ notified' = chainLock
        /\ db' = IF Height[b] > ArchiveDepth
                 THEN RemoveArchivedInstantSendLocks(confirmed, Height[b] - ArchiveDepth)
                 ELSE confirmed
        /\ nl' = RemoveNonLockedTxs(nl, done)
        /\ retry' = retry \cup ChildrenToRetry(nl, done)
        /\ asked' = asked \ UNION {Inputs[LockTx[l]] : l \in db.lock \ confirmed.lock}
        /\ UNCHANGED <<chainVars, mempool, chainLock, pending, voted, creating, made, valVars,
                       threadVars, restarts>>

\* The database and the votes are on disk; of the chain, what was flushed last.
\* Peers send the ChainLock again.
Restart ==
    /\ restarts < MaxRestarts /\ tip \in RestartAt
    /\ restarts' = restarts + 1
    /\ \E b \in Anc[tip] : tip' = b /\ base' = b
    /\ mempool' = {} /\ chainLock' = Null /\ notified' = Null
    /\ nl' = NoNonLockedTxs /\ retry' = {} /\ pending' = {}
    /\ asked' = {} /\ creating' = {}
    /\ vpc' = "free" /\ vtx' = Null /\ vblk' = Null /\ vlocked' = FALSE
    /\ goal' = Null /\ trace' = <<>> /\ pool' = {}
    /\ pc' = [h \in LockThreads |-> "idle"] /\ cur' = [h \in LockThreads |-> Null]
    /\ found' = [h \in LockThreads |-> Null] /\ bad' = [h \in LockThreads |-> {}]
    /\ UNCHANGED <<have, failed, txIndex, db, voted, made>>

Validate ==
    \/ AddToMempool \/ ProcessNewTransactionRead \/ ProcessNewTransactionTrack
    \/ ActivateBestChain \/ ConnectBlock \/ ConnectTip \/ BlockConnected
    \/ \E t \in Txs : UpdateMempoolForReorg(t)

LockStep(h) ==
    \/ LockLookup(h) \/ LockWrite(h) \/ LockMempool(h) \/ LockConflicted(h)
    \/ LockCollect(h) \/ LockResolve(h) \/ LockUntrack(h) \/ LockInvalidate(h)

Next ==
    \/ \E t \in Txs : AcceptToMemoryPool(t) \/ ProcessPendingRetryLockTxs(t)
    \/ \E b \in Blocks \ {Genesis} : ReceiveBlock(b) \/ ProcessNewChainLock(b)
    \/ Validate
    \/ \E l \in Locks : \/ ProcessMessageInstantSendLock(l) \/ ProcessPendingInstantSendLocks(l)
                        \/ TrySignInstantSendLock(l) \/ HandleNewInstantSendLockRecoveredSig(l)
    \/ \E h \in LockThreads : LockStep(h)
    \/ EnforceBestChainLock \/ HandleFullyConfirmedBlock
    \/ Restart

Spec == Init /\ [][Next]_vars

\* Whoever holds cs_main goes on, and the scheduler enforces the best ChainLock
\* every five seconds; nothing is asked of the lock threads.
Fairness == WF_vars(Validate) /\ WF_vars(EnforceBestChainLock)

FairSpec == Spec /\ Fairness

-----------------------------------------------------------------------------
(***************************************************************************)
(* Properties.                                                             *)
(***************************************************************************)
\* The stores, as records.
Dbs ==
    [lock : SUBSET Locks, tx : [Txs -> Locks \cup {Null}], in : [Outpoints -> Locks \cup {Null}],
     mined : SUBSET (Nat \X Locks), archived : SUBSET (Nat \X Locks), seen : SUBSET Locks]
NonLocked ==
    [entry : SUBSET Txs, known : SUBSET Txs, mined : [Txs -> Blocks \cup {Null}],
     children : [Txs -> SUBSET Txs], out : [Outpoints -> Txs \cup {Null}]]

\* Every variable holds values of its type, and whoever holds cs_main has what
\* its next step needs: a transaction with inputs, a block to reach, a block to
\* report.
TypeOK ==
    /\ have \subseteq Blocks /\ failed \subseteq have /\ tip \in have /\ base \in have
    /\ txIndex \in [Txs -> Blocks \cup {Null}] /\ mempool \subseteq Txs
    /\ chainLock \in Blocks \cup {Null} /\ notified \in Blocks \cup {Null}
    /\ db \in Dbs /\ nl \in NonLocked /\ retry \subseteq Txs /\ pending \subseteq Locks
    /\ voted \subseteq Txs /\ asked \subseteq Outpoints
    /\ creating \subseteq Locks /\ made \subseteq Locks
    /\ vpc \in {"free", "add", "read", "track", "connect", "tip", "forced", "pool", "notify"}
    /\ vpc \in {"add", "read", "track"} => vtx \in Txs /\ Inputs[vtx] # {}
    /\ vpc \in {"connect", "tip", "forced"} => goal \in have
    /\ vpc = "pool" => pool # {}
    /\ vpc = "notify" => trace # <<>>
    /\ vblk \in Blocks \cup {Null} /\ vlocked \in BOOLEAN /\ pool \subseteq Txs
    /\ trace \in Seq(Blocks \X SUBSET Txs)
    /\ \A h \in LockThreads : pc[h] # "idle" => cur[h] \in Locks
    /\ found \in [LockThreads -> Blocks \cup {Null}]
    /\ restarts \in 0 .. MaxRestarts

\* The is_tx and is_in keys name the stored locks, no other, and every one of
\* them: whatever mixture of new locks, confirmations, reorganisations and
\* pruning of chained locks went before, a conflict is found through any input.
IndexesExact ==
    /\ \A t \in Txs : db.tx[t] # Null => db.tx[t] \in db.lock /\ LockTx[db.tx[t]] = t
    /\ \A o \in Outpoints :
          db.in[o] # Null => db.in[o] \in db.lock /\ o \in Inputs[LockTx[db.in[o]]]
    /\ \A l \in db.lock : db.tx[LockTx[l]] = l /\ \A o \in Inputs[LockTx[l]] : db.in[o] = l

\* The links of nonLockedTxs stay sound: a child is a tracked transaction that
\* spends its parent, an entry without transaction has a child and goes with
\* the last one, and nonLockedTxsByOutpoints names tracked transactions only.
NonLockedLinked ==
    /\ nl.known \subseteq nl.entry
    /\ \A p \in Txs : \A x \in nl.children[p] : x \in nl.known /\ p \in Parents(x) /\ p \in nl.entry
    /\ \A p \in nl.entry \ nl.known : nl.children[p] # {}
    /\ \A o \in Outpoints : nl.out[o] # Null => nl.out[o] \in nl.known /\ o \in Inputs[nl.out[o]]
    /\ \A t \in Txs \ nl.known : nl.mined[t] = Null

Quiet == vpc = "free" /\ \A h \in LockThreads : pc[h] = "idle"

\* A lock of t is archived: confirmed, at a height that may be that of a block
\* disconnected before the lock was stored, or lost against a ChainLock.
Archived(t) == \E l \in db.seen : LockTx[l] = t

\* When nothing is under way, a transaction without a lock is tracked, so that
\* it can be retried and found as a conflict: in the mempool, and in a block
\* connected since the start that has no ChainLock, with that very block.  Two
\* kinds are forgotten here.  One had a lock that is archived.  The other is in a
\* block and a stored lock excludes it: the lock came after ConnectBlock had
\* looked for it, and its thread has removed the transaction, as one of the
\* mempool, after the block was reported.  (Where b1 does not hold t2 there is a
\* third: a lock that excludes the transaction is archived, before its thread
\* removes the transaction.)
UnlockedTracked ==
    Quiet =>
        /\ \A t \in mempool : IsLocked(t) \/ t \in nl.known \/ Archived(t)
        /\ \A b \in Anc[tip] \ Anc[base] :
              LET t == BlockTx[b] IN
              t # Null => \/ IsLocked(t) \/ HasChainLock(b) \/ Archived(t)
                          \/ t \in nl.known /\ nl.mined[t] = b
                          \/ GetConflictingLocks(db, t) # {}

\* No lock that is known is of t or excludes it.
Unconcerned(t) == \A l \in made : t # LockTx[l] /\ t \notin Conflicting(LockTx[l])

TrackedAs(t, b) == t \in nl.known /\ nl.mined[t] = b

\* Whatever the threads do with locks of other transactions, one that no lock
\* concerns is tracked whenever cs_main is free: as not mined when it is in the
\* mempool, although it may have been in a block or in the disconnectpool, and
\* with the block it is in now when that was connected since the start, unless
\* the block has a ChainLock.
UnconcernedTracked ==
    vpc = "free" => \A t \in Txs : Unconcerned(t) =>
        /\ t \in mempool => TrackedAs(t, Null)
        /\ \A b \in Anc[tip] \ Anc[base] :
              BlockTx[b] = t /\ Inputs[t] # {} => HasChainLock(b) \/ TrackedAs(t, b)

\* The assertion of ConnectBlock: once the lock that conflicts with a block
\* below a ChainLock has been removed, no lock does until the block is connected.
\* This does not hold of the code: cs is released after the removal, and a lock
\* thread that has looked up a second copy of the lock writes it back.
AssertionHolds ==
    vpc = "forced" => \A b \in Blocks : NextBlock(b) => GetConflictingLocks(db, BlockTx[b]) = {}

\* A ChainLock wins over locks that conflict with its block: the block becomes
\* active, though a lock thread may refuse or invalidate it meanwhile, unless
\* a better ChainLock or a restart comes first.
ChainLockPrevails == \A b \in Lockable : chainLock = b ~> (b \in Anc[tip] \/ chainLock # b)
=============================================================================
