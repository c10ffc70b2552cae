----------------------------- MODULE ChainLocks -----------------------------
(***************************************************************************)
(* CChainLocksHandler of one node (src/llmq/quorums_chainlocks.cpp) and    *)
(* the part of block validation that it drives: the block index, failure   *)
(* flags and ActivateBestChain.                                            *)
(*                                                                         *)
(* Three threads meet here.  "msghand" handles CLSIG messages, headers and *)
(* blocks; "sigs" turns recovered signatures of our own signing sessions   *)
(* into ChainLocks; "sched" runs CheckActiveState, EnforceBestChainLock    *)
(* and TrySignChainTip every five seconds and after every event.  A step   *)
(* is what a thread does between taking and releasing cs or cs_main.       *)
(*                                                                         *)
(* A CLSIG is named by its block: its height is the block's, and only the  *)
(* blocks of Locked have a valid recovered signature.                      *)
(***************************************************************************)
EXTENDS BlockTree

\* The chain work of a block is its height.
CONSTANTS
    Null,           \* nullptr, a null CChainLockSig
    Locked,         \* the blocks a quorum has signed
    Threads,        \* the threads that run
    InitialHeaders, \* the headers known at start
    SignOffset,     \* SIGN_HEIGHT_OFFSET
    MaxUpsets       \* bound on the changes of SPORK_19 and the restarts together

ASSUME NodeAssumption ==
    /\ Null \notin Blocks
    /\ Locked \subseteq Blocks
    /\ InitialHeaders \subseteq Blocks /\ Genesis \in InitialHeaders
    /\ \A b \in InitialHeaders : Anc[b] \subseteq InitialHeaders
    /\ SignOffset \in Nat /\ MaxUpsets \in Nat

VARIABLES
    headers,    \* mapBlockIndex
    have,       \* BLOCK_HAVE_DATA
    failed,     \* BLOCK_FAILED_VALID, BLOCK_FAILED_CHILD
    conflict,   \* BLOCK_CONFLICT_CHAINLOCK
    tip,        \* chainActive.Tip()
    sporkOn,    \* SPORK_19_CHAINLOCKS_ENABLED
    isEnforced, \* isEnforced and isSporkActive, equal when DIP0008 is enabled
    seen,       \* seenChainLocks
    best,       \* bestChainLock, bestChainLockHash
    known,      \* bestChainLockWithKnownBlock, bestChainLockBlockIndex
    lastNotify, \* lastNotifyChainLockBlockIndex
    lastSigned, \* lastSignedHeight, lastSignedRequestId, lastSignedMsgHash
    pc,         \* what each thread is about to do
    arg,        \* the block it does it with
    most,       \* pindexMostWork of the thread inside ActivateBestChain
    upsets      \* spork changes and restarts so far

chainVars == <<headers, have, failed, conflict, tip>>
lockVars == <<isEnforced, best, known, lastNotify, lastSigned>>
vars == <<chainVars, sporkOn, lockVars, seen, pc, arg, most, upsets>>

AllThreads == {"msghand", "sigs", "sched"}
Level(b) == IF b = Null THEN -1 ELSE Height[b]

Init ==
    /\ headers = InitialHeaders /\ have = {Genesis} /\ failed = {} /\ conflict = {}
    /\ tip = Genesis
    /\ sporkOn = TRUE /\ isEnforced = FALSE /\ seen = {}
    /\ best = Null /\ known = Null /\ lastNotify = Null /\ lastSigned = Null
    /\ pc = [t \in AllThreads |-> "idle"] /\ arg = [t \in AllThreads |-> Null]
    /\ most = Null /\ upsets = 0

Goto(t, label, b) ==
    /\ pc' = [pc EXCEPT ![t] = label]
    /\ arg' = [arg EXCEPT ![t] = b]

-----------------------------------------------------------------------------
(***************************************************************************)
(* Questions about the best ChainLock.                                     *)
(***************************************************************************)
\* InternalHasConflictingChainLock
HasConflictingChainLock(b) ==
    isEnforced /\ known # Null /\ Height[b] <= Height[known] /\ b \notin Anc[known]

-----------------------------------------------------------------------------
(***************************************************************************)
(* CLSIGs.                                                                 *)
(***************************************************************************)
\* A CLSIG message.
ProcessMessage(b) ==
    /\ pc["msghand"] = "idle" /\ b \in Locked /\ sporkOn
    /\ Goto("msghand", "seen", b)
    /\ UNCHANGED <<chainVars, sporkOn, lockVars, seen, most, upsets>>

\* A recovered sig; only the one for what we signed last is of use.
HandleNewRecoveredSig(b) ==
    /\ "sigs" \in Threads /\ pc["sigs"] = "idle"
    /\ b \in Locked /\ isEnforced /\ b = lastSigned /\ Level(best) < Height[b]
    /\ Goto("sigs", "seen", b)
    /\ UNCHANGED <<chainVars, sporkOn, lockVars, seen, most, upsets>>

\* ProcessNewChainLock up to the first unlock.
ProcessNewChainLockSeen(t) ==
    /\ pc[t] = "seen"
    /\ seen' = seen \cup {arg[t]}
    /\ IF arg[t] \in seen \/ Height[arg[t]] <= Level(best)
       THEN Goto(t, "idle", Null)
       ELSE Goto(t, "verify", arg[t])
    /\ UNCHANGED <<chainVars, sporkOn, lockVars, most, upsets>>

\* VerifyRecoveredSig, without locks: it fails when the active chain is too
\* short to select the quorum.
ProcessNewChainLockVerify(t) ==
    /\ pc[t] = "verify"
    /\ IF Height[arg[t]] - SignOffset > Height[tip]
       THEN Goto(t, "idle", Null)
       ELSE Goto(t, "accept", arg[t])
    /\ UNCHANGED <<chainVars, sporkOn, lockVars, seen, most, upsets>>

\* Mutant: the conflict check is left to the check made before verification.
M_AcceptUnchecked(t) ==
    /\ pc[t] = "accept"
    /\ best' = arg[t]
    /\ known' = IF arg[t] \in headers THEN arg[t] ELSE known
    /\ Goto(t, "idle", Null)
    /\ UNCHANGED <<chainVars, sporkOn, isEnforced, lastNotify, lastSigned, seen, most, upsets>>

\* Mutant: the known block is updated though its header is missing.
M_AcceptUnknown(t) ==
    /\ pc[t] = "accept"
    /\ IF HasConflictingChainLock(arg[t])
       THEN UNCHANGED <<best, known>>
       ELSE best' = arg[t] /\ known' = arg[t]
    /\ Goto(t, "idle", Null)
    /\ UNCHANGED <<chainVars, sporkOn, isEnforced, lastNotify, lastSigned, seen, most, upsets>>

\* ... and its last part, under cs_main and cs.
ProcessNewChainLockAccept(t) ==
    /\ pc[t] = "accept"
    /\ IF HasConflictingChainLock(arg[t])
       THEN UNCHANGED <<best, known>>
       ELSE /\ best' = arg[t]
            /\ known' = IF arg[t] \in headers THEN arg[t] ELSE known
    /\ Goto(t, "idle", Null)
    /\ UNCHANGED <<chainVars, sporkOn, isEnforced, lastNotify, lastSigned, seen, most, upsets>>

-----------------------------------------------------------------------------
(***************************************************************************)
(* Headers and blocks.                                                     *)
(***************************************************************************)
\* Mutant: a header completes any ChainLock that was seen, not only the best.
M_HeaderCompletesSeen(b) ==
    /\ pc["msghand"] = "idle" /\ b \notin headers /\ b # Genesis /\ Parent[b] \in headers
    /\ Parent[b] \notin conflict /\ Anc[Parent[b]] \cap failed = {}
    /\ headers' = headers \cup {b}
    /\ conflict' = IF HasConflictingChainLock(b) THEN conflict \cup {b} ELSE conflict
    /\ known' = IF ~HasConflictingChainLock(b) /\ b \in seen THEN b ELSE known
    /\ UNCHANGED <<failed, have, tip, sporkOn, isEnforced, best, lastNotify, lastSigned, seen,
                   pc, arg, most, upsets>>

\* AcceptBlockHeader of a header we do not know: rejected below a failed or
\* conflicting block, flagged when it conflicts itself, and else announced to
\* AcceptedBlockHeader, which completes a ChainLock that came before it.
AcceptBlockHeader(b) ==
    /\ pc["msghand"] = "idle" /\ b \notin headers /\ b # Genesis /\ Parent[b] \in headers
    /\ IF Anc[Parent[b]] \cap failed # {}
       THEN /\ failed' = failed \cup {x \in Anc[Parent[b]] : Anc[x] \cap failed # {}}
            /\ UNCHANGED <<headers, conflict, known>>
       ELSE /\ Parent[b] \notin conflict
            /\ headers' = headers \cup {b}
            /\ conflict' = IF HasConflictingChainLock(b) THEN conflict \cup {b} ELSE conflict
            /\ known' = IF ~HasConflictingChainLock(b) /\ best = b THEN b ELSE known
            /\ UNCHANGED failed
    /\ UNCHANGED <<have, tip, sporkOn, isEnforced, best, lastNotify, lastSigned, seen, pc, arg,
                   most, upsets>>

\* ProcessNewBlock: store the block, then ActivateBestChain.
ProcessNewBlock(b) ==
    /\ pc["msghand"] = "idle" /\ b \in headers \ have /\ b \notin failed
    /\ have' = have \cup {b}
    /\ Goto("msghand", "activate", Null)
    /\ UNCHANGED <<headers, failed, conflict, tip, sporkOn, lockVars, seen, most, upsets>>

\* The chains FindMostWorkChain may choose: all data there, no failed block
\* above the active chain, most work; the tip itself wins a tie.
Usable(b) == Anc[b] \subseteq have /\ (Anc[b] \ Anc[tip]) \cap failed = {}
MostWork ==
    LET top == {b \in Blocks : Usable(b) /\ \A x \in Blocks : Usable(x) => Height[x] <= Height[b]}
    IN  IF tip \in top THEN {tip} ELSE top

\* ... and the failed flags after it has skipped the candidates with more work.
FailedAfter(m) ==
    failed \cup {b \in Blocks : /\ (Anc[b] \ Anc[tip]) \cap failed # {}
                                /\ \E c \in Blocks : /\ b \in Anc[c] /\ Anc[c] \subseteq have
                                                     /\ Height[c] > Height[m]}

\* Where ActivateBestChain goes on when it is done.
AfterActivate(t) ==
    /\ most' = Null
    /\ IF t = "sched" THEN Goto(t, "notify", arg[t]) ELSE Goto(t, "idle", Null)

\* Mutant: ConnectBlock does not ask for conflicting ChainLocks.
M_ConnectAny(t, m, flags) ==
    LET stop == CHOOSE b \in Anc[m] : Height[b] = IF Height[m] > Height[tip] THEN Height[tip] + 1
                                                 ELSE Height[m]
    IN  /\ tip' = stop
        /\ failed' = flags
        /\ IF stop = m THEN AfterActivate(t)
           ELSE most' = m /\ Goto(t, "connect", arg[t])

\* ActivateBestChainStep towards m: disconnect to the fork, connect until the
\* chain is better than it was.  A block that ConnectBlock rejects because of
\* a conflicting ChainLock is marked as failed, and another chain is looked for.
ConnectTowards(t, m, flags) ==
    LET stop == CHOOSE b \in Anc[m] : Height[b] = IF Height[m] > Height[tip] THEN Height[tip] + 1
                                                 ELSE Height[m]
        bad == {b \in Anc[stop] \ Anc[tip] : HasConflictingChainLock(b)}
        first == CHOOSE b \in bad : \A x \in bad : Height[b] <= Height[x]
    IN  IF bad # {}
        THEN /\ tip' = Parent[first]
             /\ failed' = flags \cup {first}
             /\ most' = Null /\ Goto(t, "connect", arg[t])
        ELSE /\ tip' = stop
             /\ failed' = flags
             /\ IF stop = m THEN AfterActivate(t)
                ELSE most' = m /\ Goto(t, "connect", arg[t])

\* Take cs_activateBestChain, or go on while holding it, and make a step under
\* cs_main towards pindexMostWork, which is remembered from step to step.
ActivateBestChain(t) ==
    /\ \/ pc[t] = "activate" /\ \A x \in AllThreads : pc[x] # "connect"
       \/ pc[t] = "connect"
    /\ IF most # Null /\ pc[t] = "connect"
       THEN IF most = tip THEN AfterActivate(t) /\ UNCHANGED <<tip, failed>>
            ELSE ConnectTowards(t, most, failed)
       ELSE \E m \in MostWork :
               IF m = tip
               THEN /\ failed' = FailedAfter(m)
                    /\ AfterActivate(t) /\ UNCHANGED tip
               ELSE ConnectTowards(t, m, FailedAfter(m))
    /\ UNCHANGED <<headers, have, conflict, sporkOn, lockVars, seen, upsets>>

-----------------------------------------------------------------------------
(***************************************************************************)
(* The scheduler.                                                          *)
(***************************************************************************)
CheckActiveState ==
    /\ pc["sched"] = "idle"
    /\ isEnforced' = sporkOn
    /\ IF ~isEnforced /\ sporkOn
       THEN best' = Null /\ known' = Null /\ lastNotify' = Null
       ELSE UNCHANGED <<best, known, lastNotify>>
    /\ Goto("sched", "enforce", Null)
    /\ UNCHANGED <<chainVars, sporkOn, lastSigned, seen, most, upsets>>

\* EnforceBestChainLock: the snapshot under cs, ...
EnforceSnapshot ==
    /\ pc["sched"] = "enforce"
    /\ IF isEnforced /\ known # Null
       THEN Goto("sched", "invalidate", known)
       ELSE Goto("sched", "sign", Null)
    /\ UNCHANGED <<chainVars, sporkOn, lockVars, seen, most, upsets>>

\* Mutant: failed blocks of the locked chain are not reconsidered.
M_EnforceNoReset ==
    LET b == arg["sched"]
        path == Anc[b] \ Anc[tip]
        siblings == {s \in headers : s # Genesis /\ \E p \in path : s # p /\ Parent[s] = Parent[p]}
        marked == IF path = {} THEN failed ELSE failed \cup siblings \cup (Anc[tip] \ Anc[b])
    IN  /\ pc["sched"] = "invalidate"
        /\ tip' = IF path = {} THEN tip
                  ELSE CHOOSE f \in Anc[tip] \cap Anc[b] : \A x \in Anc[tip] \cap Anc[b] : Height[x] <= Height[f]
        /\ failed' = marked
        /\ Goto("sched", IF b \in Anc[tip'] THEN "notify" ELSE "activate", b)
        /\ UNCHANGED <<headers, have, conflict, sporkOn, lockVars, seen, most, upsets>>

\* ... under cs_main the siblings of the locked chain are invalidated down to
\* the active chain and its own failed blocks reconsidered, ...
EnforceInvalidate ==
    LET b == arg["sched"]
        path == Anc[b] \ Anc[tip]
        siblings == {s \in headers : s # Genesis /\ \E p \in path : s # p /\ Parent[s] = Parent[p]}
        marked == IF path = {} THEN failed ELSE failed \cup siblings \cup (Anc[tip] \ Anc[b])
        reset == {x \in Blocks : b \in Anc[x] \/ x \in Anc[b]}
    IN  /\ pc["sched"] = "invalidate"
        /\ tip' = IF path = {} THEN tip
                  ELSE CHOOSE f \in Anc[tip] \cap Anc[b] : \A x \in Anc[tip] \cap Anc[b] : Height[x] <= Height[f]
        /\ failed' = IF b \in marked \/ b \notin have THEN marked \ reset ELSE marked
        /\ Goto("sched", IF b \in Anc[tip'] THEN "notify" ELSE "activate", b)
        /\ UNCHANGED <<headers, have, conflict, sporkOn, lockVars, seen, most, upsets>>

\* ... ActivateBestChain runs, and listeners are told once.
EnforceNotify ==
    /\ pc["sched"] = "notify"
    /\ lastNotify' = IF arg["sched"] \in Anc[tip] THEN arg["sched"] ELSE lastNotify
    /\ Goto("sched", "sign", Null)
    /\ UNCHANGED <<chainVars, sporkOn, isEnforced, best, known, lastSigned, seen, most, upsets>>

\* TrySignChainTip: read the tip under cs_main, ...
TrySignTip ==
    /\ pc["sched"] = "sign"
    /\ IF tip = Genesis \/ "sigs" \notin Threads THEN Goto("sched", "idle", Null)
       ELSE Goto("sched", "check", tip)
    /\ UNCHANGED <<chainVars, sporkOn, lockVars, seen, most, upsets>>

\* ... check under cs that it may be signed; when some transaction is neither
\* locked nor old enough, give up, ...
TrySignCheck ==
    LET b == arg["sched"] IN
    /\ pc["sched"] = "check"
    /\ \/ /\ isEnforced /\ Height[b] # Level(lastSigned)
          /\ Level(best) < Height[b] /\ ~HasConflictingChainLock(b)
          /\ Goto("sched", "recheck", b)
       \/ Goto("sched", "idle", Null)
    /\ UNCHANGED <<chainVars, sporkOn, lockVars, seen, most, upsets>>

\* Mutant: the best ChainLock is not looked at again.
M_TrySignNoRecheck ==
    LET b == arg["sched"] IN
    /\ pc["sched"] = "recheck"
    /\ lastSigned' = b
    /\ Goto("sched", "idle", Null)
    /\ UNCHANGED <<chainVars, sporkOn, isEnforced, best, known, lastNotify, seen, most, upsets>>

\* ... and check again, since cs was not held.  AsyncSignIfMember follows.
TrySignRecheck ==
    LET b == arg["sched"] IN
    /\ pc["sched"] = "recheck"
    /\ lastSigned' = IF Level(best) >= Height[b] THEN lastSigned ELSE b
    /\ Goto("sched", "idle", Null)
    /\ UNCHANGED <<chainVars, sporkOn, isEnforced, best, known, lastNotify, seen, most, upsets>>

-----------------------------------------------------------------------------
(* The environment. *)
ToggleSpork ==
    /\ upsets < MaxUpsets
    /\ upsets' = upsets + 1
    /\ sporkOn' = ~sporkOn
    /\ UNCHANGED <<chainVars, lockVars, seen, pc, arg, most>>

\* Nothing of CChainLocksHandler is on disk; the block index is.
Restart ==
    /\ upsets < MaxUpsets
    /\ upsets' = upsets + 1
    /\ isEnforced' = FALSE /\ seen' = {}
    /\ best' = Null /\ known' = Null /\ lastNotify' = Null /\ lastSigned' = Null
    /\ pc' = [t \in AllThreads |-> "idle"] /\ arg' = [t \in AllThreads |-> Null]
    /\ most' = Null
    /\ UNCHANGED <<chainVars, sporkOn>>

\* Cleanup drops what was seen more than CLEANUP_SEEN_TIMEOUT ago.
CleanupSeen(b) ==
    /\ b \in seen /\ pc["sched"] = "sign"
    /\ seen' = seen \ {b}
    /\ UNCHANGED <<chainVars, sporkOn, lockVars, pc, arg, most, upsets>>

ThreadStep(t) ==
    \/ ProcessNewChainLockSeen(t)
    \/ ProcessNewChainLockVerify(t)
    \/ ProcessNewChainLockAccept(t)
    \/ ActivateBestChain(t)

SchedStep ==
    \/ CheckActiveState \/ EnforceSnapshot \/ EnforceInvalidate \/ EnforceNotify
    \/ TrySignTip \/ TrySignCheck \/ TrySignRecheck

Next ==
    \/ \E b \in Blocks : \/ ProcessMessage(b) \/ HandleNewRecoveredSig(b)
                         \/ AcceptBlockHeader(b) \/ ProcessNewBlock(b) \/ CleanupSeen(b)
    \/ \E t \in AllThreads : ThreadStep(t)
    \/ SchedStep
    \/ ToggleSpork \/ Restart

Spec == Init /\ [][Next]_vars

\* No thread is starved: the scheduler's task recurs every five seconds.
Fairness == WF_vars(SchedStep) /\ \A t \in AllThreads : WF_vars(ThreadStep(t))

FairSpec == Spec /\ Fairness

-----------------------------------------------------------------------------
(***************************************************************************)
(* Properties.                                                             *)
(***************************************************************************)
\* Every variable holds values of its type, the active chain consists of
\* blocks we have, and an enforceable ChainLock of a block whose header we know.
TypeOK ==
    /\ headers \subseteq Blocks /\ have \subseteq headers
    /\ failed \subseteq headers /\ conflict \subseteq headers
    /\ tip \in have /\ Anc[tip] \subseteq have
    /\ sporkOn \in BOOLEAN /\ isEnforced \in BOOLEAN
    /\ seen \subseteq Locked
    /\ best \in Locked \cup {Null}
    /\ known \in (Locked \cap headers) \cup {Null}
    /\ lastNotify \in headers \cup {Null} /\ lastSigned \in headers \cup {Null}
    /\ pc \in [AllThreads -> {"idle", "seen", "verify", "accept", "activate", "connect",
                              "enforce", "invalidate", "notify", "sign", "check", "recheck"}]
    /\ arg \in [AllThreads -> Blocks \cup {Null}]
    /\ most \in Blocks \cup {Null}
    /\ upsets \in 0 .. MaxUpsets

\* While ChainLocks are enforced the block index they are enforced with never
\* runs ahead of the best ChainLock, whatever the two threads that accept
\* CLSIGs, late headers and the spork do.
KnownNotAboveBest == isEnforced => Level(known) <= Level(best)

\* A node never signs a block that an enforced ChainLock at its height or above
\* excludes, though the lock may arrive between its checks.
SignsNoConflict ==
    [][lastSigned' # lastSigned /\ lastSigned' # Null => ~HasConflictingChainLock(lastSigned')]_vars

\* "we don't allow him to reorg older chainlocks": while ChainLocks are enforced
\* the locked block is not exchanged for one of another branch at the same or a
\* lower height.
OlderLocksNotReorged ==
    [][isEnforced /\ known # Null /\ known' \notin {known, Null} =>
          Height[known'] > Height[known] \/ known' \in Anc[known]]_vars

Apart(a, b) == a \notin Anc[b] /\ b \notin Anc[a]

\* Once the active chain has left the branches that exclude the locked block, it
\* never connects a block of them again: not in a reorganisation that was under
\* way when the lock came in, and not for a longer chain.
NoReorgOfLock ==
    [][isEnforced /\ known # Null /\ known' = known /\ isEnforced' /\ ~Apart(tip, known)
          => ~Apart(tip', known)]_vars

\* A ChainLock that is enforced and whose blocks have arrived.
Enforceable == isEnforced /\ known # Null /\ Anc[known] \subseteq have

\* A ChainLock whose blocks are there, or the one that replaces it, becomes part
\* of the active chain, unless ChainLocks are switched off, the node restarts or
\* the replacement's blocks are missing.
Enforced == Enforceable ~> (~Enforceable \/ known \in Anc[tip])

\* "no need to process/relay older CLSIGs": the best ChainLock is only replaced
\* by a higher one.
BestNotReplacedByOlder == [][best' # best /\ best' # Null => Level(best') > Level(best)]_vars
=============================================================================
