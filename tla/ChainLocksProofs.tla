-------------------------- MODULE ChainLocksProofs --------------------------
(***************************************************************************)
(* Machine-checked proofs about ChainLocks, for every block tree, every    *)
(* set of signed blocks (conflicting ones included), and any number of     *)
(* restarts and spork changes.                                             *)
(***************************************************************************)
EXTENDS ChainLocks, BlockTreeProofs

-----------------------------------------------------------------------------
(* The block tree.                                                         *)

\* What lies on the same chain as a locked block stays so down the chain.
LEMMA NotApartBelow ==
    ASSUME NEW t \in Blocks, NEW k \in Blocks, ~Apart(t, k), NEW x \in Anc[t]
    PROVE  ~Apart(x, k)
<1>1. CASE t \in Anc[k]
  BY <1>1, Ancestry, Zenon DEF Apart
<1>2. CASE k \in Anc[t]
  <2>1. x \in Blocks /\ Height[x] \in Nat /\ Height[k] \in Nat
    BY TreeAssumption, Zenon
  <2>2. Height[x] <= Height[k] => x \in Anc[k]
    BY <1>2, Ancestry, Zenon
  <2>3. Height[k] <= Height[x] => k \in Anc[x]
    BY <1>2, Ancestry, Zenon
  <2> QED
    BY <2>1, <2>2, <2>3 DEF Apart
<1> QED
  BY <1>1, <1>2, Zenon DEF Apart

-----------------------------------------------------------------------------
(* Types.                                                                  *)

\* The block a thread works with is one it may work with at that place, the
\* chain it connects has all its data, and no header lacks its ancestors.
LocalsOK ==
    /\ \A t \in AllThreads : pc[t] \in {"seen", "verify", "accept"} => arg[t] \in Locked
    /\ pc["sched"] \in {"invalidate", "activate", "connect", "notify"} => arg["sched"] \in headers
    /\ pc["sched"] \in {"check", "recheck"} => arg["sched"] \in have
    /\ pc["sched"] \notin {"seen", "verify", "accept"}
    /\ most # Null => Anc[most] \subseteq have
    /\ \A b \in headers : Anc[b] \subseteq headers

TypeInv == TypeOK /\ LocalsOK

LEMMA TypeInit == Init => TypeInv
<1> SUFFICES ASSUME Init PROVE TypeInv
  BY Zenon
<1>1. /\ headers \subseteq Blocks /\ have \subseteq headers /\ failed \subseteq headers
      /\ conflict \subseteq headers /\ tip \in have /\ Anc[tip] \subseteq have
      /\ \A b \in headers : Anc[b] \subseteq headers
  BY TreeAssumption, NodeAssumption, Zenon DEF Init
<1>2. /\ pc \in [AllThreads -> {"idle"}] /\ arg \in [AllThreads -> {Null}]
      /\ \A t \in AllThreads : pc[t] = "idle"
      /\ pc["sched"] = "idle"
  BY Zenon DEF Init, AllThreads
<1>3. LocalsOK
  BY <1>1, <1>2, Zenon DEF Init, LocalsOK
<1>4. /\ pc \in [AllThreads -> {"idle", "seen", "verify", "accept", "activate", "connect",
                              "enforce", "invalidate", "notify", "sign", "check", "recheck"}]
      /\ arg \in [AllThreads -> Blocks \cup {Null}]
  BY <1>2, Zenon
<1>5. sporkOn \in BOOLEAN /\ isEnforced \in BOOLEAN
  BY Zenon DEF Init
<1>6. /\ seen \subseteq Locked /\ best \in Locked \cup {Null}
      /\ known \in (Locked \cap headers) \cup {Null}
      /\ lastNotify \in headers \cup {Null} /\ lastSigned \in headers \cup {Null}
      /\ most \in Blocks \cup {Null}
      /\ upsets \in 0 .. MaxUpsets
  BY TreeAssumption, NodeAssumption DEF Init
<1> QED
  BY <1>1, <1>3, <1>4, <1>5, <1>6, Zenon DEF TypeInv, TypeOK

\* ActivateBestChainStep ends on a block of m's chain or of the active chain.
LEMMA ConnectStep ==
    ASSUME TypeInv, NEW t \in AllThreads, NEW m \in Blocks, NEW flags, ConnectTowards(t, m, flags)
    PROVE  \/ \E b \in Anc[m] \ Anc[tip] :
                 /\ HasConflictingChainLock(b)
                 /\ \A x \in Anc[b] \ Anc[tip] : x # b => ~HasConflictingChainLock(x)
                 /\ b # Genesis /\ tip' = Parent[b] /\ failed' = flags \cup {b}
                 /\ most' = Null /\ Goto(t, "connect", arg[t])
           \/ /\ tip' \in Anc[m] /\ failed' = flags
              /\ \A b \in Anc[tip'] \ Anc[tip] : ~HasConflictingChainLock(b)
              /\ AfterActivate(t) \/ (most' = m /\ Goto(t, "connect", arg[t]))
<1> DEFINE h == IF Height[m] > Height[tip] THEN Height[tip] + 1 ELSE Height[m]
           stop == CHOOSE b \in Anc[m] : Height[b] = h
           bad == {b \in Anc[stop] \ Anc[tip] : HasConflictingChainLock(b)}
           first == CHOOSE b \in bad : \A x \in bad : Height[b] <= Height[x]
<1>1. h \in 0 .. Height[m]
  BY TreeAssumption DEF TypeInv, TypeOK
<1>2. stop \in Anc[m]
  BY <1>1, Ancestry
<1>3. Anc[stop] \subseteq Anc[m] /\ stop \in Blocks
  BY <1>2, Ancestry, TreeAssumption, Zenon
<1>4. bad \in SUBSET Blocks
  BY <1>3, TreeAssumption, Zenon
<1>5. CASE bad # {}
  <2>1. first \in bad /\ \A x \in bad : Height[first] <= Height[x]
    <3> HIDE DEF bad
    <3> QED
      BY <1>4, <1>5, Lowest, Zenon
  <2>2. /\ tip' = Parent[first] /\ failed' = flags \cup {first}
        /\ most' = Null /\ Goto(t, "connect", arg[t])
    BY <1>5, Zenon DEF ConnectTowards
  <2>3. first \in Anc[m] \ Anc[tip] /\ HasConflictingChainLock(first) /\ first \in Anc[stop]
    BY <2>1, <1>3, Zenon
  <2>4. first # Genesis
    BY <2>3, AncSelf, ZenonT(30) DEF TypeInv, TypeOK
  <2>5. ASSUME NEW x \in Anc[first] \ Anc[tip], x # first, HasConflictingChainLock(x)
        PROVE  FALSE
    <3>1. x \in Anc[stop] /\ first \in Blocks /\ x \in Blocks
      BY <1>3, <2>3, Ancestry, TreeAssumption
    <3>2. x \in bad
      BY <2>5, <3>1, Zenon
    <3>3. Height[first] <= Height[x] /\ Height[first] \in Nat /\ Height[x] \in Nat
      BY <2>1, <3>1, <3>2, TreeAssumption, Zenon
    <3>4. first \in Anc[x]
      BY <2>3, <1>3, <3>1, <3>3, Ancestry, Zenon
    <3>5. x \in Anc[Parent[first]] /\ Parent[first] \in Blocks
      <4> HIDE DEF first
      <4> QED
        BY <2>4, <2>5, <3>1, TreeAssumption
    <3>6. first \in Anc[Parent[first]]
      BY <3>4, <3>5, Ancestry, Zenon
    <3> HIDE DEF first
    <3> QED
      BY <2>4, <2>5, <3>1, <3>6, AboveParent, Zenon
  <2> HIDE DEF first, bad, stop
  <2> QED
    BY <2>2, <2>3, <2>4, <2>5, Zenon
<1>6. CASE bad = {}
  <2>1. tip' = stop /\ failed' = flags /\ (AfterActivate(t) \/ (most' = m /\ Goto(t, "connect", arg[t])))
    BY <1>6, Zenon DEF ConnectTowards
  <2>2. \A b \in Anc[stop] \ Anc[tip] : ~HasConflictingChainLock(b)
    BY <1>6, Zenon
  <2> HIDE DEF bad, stop
  <2> QED
    BY <1>2, <2>1, <2>2, Zenon
<1> QED
  BY <1>5, <1>6, Zenon

\* The parent of a block of a chain is on the chain.
LEMMA ParentOnChain ==
    ASSUME NEW m \in Blocks, NEW b \in Anc[m], b # Genesis
    PROVE  Parent[b] \in Anc[m] /\ Parent[b] \in Blocks
<1>1. b \in Blocks /\ Parent[b] \in Blocks /\ Anc[b] \subseteq Anc[m]
  BY TreeAssumption, Ancestry, Zenon
<1> QED
  BY <1>1, AncSelf, TreeAssumption

\* Where the active chain goes in a step of ActivateBestChain.
LEMMA ActivateType ==
    ASSUME TypeInv, NEW t \in AllThreads, ActivateBestChain(t)
    PROVE  /\ tip' \in have /\ Anc[tip'] \subseteq have /\ failed' \subseteq headers
           /\ most' \in Blocks \cup {Null} /\ (most' # Null => Anc[most'] \subseteq have)
           /\ \/ Goto(t, "connect", arg[t])
              \/ t = "sched" /\ Goto(t, "notify", arg[t])
              \/ t # "sched" /\ Goto(t, "idle", Null)
<1> DEFINE Concl ==
           /\ tip' \in have /\ Anc[tip'] \subseteq have /\ failed' \subseteq headers
           /\ most' \in Blocks \cup {Null} /\ (most' # Null => Anc[most'] \subseteq have)
           /\ \/ Goto(t, "connect", arg[t])
              \/ t = "sched" /\ Goto(t, "notify", arg[t])
              \/ t # "sched" /\ Goto(t, "idle", Null)
<1>1. ASSUME AfterActivate(t)
      PROVE  /\ most' = Null
             /\ \/ t = "sched" /\ Goto(t, "notify", arg[t])
                \/ t # "sched" /\ Goto(t, "idle", Null)
  BY <1>1, Zenon DEF AfterActivate
<1>2. ASSUME NEW m \in Blocks, Anc[m] \subseteq have, NEW flags \in SUBSET headers,
             ConnectTowards(t, m, flags)
      PROVE  Concl
  <2>1. CASE \E b \in Anc[m] \ Anc[tip] :
                 /\ b # Genesis /\ tip' = Parent[b] /\ failed' = flags \cup {b}
                 /\ most' = Null /\ Goto(t, "connect", arg[t])
    <3>1. PICK b \in Anc[m] \ Anc[tip] :
                 /\ b # Genesis /\ tip' = Parent[b] /\ failed' = flags \cup {b}
                 /\ most' = Null /\ Goto(t, "connect", arg[t])
      BY <2>1, Zenon
    <3>2. tip' \in Anc[m] /\ tip' \in Blocks
      BY <3>1, ParentOnChain, Zenon
    <3>3. Anc[tip'] \subseteq Anc[m]
      BY <3>2, Ancestry, Zenon
    <3> QED
      BY <1>2, <3>1, <3>2, <3>3, Zenon DEF TypeInv, TypeOK
  <2>2. CASE /\ tip' \in Anc[m] /\ failed' = flags
             /\ AfterActivate(t) \/ (most' = m /\ Goto(t, "connect", arg[t]))
    <3>1. Anc[tip'] \subseteq Anc[m]
      BY <2>2, Ancestry, Zenon
    <3> QED
      BY <1>1, <1>2, <2>2, <3>1, Zenon
  <2> QED
    BY <1>2, <2>1, <2>2, ConnectStep, Zenon
<1>3. CASE most # Null /\ pc[t] = "connect"
  <2>1. most \in Blocks /\ Anc[most] \subseteq have /\ failed \subseteq headers
    BY <1>3, Zenon DEF TypeInv, TypeOK, LocalsOK
  <2>2. CASE AfterActivate(t) /\ UNCHANGED <<tip, failed>>
    BY <1>1, <2>2, Zenon DEF TypeInv, TypeOK
  <2> QED
    BY <1>2, <1>3, <2>1, <2>2, Zenon DEF ActivateBestChain
<1>4. CASE ~(most # Null /\ pc[t] = "connect")
  <2>1. PICK m \in MostWork :
           IF m = tip THEN failed' = FailedAfter(m) /\ AfterActivate(t) /\ UNCHANGED tip
                      ELSE ConnectTowards(t, m, FailedAfter(m))
    BY <1>4, Zenon DEF ActivateBestChain
  <2>2. m \in Blocks /\ Anc[m] \subseteq have
    BY Zenon DEF MostWork, Usable, TypeInv, TypeOK
  <2>3. FailedAfter(m) \subseteq headers
    BY Zenon DEF FailedAfter, TypeInv, TypeOK
  <2>4. CASE m = tip
    BY <1>1, <2>1, <2>3, <2>4, Zenon DEF TypeInv, TypeOK
  <2> QED
    BY <1>2, <2>1, <2>2, <2>3, <2>4, Zenon
<1> QED
  BY <1>3, <1>4, Zenon

LEMMA TypeNext == TypeInv /\ [Next]_vars => TypeInv'
<1> SUFFICES ASSUME TypeInv, [Next]_vars PROVE TypeInv'
  BY Zenon
<1> USE DEF chainVars, lockVars
<1>1. ASSUME NEW b \in Blocks, ProcessMessage(b) PROVE TypeInv'
  BY <1>1 DEF ProcessMessage, TypeInv, TypeOK, LocalsOK, Goto, AllThreads
<1>2. ASSUME NEW b \in Blocks, HandleNewRecoveredSig(b) PROVE TypeInv'
  BY <1>2 DEF HandleNewRecoveredSig, TypeInv, TypeOK, LocalsOK, Goto, AllThreads
<1>3. ASSUME NEW b \in Blocks, AcceptBlockHeader(b) PROVE TypeInv'
  <2>1. b # Genesis /\ Parent[b] \in headers /\ Anc[b] = Anc[Parent[b]] \cup {b}
    BY <1>3, TreeAssumption, Zenon DEF AcceptBlockHeader
  <2>2. Anc[Parent[b]] \subseteq headers
    BY <2>1, Zenon DEF TypeInv, LocalsOK
  <2>3. /\ headers \subseteq headers' /\ headers' \subseteq Blocks
        /\ failed' \subseteq headers' /\ conflict' \subseteq headers'
        /\ \A x \in headers' : Anc[x] \subseteq headers'
    BY <1>3, <2>1, <2>2 DEF AcceptBlockHeader, TypeInv, TypeOK, LocalsOK
  <2>4. known' \in (Locked \cap headers') \cup {Null}
    BY <1>3, <2>3, TreeAssumption DEF AcceptBlockHeader, TypeInv, TypeOK
  <2>5. UNCHANGED <<have, tip, sporkOn, isEnforced, best, lastNotify, lastSigned, seen, pc, arg,
                    most, upsets>>
    BY <1>3, Zenon DEF AcceptBlockHeader
  <2> QED
    BY <2>3, <2>4, <2>5 DEF TypeInv, TypeOK, LocalsOK
<1>4. ASSUME NEW b \in Blocks, ProcessNewBlock(b) PROVE TypeInv'
  BY <1>4 DEF ProcessNewBlock, TypeInv, TypeOK, LocalsOK, Goto, AllThreads
<1>5. ASSUME NEW b \in Blocks, CleanupSeen(b) PROVE TypeInv'
  BY <1>5 DEF CleanupSeen, TypeInv, TypeOK, LocalsOK
<1>6. ASSUME NEW t \in AllThreads, ProcessNewChainLockSeen(t) PROVE TypeInv'
  BY <1>6 DEF ProcessNewChainLockSeen, TypeInv, TypeOK, LocalsOK, Goto, AllThreads
<1>7. ASSUME NEW t \in AllThreads, ProcessNewChainLockVerify(t) PROVE TypeInv'
  BY <1>7 DEF ProcessNewChainLockVerify, TypeInv, TypeOK, LocalsOK, Goto, AllThreads
<1>8. ASSUME NEW t \in AllThreads, ProcessNewChainLockAccept(t) PROVE TypeInv'
  BY <1>8 DEF ProcessNewChainLockAccept, TypeInv, TypeOK, LocalsOK, Goto, AllThreads
<1>9. ASSUME NEW t \in AllThreads, ActivateBestChain(t) PROVE TypeInv'
  <2>1. /\ tip' \in have /\ Anc[tip'] \subseteq have /\ failed' \subseteq headers
        /\ most' \in Blocks \cup {Null} /\ (most' # Null => Anc[most'] \subseteq have)
        /\ \/ Goto(t, "connect", arg[t])
           \/ t = "sched" /\ Goto(t, "notify", arg[t])
           \/ t # "sched" /\ Goto(t, "idle", Null)
    BY <1>9, ActivateType, Zenon
  <2>2. UNCHANGED <<headers, have, conflict, sporkOn, lockVars, seen, upsets>>
    BY <1>9, Zenon DEF ActivateBestChain
  <2>3. pc[t] \in {"activate", "connect"}
    BY <1>9, Zenon DEF ActivateBestChain
  <2> QED
    BY <2>1, <2>2, <2>3 DEF TypeInv, TypeOK, LocalsOK, Goto, AllThreads
<1>10. ASSUME CheckActiveState PROVE TypeInv'
  BY <1>10, Zenon DEF CheckActiveState, TypeInv, TypeOK, LocalsOK, Goto, AllThreads
<1>11. ASSUME EnforceSnapshot PROVE TypeInv'
  BY <1>11, TreeAssumption DEF EnforceSnapshot, TypeInv, TypeOK, LocalsOK, Goto, AllThreads
<1>12. ASSUME EnforceInvalidate PROVE TypeInv'
  <2> DEFINE b == arg["sched"]
  <2>1. b \in headers /\ b \in Blocks /\ tip \in Blocks /\ pc["sched"] = "invalidate"
    BY <1>12, Zenon DEF EnforceInvalidate, TypeInv, TypeOK, LocalsOK
  <2>2. tip' \in Anc[tip]
    BY <1>12, <2>1, ForkExists, AncSelf, Zenon DEF EnforceInvalidate
  <2>3. tip' \in have /\ Anc[tip'] \subseteq have
    BY <2>1, <2>2, Ancestry, Zenon DEF TypeInv, TypeOK
  <2>4. failed' \subseteq headers
    BY <1>12, Zenon DEF EnforceInvalidate, TypeInv, TypeOK
  <2>5. /\ UNCHANGED <<headers, have, conflict, sporkOn, lockVars, seen, most, upsets>>
        /\ Goto("sched", "notify", b) \/ Goto("sched", "activate", b)
    BY <1>12, Zenon DEF EnforceInvalidate
  <2> QED
    BY <2>1, <2>3, <2>4, <2>5 DEF TypeInv, TypeOK, LocalsOK, Goto, AllThreads
<1>13. ASSUME EnforceNotify PROVE TypeInv'
  BY <1>13 DEF EnforceNotify, TypeInv, TypeOK, LocalsOK, Goto, AllThreads
<1>14. ASSUME TrySignTip PROVE TypeInv'
  BY <1>14 DEF TrySignTip, TypeInv, TypeOK, LocalsOK, Goto, AllThreads
<1>15. ASSUME TrySignCheck PROVE TypeInv'
  BY <1>15 DEF TrySignCheck, TypeInv, TypeOK, LocalsOK, Goto, AllThreads
<1>16. ASSUME TrySignRecheck PROVE TypeInv'
  BY <1>16 DEF TrySignRecheck, TypeInv, TypeOK, LocalsOK, Goto, AllThreads
<1>17. ASSUME ToggleSpork PROVE TypeInv'
  BY <1>17, TreeAssumption, NodeAssumption DEF ToggleSpork, TypeInv, TypeOK, LocalsOK
<1>18. ASSUME Restart PROVE TypeInv'
  <2>1. /\ pc' \in [AllThreads -> {"idle", "seen", "verify", "accept", "activate", "connect",
                              "enforce", "invalidate", "notify", "sign", "check", "recheck"}]
        /\ arg' \in [AllThreads -> Blocks \cup {Null}]
        /\ \A t \in AllThreads : pc'[t] = "idle"
        /\ pc'["sched"] = "idle"
    BY <1>18, Zenon DEF Restart, AllThreads
  <2>2. isEnforced' \in BOOLEAN /\ seen' \subseteq Locked
    BY <1>18, Zenon DEF Restart
  <2>3. /\ best' \in Locked \cup {Null} /\ known' \in (Locked \cap headers) \cup {Null}
        /\ lastNotify' \in headers \cup {Null} /\ lastSigned' \in headers \cup {Null}
        /\ most' = Null /\ upsets' \in 0 .. MaxUpsets
        /\ UNCHANGED <<chainVars, sporkOn>>
    BY <1>18, TreeAssumption, NodeAssumption DEF Restart, TypeInv, TypeOK
  <2>4. LocalsOK'
    BY <2>1, <2>3, Zenon DEF TypeInv, LocalsOK
  <2> QED
    BY <2>1, <2>2, <2>3, <2>4, Zenon DEF TypeInv, TypeOK
<1>19. CASE UNCHANGED vars
  BY <1>19 DEF vars, TypeInv, TypeOK, LocalsOK
<1> QED
  BY <1>1, <1>2, <1>3, <1>4, <1>5, <1>6, <1>7, <1>8, <1>9, <1>10, <1>11, <1>12, <1>13, <1>14,
     <1>15, <1>16, <1>17, <1>18, <1>19 DEF Next, ThreadStep, SchedStep

LEMMA TypeAlways == Spec => []TypeInv
  BY TypeInit, TypeNext, PTL DEF Spec

\* Every reachable state is well typed.
THEOREM TypeCorrect == Spec => []TypeOK
<1>1. TypeInv => TypeOK
  BY Zenon DEF TypeInv
<1> QED
  BY <1>1, TypeAlways, PTL

-----------------------------------------------------------------------------
(* The best ChainLock.                                                     *)

\* Which steps change the ChainLock, and how.
LEMMA LockSteps ==
    ASSUME TypeInv, [Next]_vars
    PROVE  \/ UNCHANGED <<best, known>> /\ (isEnforced' => isEnforced)
           \/ best' = Null /\ known' = Null
           \/ UNCHANGED <<isEnforced, best>>
              /\ \E b \in Locked : b = best /\ known' = b /\ ~HasConflictingChainLock(b)
           \/ UNCHANGED isEnforced
              /\ \E b \in Locked :
                    /\ ~HasConflictingChainLock(b) /\ best' = b
                    /\ known' = IF b \in headers THEN b ELSE known
<1> USE DEF chainVars, lockVars
<1>1. ASSUME NEW b \in Blocks, AcceptBlockHeader(b), known' # known
      PROVE  /\ UNCHANGED <<isEnforced, best>>
             /\ b \in Locked /\ b = best /\ known' = b /\ ~HasConflictingChainLock(b)
  BY <1>1, TreeAssumption, NodeAssumption DEF AcceptBlockHeader, TypeInv, TypeOK
<1>2. ASSUME NEW t \in AllThreads, ProcessNewChainLockAccept(t), ~UNCHANGED <<best, known>>
      PROVE  /\ UNCHANGED isEnforced
             /\ arg[t] \in Locked /\ ~HasConflictingChainLock(arg[t]) /\ best' = arg[t]
             /\ known' = IF arg[t] \in headers THEN arg[t] ELSE known
  BY <1>2, Zenon DEF ProcessNewChainLockAccept, TypeInv, LocalsOK
<1>3. CASE UNCHANGED <<best, known, isEnforced>>
  BY <1>3, Zenon
<1>4. CASE CheckActiveState
  BY <1>4, Zenon DEF CheckActiveState, TypeInv, TypeOK
<1>5. CASE Restart
  BY <1>5, Zenon DEF Restart
<1>6. \/ UNCHANGED <<best, known, isEnforced>>
      \/ CheckActiveState \/ Restart
      \/ \E b \in Blocks : AcceptBlockHeader(b) /\ known' # known
      \/ \E t \in AllThreads : ProcessNewChainLockAccept(t) /\ ~UNCHANGED <<best, known>>
  <2>1. ASSUME NEW b \in Blocks, AcceptBlockHeader(b) PROVE UNCHANGED <<best, isEnforced>>
    BY <2>1, Zenon DEF AcceptBlockHeader
  <2>2. ASSUME NEW t \in AllThreads, ProcessNewChainLockAccept(t) PROVE UNCHANGED isEnforced
    BY <2>2, Zenon DEF ProcessNewChainLockAccept
  <2>3. ASSUME NEW t \in AllThreads,
               ProcessNewChainLockSeen(t) \/ ProcessNewChainLockVerify(t) \/ ActivateBestChain(t)
        PROVE  UNCHANGED <<best, known, isEnforced>>
    BY <2>3, Zenon DEF ProcessNewChainLockSeen, ProcessNewChainLockVerify, ActivateBestChain
  <2>4. ASSUME NEW b \in Blocks, \/ ProcessMessage(b) \/ HandleNewRecoveredSig(b)
                                 \/ ProcessNewBlock(b) \/ CleanupSeen(b)
        PROVE  UNCHANGED <<best, known, isEnforced>>
    BY <2>4, Zenon DEF ProcessMessage, HandleNewRecoveredSig, ProcessNewBlock, CleanupSeen
  <2>5. ASSUME \/ EnforceSnapshot \/ EnforceInvalidate \/ EnforceNotify \/ TrySignTip
               \/ TrySignCheck \/ TrySignRecheck \/ ToggleSpork \/ UNCHANGED vars
        PROVE  UNCHANGED <<best, known, isEnforced>>
    BY <2>5, Zenon DEF EnforceSnapshot, EnforceInvalidate, EnforceNotify, TrySignTip, TrySignCheck,
       TrySignRecheck, ToggleSpork, vars
  <2> QED
    BY <2>1, <2>2, <2>3, <2>4, <2>5, Zenon DEF Next, ThreadStep, SchedStep
<1> QED
  BY <1>1, <1>2, <1>3, <1>4, <1>5, <1>6, Zenon

\* A CLSIG that is accepted before its header cannot lie below the block that is
\* enforced: as an ancestor its header would be known.
LEMMA KnownNext == TypeInv /\ KnownNotAboveBest /\ [Next]_vars => KnownNotAboveBest'
<1> SUFFICES ASSUME TypeInv, KnownNotAboveBest, [Next]_vars, isEnforced'
             PROVE  Level(known') <= Level(best')
  BY Zenon DEF KnownNotAboveBest, Level
<1>1. CASE UNCHANGED <<best, known>> /\ isEnforced
  BY <1>1, Zenon DEF KnownNotAboveBest, Level
<1>2. CASE best' = Null /\ known' = Null
  BY <1>2 DEF Level
<1>3. CASE UNCHANGED best /\ \E b \in Locked : b = best /\ known' = b
  BY <1>3, TreeAssumption, NodeAssumption DEF Level
<1>4. ASSUME isEnforced, NEW b \in Locked, ~HasConflictingChainLock(b), best' = b,
             known' = IF b \in headers THEN b ELSE known
      PROVE  Level(known') <= Level(best')
  <2>1. b \in Blocks /\ b # Null /\ Height[b] \in Nat
    BY TreeAssumption, NodeAssumption, Zenon
  <2>2. CASE b \in headers \/ known = Null
    BY <1>4, <2>1, <2>2 DEF Level
  <2>3. CASE b \notin headers /\ known # Null
    <3>1. known \in headers /\ known \in Blocks /\ Height[known] \in Nat
      BY <2>3, TreeAssumption, Zenon DEF TypeInv, TypeOK
    <3>2. b \notin Anc[known]
      BY <2>3, <3>1, Zenon DEF TypeInv, LocalsOK
    <3>3. Height[b] > Height[known]
      BY <1>4, <2>1, <2>3, <3>1, <3>2 DEF HasConflictingChainLock
    <3> QED
      BY <1>4, <2>1, <2>3, <3>1, <3>3 DEF Level
  <2> QED
    BY <2>2, <2>3, Zenon
<1> QED
  BY <1>1, <1>2, <1>3, <1>4, LockSteps, Zenon

\* What is enforced never runs ahead of the best ChainLock.
THEOREM KnownStaysBelow == Spec => []KnownNotAboveBest
<1>1. Init => KnownNotAboveBest
  BY Zenon DEF Init, KnownNotAboveBest
<1> QED
  BY <1>1, TypeInit, TypeNext, KnownNext, PTL DEF Spec

\* TrySignChainTip's second check looks at the best ChainLock only, which is
\* enough because no enforced block lies above it.
THEOREM SignsWithoutConflict == Spec => SignsNoConflict
<1>1. TypeInv /\ KnownNotAboveBest /\ [Next]_vars =>
         [lastSigned' # lastSigned /\ lastSigned' # Null =>
             ~HasConflictingChainLock(lastSigned')]_vars
  <2> SUFFICES ASSUME TypeInv, KnownNotAboveBest, [Next]_vars,
                      lastSigned' # lastSigned, lastSigned' # Null
               PROVE  ~HasConflictingChainLock(lastSigned')
    BY Zenon
  <2>1. TrySignRecheck
    BY Zenon DEF Next, ThreadStep, SchedStep, vars, chainVars, lockVars, ProcessMessage,
       HandleNewRecoveredSig, AcceptBlockHeader, ProcessNewBlock, CleanupSeen,
       ProcessNewChainLockSeen, ProcessNewChainLockVerify, ProcessNewChainLockAccept,
       ActivateBestChain, CheckActiveState, EnforceSnapshot, EnforceInvalidate, EnforceNotify,
       TrySignTip, TrySignCheck, ToggleSpork, Restart
  <2>2. lastSigned' \in Blocks /\ Level(best) < Height[lastSigned']
    BY <2>1, TreeAssumption, NodeAssumption DEF TrySignRecheck, TypeInv, TypeOK, LocalsOK, Level
  <2>3. ASSUME isEnforced, known # Null PROVE Height[known] < Height[lastSigned']
    BY <2>2, <2>3, TreeAssumption, NodeAssumption DEF KnownNotAboveBest, Level, TypeInv, TypeOK
  <2> QED
    BY <2>2, <2>3, TreeAssumption DEF HasConflictingChainLock, TypeInv, TypeOK
<1> QED
  BY <1>1, TypeAlways, KnownStaysBelow, PTL DEF Spec, SignsNoConflict

\* No CLSIG and no late header replaces an enforced ChainLock by one of another
\* branch that is not higher.
THEOREM OlderLocksStay == Spec => OlderLocksNotReorged
<1>1. TypeInv /\ [Next]_vars =>
         [isEnforced /\ known # Null /\ known' \notin {known, Null} =>
             Height[known'] > Height[known] \/ known' \in Anc[known]]_vars
  <2> SUFFICES ASSUME TypeInv, [Next]_vars, isEnforced, known # Null, known' \notin {known, Null}
               PROVE  Height[known'] > Height[known] \/ known' \in Anc[known]
    BY Zenon
  <2>1. \E b \in Locked : known' = b /\ ~HasConflictingChainLock(b)
    BY LockSteps, Zenon
  <2> QED
    BY <2>1, TreeAssumption, NodeAssumption DEF HasConflictingChainLock, TypeInv, TypeOK
<1> QED
  BY <1>1, TypeAlways, PTL DEF Spec, OlderLocksNotReorged

-----------------------------------------------------------------------------
(* The active chain.                                                       *)

\* A chain whose new blocks do not conflict stays on the locked block's side.
LEMMA NotApartAbove ==
    ASSUME TypeInv, isEnforced, known # Null, ~Apart(tip, known),
           NEW b \in Blocks, \A x \in Anc[b] \ Anc[tip] : ~HasConflictingChainLock(x)
    PROVE  ~Apart(b, known)
<1>1. known \in Blocks /\ tip \in Blocks /\ Height[b] \in Nat /\ Height[known] \in Nat
  BY TreeAssumption, Zenon DEF TypeInv, TypeOK
<1>2. \A x \in Anc[b] \ Anc[tip] : Height[x] <= Height[known] => x \in Anc[known]
  BY Zenon DEF HasConflictingChainLock
<1>3. CASE b \in Anc[tip]
  BY <1>1, <1>3, NotApartBelow, Zenon
<1>4. CASE b \notin Anc[tip] /\ Height[b] <= Height[known]
  BY <1>2, <1>4, AncSelf, Zenon DEF Apart
<1>5. CASE b \notin Anc[tip] /\ Height[b] > Height[known]
  <2>1. PICK x \in Anc[b] : Height[x] = Height[known]
    BY <1>1, <1>5, Ancestry
  <2>2. x \in Blocks /\ known \in Anc[known]
    BY <1>1, <2>1, AncSelf, Zenon
  <2>3. CASE x \notin Anc[tip]
    <3>1. x \in Anc[known]
      BY <1>1, <1>2, <2>1, <2>3
    <3> QED
      BY <1>1, <2>1, <2>2, <3>1, SameHeightSame, Zenon DEF Apart
  <2>4. CASE x \in Anc[tip]
    <3>1. CASE known \in Anc[tip]
      BY <1>1, <2>1, <2>4, <3>1, SameHeightSame, Zenon DEF Apart
    <3>2. CASE tip \in Anc[known]
      <4>1. x \in Anc[known]
        BY <1>1, <2>4, <3>2, Ancestry, Zenon
      <4> QED
        BY <1>1, <2>1, <2>2, <4>1, SameHeightSame, Zenon DEF Apart
    <3> QED
      BY <3>1, <3>2, Zenon DEF Apart
  <2> QED
    BY <2>3, <2>4, Zenon
<1> QED
  BY <1>1, <1>3, <1>4, <1>5

\* The active chain never connects a block that the enforced ChainLock excludes.
THEOREM LockedChainStays == Spec => NoReorgOfLock
<1>1. TypeInv /\ [Next]_vars =>
         [isEnforced /\ known # Null /\ known' = known /\ isEnforced' /\ ~Apart(tip, known)
             => ~Apart(tip', known)]_vars
  <2> SUFFICES ASSUME TypeInv, [Next]_vars, isEnforced, known # Null, ~Apart(tip, known)
               PROVE  ~Apart(tip', known)
    BY Zenon
  <2>1. known \in Blocks /\ tip \in Blocks
    BY TreeAssumption, Zenon DEF TypeInv, TypeOK
  <2>2. ASSUME NEW t \in AllThreads, NEW m \in Blocks, NEW flags, ConnectTowards(t, m, flags)
        PROVE  ~Apart(tip', known)
    <3>1. CASE \E b \in Anc[m] \ Anc[tip] :
                 /\ \A x \in Anc[b] \ Anc[tip] : x # b => ~HasConflictingChainLock(x)
                 /\ b # Genesis /\ tip' = Parent[b]
      <4>1. PICK b \in Anc[m] \ Anc[tip] :
                 /\ \A x \in Anc[b] \ Anc[tip] : x # b => ~HasConflictingChainLock(x)
                 /\ b # Genesis /\ tip' = Parent[b]
        BY <3>1, Zenon
      <4>2. b \in Blocks /\ Parent[b] \in Blocks /\ b \notin Anc[Parent[b]]
            /\ Anc[Parent[b]] \subseteq Anc[b]
        BY <4>1, AboveParent, TreeAssumption
      <4>3. \A x \in Anc[tip'] \ Anc[tip] : ~HasConflictingChainLock(x)
        BY <4>1, <4>2, Zenon
      <4> QED
        BY <4>1, <4>2, <4>3, NotApartAbove, Zenon
    <3>2. CASE /\ tip' \in Anc[m]
               /\ \A b \in Anc[tip'] \ Anc[tip] : ~HasConflictingChainLock(b)
      BY <3>2, NotApartAbove, AncSelf, Zenon
    <3> QED
      BY <2>2, <3>1, <3>2, ConnectStep, Zenon
  <2>3. ASSUME NEW t \in AllThreads, ActivateBestChain(t) PROVE ~Apart(tip', known)
    <3>1. CASE tip' = tip
      BY <3>1, Zenon
    <3>2. CASE tip' # tip
      <4>1. PICK m, flags : ConnectTowards(t, m, flags) /\ m \in Blocks
        <5>1. \A m \in MostWork : m \in Blocks
          BY Zenon DEF MostWork, TypeInv, TypeOK
        <5> QED
          BY <2>3, <3>2, <5>1, Zenon DEF ActivateBestChain, TypeInv, TypeOK
      <4> QED
        BY <2>2, <4>1, Zenon
    <3> QED
      BY <3>1, <3>2, Zenon
  <2>4. ASSUME EnforceInvalidate PROVE ~Apart(tip', known)
    <3>1. arg["sched"] \in Blocks
      BY <2>4, Zenon DEF EnforceInvalidate, TypeInv, TypeOK, LocalsOK
    <3>2. tip' \in Anc[tip]
      BY <2>1, <2>4, <3>1, ForkExists, AncSelf, Zenon DEF EnforceInvalidate
    <3> QED
      BY <2>1, <3>2, NotApartBelow, Zenon
  <2>5. \/ tip' = tip \/ EnforceInvalidate
        \/ \E t \in AllThreads : ActivateBestChain(t)
    BY Zenon DEF Next, ThreadStep, SchedStep, vars, chainVars, lockVars, ProcessMessage,
       HandleNewRecoveredSig, AcceptBlockHeader, ProcessNewBlock, CleanupSeen,
       ProcessNewChainLockSeen, ProcessNewChainLockVerify, ProcessNewChainLockAccept,
       CheckActiveState, EnforceSnapshot, EnforceNotify,
       TrySignTip, TrySignCheck, TrySignRecheck, ToggleSpork, Restart
  <2> QED
    BY <2>3, <2>4, <2>5, Zenon
<1> QED
  BY <1>1, TypeAlways, PTL DEF Spec, NoReorgOfLock
=============================================================================
