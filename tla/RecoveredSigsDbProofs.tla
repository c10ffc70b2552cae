----------------------- MODULE RecoveredSigsDbProofs -----------------------
(***************************************************************************)
(* Machine-checked proofs about RecoveredSigsDb, for every number of ids   *)
(* and messages, every set of threads and every clock bound.               *)
(***************************************************************************)
EXTENDS RecoveredSigsDb, TLAPS

\* The places at which a thread is inside one of the Has... methods.
Asking == {"lookup", "exists", "insert", "answered"}

\* What the locals of a thread hold at each place: the strengthening that
\* makes the type invariant inductive.
ThreadsOK ==
    /\ \A r \in Roles : pc[r] \in Asking => key[r] \in Keys
    /\ \A r \in Roles : pc[r] \in {"insert", "answered"} => ans[r] \in {"yes", "no"}
    /\ "worker" \in Roles =>
          /\ pc["worker"] # "truncate"
          /\ pc["worker"] \in Asking \cup {"write", "fill"} =>
                /\ arg["worker"] \in RecSigs
                /\ key["worker"] \in {HashKey(arg["worker"]), IdKey(arg["worker"])}
    /\ "signer" \in Roles =>
          /\ pc["signer"] \in Asking \cup {"idle"}
          /\ pc["signer"] \in Asking =>
                /\ arg["signer"] \in Ids \X Msgs \X BOOLEAN
                /\ key["signer"] = <<"id", arg["signer"][1], NoMsg>>
    /\ "reader" \in Roles => pc["reader"] \in Asking \cup {"idle"}
    /\ "truncater" \in Roles =>
          /\ pc["truncater"] \in {"idle", "truncate"}
          /\ pc["truncater"] = "truncate" => arg["truncater"] \in RecSigs

TypeInv == TypeOK /\ ThreadsOK

LEMMA KeysOf ==
    ASSUME NEW rs \in RecSigs
    PROVE  /\ IdKey(rs) \in Keys /\ SessionKey(rs) \in Keys /\ HashKey(rs) \in Keys
           /\ IdKey(rs) # HashKey(rs)
  BY Zenon DEF RecSigs, IdKey, SessionKey, HashKey, Keys

LEMMA KeysInjective ==
    ASSUME NEW rs1 \in RecSigs, NEW rs2 \in RecSigs
    PROVE  /\ HashKey(rs1) = HashKey(rs2) => rs1 = rs2
           /\ IdKey(rs1) = IdKey(rs2) => rs1[1] = rs2[1]
           /\ HashKey(rs1) # IdKey(rs2) /\ HashKey(rs1) # SessionKey(rs2)
           /\ IdKey(rs1) # SessionKey(rs2)
  BY DEF RecSigs, IdKey, SessionKey, HashKey

LEMMA StoredType ==
    ASSUME TypeOK, NEW ids \in SUBSET Ids
    PROVE  Stored(ids) \in SUBSET RecSigs
  BY DEF TypeOK, Stored, RecSigs

LEMMA TypeInit == Init => TypeInv
  BY DbAssumption DEF Init, TypeInv, TypeOK, ThreadsOK, Time, Asking, PCs, AllRoles, NoTime

LEMMA TypeNext == TypeInv /\ [Next]_vars => TypeInv'
<1> SUFFICES ASSUME TypeOK, ThreadsOK, [Next]_vars
             PROVE  TypeOK' /\ ThreadsOK'
  BY Zenon DEF TypeInv
<1> USE DbAssumption DEF dbVars, voteVars, threadVars, cleanupVars
<1> USE DEF AllRoles, Asking, Time, NoTime, Free, PCs
<1>1. ASSUME NEW r \in Roles, HasLookup(r) PROVE TypeOK' /\ ThreadsOK'
  BY <1>1 DEF TypeOK, ThreadsOK, HasLookup
<1>2. ASSUME NEW r \in Roles, HasExists(r) PROVE TypeOK' /\ ThreadsOK'
  BY <1>2 DEF TypeOK, ThreadsOK, HasExists
<1>3. ASSUME NEW r \in Roles, HasInsert(r) PROVE TypeOK' /\ ThreadsOK'
  BY <1>3 DEF TypeOK, ThreadsOK, HasInsert
<1>4. ASSUME NEW k \in Keys, ReaderStart(k) PROVE TypeOK' /\ ThreadsOK'
  BY <1>4 DEF TypeOK, ThreadsOK, ReaderStart, Ask
<1>5. ASSUME NEW k \in Keys, EvictFromCache(k) PROVE TypeOK' /\ ThreadsOK'
  BY <1>5 DEF TypeOK, ThreadsOK, EvictFromCache
<1>6. CASE ReaderDone
  BY <1>6 DEF TypeOK, ThreadsOK, ReaderDone, Return
<1>7. ASSUME NEW rs \in RecSigs, ProcessRecoveredSig(rs) PROVE TypeOK' /\ ThreadsOK'
  BY <1>7, KeysOf DEF TypeOK, ThreadsOK, ProcessRecoveredSig, Ask
<1>8. CASE ProcessKnownHash
  BY <1>8, KeysOf DEF TypeOK, ThreadsOK, ProcessKnownHash, Ask, Return
<1>9. CASE ProcessKnownId
  BY <1>9 DEF TypeOK, ThreadsOK, ProcessKnownId, Return
<1>10. CASE WriteRecoveredSig
  BY <1>10 DEF TypeOK, ThreadsOK, WriteRecoveredSig, RecSigs
<1>11. CASE WriteRecoveredSigCaches
  BY <1>11, KeysOf DEF TypeOK, ThreadsOK, WriteRecoveredSigCaches, Return
<1>12. CASE CleanupOldRecoveredSigs
  BY <1>12 DEF TypeOK, ThreadsOK, CleanupOldRecoveredSigs, Expired
<1>13. CASE CleanupRemove
  BY <1>13, StoredType DEF TypeOK, ThreadsOK, CleanupRemove, EraseCaches
<1>14. CASE CleanupWrite
  BY <1>14 DEF TypeOK, ThreadsOK, CleanupWrite, EraseKeys
<1>15. CASE CleanupOldVotes
  BY <1>15 DEF TypeOK, ThreadsOK, CleanupOldVotes, Expired
<1>16. CASE CleanupVotesWrite
  BY <1>16 DEF TypeOK, ThreadsOK, CleanupVotesWrite
<1>17. ASSUME NEW i \in Ids, TruncateRecoveredSig(i) PROVE TypeOK' /\ ThreadsOK'
  BY <1>17, StoredType DEF TypeOK, ThreadsOK, TruncateRecoveredSig, EraseCaches, RecSigs
<1>18. CASE TruncateWrite
  BY <1>18 DEF TypeOK, ThreadsOK, TruncateWrite, EraseKeys, Return
<1>19. ASSUME NEW i \in Ids, NEW m \in Msgs, NEW a \in BOOLEAN,
              AsyncSignIfMember(i, m, a)
       PROVE  TypeOK' /\ ThreadsOK'
  <2> DEFINE t == <<i, m, vote[i] # NoMsg>>
             k == <<"id", i, NoMsg>>
  <2>1. t \in Ids \X Msgs \X BOOLEAN /\ t[1] = i /\ k \in Keys
    BY Zenon DEF Keys
  <2>2. Ask("signer", t, k) /\ "signer" \in Roles /\ cs' = "signer"
        /\ UNCHANGED <<now, dbVars, voteVars, cache, dbCs, cleanupVars>>
    BY <1>19, Zenon DEF AsyncSignIfMember
  <2> HIDE DEF t, k
  <2>3. k = <<"id", t[1], NoMsg>>
    BY <2>1, Zenon DEF k
  <2> QED
    BY <2>1, <2>2, <2>3 DEF TypeOK, ThreadsOK, Ask
<1>20. CASE WriteVoteForId
  BY <1>20 DEF TypeOK, ThreadsOK, WriteVoteForId, Return
<1>21. CASE Tick
  BY <1>21 DEF TypeOK, ThreadsOK, Tick
<1>22. CASE Restart
  BY <1>22, Zenon DEF TypeOK, ThreadsOK, Restart
<1>23. CASE UNCHANGED vars
  BY <1>23 DEF TypeOK, ThreadsOK, vars
<1> QED
  BY <1>1, <1>2, <1>3, <1>4, <1>5, <1>6, <1>7, <1>8, <1>9, <1>10, <1>11, <1>12,
     <1>13, <1>14, <1>15, <1>16, <1>17, <1>18, <1>19, <1>20, <1>21, <1>22, <1>23, Zenon
     DEF Next, Process, Cleanup

\* Every variable keeps its type: TypeOK holds in every state the node reaches.
THEOREM TypeCorrect == Spec => []TypeOK
<1>1. TypeInv => TypeOK
  BY Zenon DEF TypeInv
<1> QED
  BY <1>1, TypeInit, TypeNext, PTL DEF Spec

-----------------------------------------------------------------------------
(* Cleanup reaches every stored sig.                                       *)

\* Between the scan and the write of the cleanup, the sig of every scanned id
\* is in the batch (or gone, when a truncation came between).
SigInv ==
    /\ SigReachableByCleanup
    /\ "worker" \in Roles /\ pc["worker"] = "erase" =>
          \A tk \in scanned : recSig[tk[2]] # NoMsg =>
             <<tk[2], recSig[tk[2]]>> \in batch

LEMMA SigInvNext == TypeInv /\ SigInv /\ [Next]_vars => SigInv'
<1> SUFFICES ASSUME TypeOK, ThreadsOK, SigInv, [Next]_vars
             PROVE  SigInv'
  BY Zenon DEF TypeInv
<1> USE DbAssumption DEF dbVars, voteVars, threadVars, cleanupVars, SigReachableByCleanup
<1>1. ASSUME NEW r \in Roles, HasLookup(r) PROVE SigInv'
  BY <1>1 DEF SigInv, TypeOK, HasLookup
<1>2. ASSUME NEW r \in Roles, HasExists(r) PROVE SigInv'
  BY <1>2, Zenon DEF SigInv, TypeOK, HasExists
<1>3. ASSUME NEW r \in Roles, HasInsert(r) PROVE SigInv'
  BY <1>3, Zenon DEF SigInv, TypeOK, HasInsert
<1>4. ASSUME NEW k \in Keys, ReaderStart(k) PROVE SigInv'
  BY <1>4, Zenon DEF SigInv, TypeOK, ReaderStart, Ask
<1>5. ASSUME NEW k \in Keys, EvictFromCache(k) PROVE SigInv'
  BY <1>5, Zenon DEF SigInv, TypeOK, EvictFromCache
<1>6. CASE ReaderDone
  BY <1>6, Zenon DEF SigInv, TypeOK, ReaderDone, Return
<1>7. ASSUME NEW rs \in RecSigs, ProcessRecoveredSig(rs) PROVE SigInv'
  BY <1>7, Zenon DEF SigInv, TypeOK, ProcessRecoveredSig, Ask
<1>8. CASE ProcessKnownHash
  BY <1>8 DEF SigInv, TypeOK, ProcessKnownHash, Ask, Return
<1>9. CASE ProcessKnownId
  BY <1>9 DEF SigInv, TypeOK, ProcessKnownId, Return
<1>10. CASE WriteRecoveredSig
  BY <1>10 DEF SigInv, TypeOK, WriteRecoveredSig, ThreadsOK, RecSigs
<1>11. CASE WriteRecoveredSigCaches
  BY <1>11, Zenon DEF SigInv, TypeOK, WriteRecoveredSigCaches, Return
<1>12. CASE CleanupOldRecoveredSigs
  BY <1>12, Zenon DEF SigInv, TypeOK, CleanupOldRecoveredSigs
<1>13. CASE CleanupRemove
  BY <1>13 DEF SigInv, TypeOK, CleanupRemove, Stored
<1>14. CASE CleanupWrite
  BY <1>14 DEF SigInv, TypeOK, CleanupWrite, EraseKeys, RecSigs
<1>15. CASE CleanupOldVotes
  BY <1>15, Zenon DEF SigInv, TypeOK, CleanupOldVotes
<1>16. CASE CleanupVotesWrite
  BY <1>16, Zenon DEF SigInv, TypeOK, CleanupVotesWrite
<1>17. ASSUME NEW i \in Ids, TruncateRecoveredSig(i) PROVE SigInv'
  BY <1>17, Zenon DEF SigInv, TypeOK, TruncateRecoveredSig
<1>18. CASE TruncateWrite
  BY <1>18 DEF SigInv, TypeOK, TruncateWrite, EraseKeys, Return, ThreadsOK, RecSigs
<1>19. ASSUME NEW i \in Ids, NEW m \in Msgs, NEW a \in BOOLEAN,
              AsyncSignIfMember(i, m, a)
       PROVE  SigInv'
  BY <1>19, Zenon DEF SigInv, TypeOK, AsyncSignIfMember, Ask
<1>20. CASE WriteVoteForId
  BY <1>20, Zenon DEF SigInv, TypeOK, WriteVoteForId, Return
<1>21. CASE Tick
  BY <1>21, Zenon DEF SigInv, TypeOK, Tick
<1>22. CASE Restart
  BY <1>22, Zenon DEF SigInv, TypeOK, Restart
<1>23. CASE UNCHANGED vars
  BY <1>23, Zenon DEF SigInv, TypeOK, vars
<1> QED
  BY <1>1, <1>2, <1>3, <1>4, <1>5, <1>6, <1>7, <1>8, <1>9, <1>10, <1>11, <1>12,
     <1>13, <1>14, <1>15, <1>16, <1>17, <1>18, <1>19, <1>20, <1>21, <1>22, <1>23, Zenon
     DEF Next, Process, Cleanup

\* Whatever the interleaving of writes, truncations, cleanups and restarts, a
\* stored recovered sig keeps the rs_t key through which cleanup finds it.
THEOREM SigsReachable == Spec => []SigReachableByCleanup
<1>1. Init => SigInv
  BY DEF Init, SigInv, SigReachableByCleanup
<1>2. SigInv => SigReachableByCleanup
  BY Zenon DEF SigInv
<1> QED
  BY <1>1, <1>2, TypeInit, TypeNext, SigInvNext, PTL DEF Spec

-----------------------------------------------------------------------------
(* Votes.                                                                  *)

\* The signer that found no vote still finds none when it writes its own, and
\* the keys the vote cleanup has collected are in the database and too old.
VoteInv ==
    /\ VotesPaired
    /\ "signer" \in Roles /\ pc["signer"] \in Asking /\ ~arg["signer"][3] =>
          vote[arg["signer"][1]] = NoMsg
    /\ "worker" \in Roles /\ pc["worker"] = "eraseVotes" =>
          /\ scanned \subseteq voteTimes
          /\ \A tk \in scanned : now - tk[1] > MaxAge

LEMMA VoteInvNext == TypeInv /\ VoteInv /\ [Next]_vars => VoteInv'
<1> SUFFICES ASSUME TypeOK, ThreadsOK, VoteInv, [Next]_vars
             PROVE  VoteInv'
  BY Zenon DEF TypeInv
<1> USE DbAssumption DEF dbVars, voteVars, threadVars, cleanupVars, VotesPaired, Asking
<1>1. ASSUME NEW r \in Roles, HasLookup(r) PROVE VoteInv'
  BY <1>1 DEF VoteInv, TypeOK, HasLookup
<1>2. ASSUME NEW r \in Roles, HasExists(r) PROVE VoteInv'
  BY <1>2 DEF VoteInv, TypeOK, HasExists
<1>3. ASSUME NEW r \in Roles, HasInsert(r) PROVE VoteInv'
  BY <1>3 DEF VoteInv, TypeOK, HasInsert
<1>4. ASSUME NEW k \in Keys, ReaderStart(k) PROVE VoteInv'
  BY <1>4, Zenon DEF VoteInv, TypeOK, ReaderStart, Ask
<1>5. ASSUME NEW k \in Keys, EvictFromCache(k) PROVE VoteInv'
  BY <1>5, Zenon DEF VoteInv, TypeOK, EvictFromCache
<1>6. CASE ReaderDone
  BY <1>6, Zenon DEF VoteInv, TypeOK, ReaderDone, Return
<1>7. ASSUME NEW rs \in RecSigs, ProcessRecoveredSig(rs) PROVE VoteInv'
  BY <1>7, Zenon DEF VoteInv, TypeOK, ProcessRecoveredSig, Ask
<1>8. CASE ProcessKnownHash
  BY <1>8 DEF VoteInv, TypeOK, ProcessKnownHash, Ask, Return
<1>9. CASE ProcessKnownId
  BY <1>9 DEF VoteInv, TypeOK, ProcessKnownId, Return
<1>10. CASE WriteRecoveredSig
  BY <1>10, Zenon DEF VoteInv, TypeOK, WriteRecoveredSig
<1>11. CASE WriteRecoveredSigCaches
  BY <1>11 DEF VoteInv, TypeOK, WriteRecoveredSigCaches, Return
<1>12. CASE CleanupOldRecoveredSigs
  BY <1>12 DEF VoteInv, TypeOK, CleanupOldRecoveredSigs
<1>13. CASE CleanupRemove
  BY <1>13, ZenonT(30) DEF VoteInv, TypeOK, CleanupRemove
<1>14. CASE CleanupWrite
  BY <1>14, Zenon DEF VoteInv, TypeOK, CleanupWrite
<1>15. CASE CleanupOldVotes
  BY <1>15 DEF VoteInv, TypeOK, CleanupOldVotes, Expired, Time
<1>16. CASE CleanupVotesWrite
  BY <1>16 DEF VoteInv, TypeOK, ThreadsOK, CleanupVotesWrite
<1>17. ASSUME NEW i \in Ids, TruncateRecoveredSig(i) PROVE VoteInv'
  BY <1>17 DEF VoteInv, TypeOK, TruncateRecoveredSig
<1>18. CASE TruncateWrite
  BY <1>18 DEF VoteInv, TypeOK, TruncateWrite, Return
<1>19. ASSUME NEW i \in Ids, NEW m \in Msgs, NEW a \in BOOLEAN,
              AsyncSignIfMember(i, m, a)
       PROVE  VoteInv'
  BY <1>19 DEF VoteInv, TypeOK, AsyncSignIfMember, Ask
<1>20. CASE WriteVoteForId
  <2> DEFINE i == arg["signer"][1]
             m == arg["signer"][2]
             writes == ans["signer"] = "no" /\ ~arg["signer"][3]
  <2>1. /\ "signer" \in Roles /\ pc["signer"] = "answered"
        /\ pc' = [pc EXCEPT !["signer"] = "idle"]
        /\ vote' = IF writes THEN [vote EXCEPT ![i] = m] ELSE vote
        /\ voteTimes' = IF writes THEN voteTimes \cup {<<now, i>>} ELSE voteTimes
        /\ UNCHANGED <<now, scanned>>
    BY <1>20, Zenon DEF WriteVoteForId, Return
  <2>2. i \in Ids /\ m \in Msgs
    BY <2>1, Zenon DEF ThreadsOK
  <2>3. writes => vote[i] = NoMsg
    BY <2>1, Zenon DEF VoteInv
  <2> HIDE DEF i, m, writes
  <2>4. CASE writes
    <3>1. \A tk \in voteTimes : tk[2] # i
      BY <2>3, <2>4, Zenon DEF VoteInv
    <3>2. m # NoMsg
      BY <2>2, Zenon
    <3>3. VotesPaired'
      <4>1. \A tk \in voteTimes' : vote'[tk[2]] # NoMsg
        BY <2>1, <2>2, <2>4, <3>2 DEF VoteInv, TypeOK
      <4>2. \A j \in Ids : vote'[j] # NoMsg => \E tk \in voteTimes' : tk[2] = j
        <5> SUFFICES ASSUME NEW j \in Ids, vote'[j] # NoMsg
                     PROVE  \E tk \in voteTimes' : tk[2] = j
          BY Zenon
        <5>1. CASE j = i
          <6>1. <<now, i>> \in voteTimes' /\ <<now, i>>[2] = i
            BY <2>1, <2>4, Zenon
          <6> QED
            BY <6>1, <5>1, Zenon
        <5>2. CASE j # i
          <6>1. vote[j] # NoMsg
            BY <2>1, <2>4, <5>2, Zenon DEF TypeOK
          <6>2. PICK tk \in voteTimes : tk[2] = j
            BY <6>1, Zenon DEF VoteInv
          <6> QED
            BY <2>1, <2>4, <6>2, Zenon
        <5> QED
          BY <5>1, <5>2, Zenon
      <4>3. \A tk1, tk2 \in voteTimes' : tk1[2] = tk2[2] => tk1 = tk2
        BY <2>1, <2>4, <3>1 DEF VoteInv
      <4> QED
        BY <4>1, <4>2, <4>3, Zenon
    <3> QED
      BY <2>1, <2>4, <3>3 DEF VoteInv, TypeOK
  <2>5. CASE ~writes
    BY <2>1, <2>5, Zenon DEF VoteInv, TypeOK
  <2> QED
    BY <2>4, <2>5, Zenon
<1>21. CASE Tick
  BY <1>21 DEF VoteInv, TypeOK, Tick, Time
<1>22. CASE Restart
  BY <1>22, Zenon DEF VoteInv, TypeOK, Restart
<1>23. CASE UNCHANGED vars
  BY <1>23, Zenon DEF VoteInv, TypeOK, vars
<1> QED
  BY <1>1, <1>2, <1>3, <1>4, <1>5, <1>6, <1>7, <1>8, <1>9, <1>10, <1>11, <1>12,
     <1>13, <1>14, <1>15, <1>16, <1>17, <1>18, <1>19, <1>20, <1>21, <1>22, <1>23, Zenon
     DEF Next, Process, Cleanup

LEMMA VoteInvAlways == Spec => [](TypeInv /\ VoteInv)
<1>1. Init => VoteInv
  BY DEF Init, VoteInv, VotesPaired, Asking
<1> QED
  BY <1>1, TypeInit, TypeNext, VoteInvNext, PTL DEF Spec

\* A vote and its rs_vt key are written and erased together, restarts and the
\* unsynchronised CleanupOldVotes included.
THEOREM VotesArePaired == Spec => []VotesPaired
<1>1. VoteInv => VotesPaired
  BY Zenon DEF VoteInv
<1> QED
  BY <1>1, VoteInvAlways, PTL

LEMMA VoteKeptStep ==
    ASSUME TypeInv, VoteInv, [Next]_vars, NEW i \in Ids,
           vote[i] # NoMsg, vote'[i] # vote[i]
    PROVE  /\ vote'[i] = NoMsg
           /\ \A tk \in voteTimes : tk[2] = i => now - tk[1] > MaxAge
<1>1. CASE CleanupVotesWrite
  <2>1. PICK tk \in scanned : tk[2] = i
    BY <1>1, Zenon DEF CleanupVotesWrite
  <2>2. vote'[i] = NoMsg
    BY <1>1, <2>1, Zenon DEF CleanupVotesWrite
  <2> QED
    BY <1>1, <2>1, <2>2, Zenon DEF CleanupVotesWrite, VoteInv, VotesPaired
<1>2. CASE WriteVoteForId
  <2>1. "signer" \in Roles /\ pc["signer"] = "answered"
    BY <1>2, Zenon DEF WriteVoteForId
  <2>2. /\ ~arg["signer"][3]
        /\ vote' = [vote EXCEPT ![arg["signer"][1]] = arg["signer"][2]]
    BY <1>2, Zenon DEF WriteVoteForId
  <2>3. arg["signer"][1] = i
    BY <2>2, Zenon DEF TypeInv, TypeOK
  <2> QED
    BY <2>1, <2>2, <2>3, Zenon DEF VoteInv, Asking
<1>3. UNCHANGED vote \/ CleanupVotesWrite \/ WriteVoteForId
  BY Zenon DEF Next, Process, Cleanup, vars, dbVars, voteVars, threadVars, cleanupVars,
     HasLookup, HasExists, HasInsert, ReaderStart, EvictFromCache, ReaderDone,
     ProcessRecoveredSig, ProcessKnownHash, ProcessKnownId, WriteRecoveredSig,
     WriteRecoveredSigCaches, CleanupOldRecoveredSigs, CleanupRemove, CleanupWrite,
     CleanupOldVotes, TruncateRecoveredSig, TruncateWrite, AsyncSignIfMember,
     Tick, Restart
<1> QED
  BY <1>1, <1>2, <1>3, Zenon

\* No step of the node replaces a vote, and only CleanupOldVotes erases one,
\* once it is older than -recsigsmaxage.
THEOREM VotesAreKept == Spec => VoteKept
<1>1. TypeInv /\ VoteInv /\ [Next]_vars =>
        [\A i \in Ids : vote[i] # NoMsg /\ vote'[i] # vote[i] =>
            /\ vote'[i] = NoMsg
            /\ \A tk \in voteTimes : tk[2] = i => now - tk[1] > MaxAge]_vars
  BY VoteKeptStep, Zenon
<1> QED
  BY <1>1, VoteInvAlways, PTL DEF Spec, VoteKept

-----------------------------------------------------------------------------
(***************************************************************************)
(* The caches, when nobody asks about an id outside CSigningManager::cs:   *)
(* what the worker believes when it writes a recovered sig is true.        *)
(***************************************************************************)

\* The worker asks for the id, and writes, only while it holds CSigningManager::cs.
WorkerOnId ==
    "worker" \in Roles /\ ( \/ pc["worker"] \in {"write", "fill"}
                            \/ pc["worker"] \in Asking /\ key["worker"][1] = "id")

\* Without a reader: cs serialises questions about an id with the writes ...
CacheLocks ==
    /\ WorkerOnId => cs = "worker"
    /\ "signer" \in Roles /\ pc["signer"] \in Asking => cs = "signer"

\* ... so a cached no about an id or a hash is true, except for the sig whose
\* caches the worker is about to fill ...
CachedNo ==
    /\ \A i \in Ids : cache[<<"id", i, NoMsg>>] = "no" =>
          \/ recSig[i] = NoMsg
          \/ "worker" \in Roles /\ pc["worker"] = "fill" /\ arg["worker"][1] = i
    /\ \A rs \in RecSigs : cache[<<"hash", rs[1], rs[2]>>] = "no" =>
          \/ rs \notin byHash
          \/ "worker" \in Roles /\ pc["worker"] = "fill" /\ arg["worker"] = rs

\* ... and so is an answer no that is on its way to the cache or to the caller.
PendingNo ==
    /\ \A r \in Roles : \A i \in Ids :
          pc[r] \in {"insert", "answered"} /\ ans[r] = "no" /\ key[r] = <<"id", i, NoMsg>>
             => recSig[i] = NoMsg
    /\ "worker" \in Roles /\ pc["worker"] \in {"insert", "answered"}
          /\ ans["worker"] = "no" /\ key["worker"] = HashKey(arg["worker"])
             => arg["worker"] \notin byHash

\* The sig the worker is about to write has neither an rs_h nor an rs_r key.
FreshWrite ==
    /\ WorkerOnId /\ pc["worker"] # "fill" => arg["worker"] \notin byHash
    /\ "worker" \in Roles /\ pc["worker"] = "write" =>
          recSig[arg["worker"][1]] = NoMsg

CacheInv == CacheLocks /\ CachedNo /\ PendingNo /\ FreshWrite

\* The part of TypeOK that the cache lemmas use.
LEMMA CacheTypes ==
    ASSUME TypeOK
    PROVE  /\ pc \in [Roles -> PCs] /\ cache \in [Keys -> {"miss", "yes", "no"}]
           /\ recSig \in [Ids -> Msgs \cup {NoMsg}] /\ byHash \subseteq RecSigs
           /\ DOMAIN arg = Roles /\ DOMAIN key = Roles /\ DOMAIN ans = Roles
  BY Zenon DEF TypeOK

\* CacheInv is about the caches, rs_r, rs_h, cs and the threads that ask or
\* write: a step between other places of a thread cannot disturb it.
LEMMA CacheFrame ==
    ASSUME CacheInv, UNCHANGED <<recSig, byHash, cache, cs, arg, key, ans>>,
           \A r \in Roles : pc'[r] # pc[r] =>
              pc[r] # "fill" /\ pc'[r] \notin Asking \cup {"write", "fill"}
    PROVE  CacheInv'
<1>1. CacheLocks'
  BY Zenon DEF CacheInv, CacheLocks, WorkerOnId, Asking
<1>2. CachedNo'
  BY Zenon DEF CacheInv, CachedNo
<1>3. PendingNo'
  BY Zenon DEF CacheInv, PendingNo, Asking
<1>4. FreshWrite'
  BY Zenon DEF CacheInv, FreshWrite, WorkerOnId, Asking
<1> QED
  BY <1>1, <1>2, <1>3, <1>4, Zenon DEF CacheInv

LEMMA CacheHasLookup ==
    ASSUME "reader" \notin Roles, TypeOK, ThreadsOK, CacheInv, NEW r \in Roles, HasLookup(r)
    PROVE  CacheInv'
<1> USE DbAssumption DEF dbVars, voteVars, threadVars, cleanupVars, Asking, AllRoles, Free
<1> USE DEF CacheInv, CacheLocks, CachedNo, PendingNo, FreshWrite, WorkerOnId
<1>1. CacheLocks'
  BY CacheTypes DEF ThreadsOK, CacheLocks, HasLookup, HashKey, IdKey, RecSigs, Keys
<1>2. CachedNo'
  BY CacheTypes DEF ThreadsOK, CachedNo, HasLookup, HashKey, IdKey, RecSigs, Keys
<1>3. PendingNo'
  BY CacheTypes DEF ThreadsOK, PendingNo, CachedNo, CacheLocks, HasLookup, HashKey, IdKey, RecSigs, Keys
<1>4. FreshWrite'
  BY CacheTypes DEF ThreadsOK, FreshWrite, HasLookup, HashKey, IdKey, RecSigs, Keys
<1> QED
  BY <1>1, <1>2, <1>3, <1>4, Zenon

LEMMA CacheHasExists ==
    ASSUME "reader" \notin Roles, TypeOK, ThreadsOK, CacheInv, NEW r \in Roles, HasExists(r)
    PROVE  CacheInv'
<1> USE DbAssumption DEF dbVars, voteVars, threadVars, cleanupVars, Asking, AllRoles, Free
<1> USE DEF CacheInv, CacheLocks, CachedNo, PendingNo, FreshWrite, WorkerOnId
<1>1. CacheLocks'
  BY CacheTypes DEF ThreadsOK, CacheLocks, HasExists, HashKey, IdKey, RecSigs, Keys, DbExists
<1>2. CachedNo'
  BY CacheTypes DEF ThreadsOK, CachedNo, HasExists, HashKey, IdKey, RecSigs, Keys, DbExists
<1>3. PendingNo'
  <2>1. ASSUME NEW i \in Ids, key[r] = <<"id", i, NoMsg>>, ans'[r] = "no"
        PROVE  recSig[i] = NoMsg
    BY <2>1 DEF TypeOK, HasExists, DbExists
  <2>2. ASSUME r = "worker", key[r] = HashKey(arg[r]), ans'[r] = "no"
        PROVE  arg[r] \notin byHash
    <3>1. arg[r] \in RecSigs
      BY <2>2, Zenon DEF HasExists, ThreadsOK
    <3>2. ~DbExists(key[r])
      BY <2>2, Zenon DEF HasExists, TypeOK
    <3>3. key[r] = <<"hash", arg[r][1], arg[r][2]>>
      BY <2>2, Zenon DEF HashKey
    <3>4. <<arg[r][1], arg[r][2]>> \notin byHash
      BY <3>2, <3>3 DEF DbExists
    <3> QED
      BY <3>1, <3>4 DEF RecSigs
  <2> QED
    BY <2>1, <2>2 DEF TypeOK, HasExists
<1>4. FreshWrite'
  BY CacheTypes DEF ThreadsOK, FreshWrite, HasExists, HashKey, IdKey, RecSigs, Keys, DbExists
<1> QED
  BY <1>1, <1>2, <1>3, <1>4, Zenon

LEMMA CacheHasInsert ==
    ASSUME "reader" \notin Roles, TypeOK, ThreadsOK, CacheInv, NEW r \in Roles, HasInsert(r)
    PROVE  CacheInv'
<1> USE DbAssumption DEF dbVars, voteVars, threadVars, cleanupVars, Asking, AllRoles, Free
<1> USE DEF CacheInv, CacheLocks, CachedNo, PendingNo, FreshWrite, WorkerOnId
<1>1. CacheLocks'
  BY CacheTypes DEF ThreadsOK, CacheLocks, HasInsert, HashKey, IdKey, RecSigs, Keys
<1>2. CachedNo'
  <2>1. key[r] \in Keys /\ cache' = [cache EXCEPT ![key[r]] = ans[r]]
        /\ pc[r] = "insert" /\ pc' = [pc EXCEPT ![r] = "answered"]
        /\ UNCHANGED <<recSig, byHash, arg>>
    BY Zenon DEF HasInsert, ThreadsOK
  <2>2. ASSUME NEW i \in Ids, cache'[<<"id", i, NoMsg>>] = "no"
        PROVE  \/ recSig[i] = NoMsg
               \/ "worker" \in Roles /\ pc'["worker"] = "fill" /\ arg["worker"][1] = i
    BY <2>1, <2>2 DEF TypeOK, Keys
  <2>3. ASSUME NEW rs \in RecSigs, cache'[<<"hash", rs[1], rs[2]>>] = "no"
        PROVE  \/ rs \notin byHash
               \/ "worker" \in Roles /\ pc'["worker"] = "fill" /\ arg["worker"] = rs
    <3>1. CASE key[r] = HashKey(rs)
      <4>1. r = "worker" /\ key[r] \in {HashKey(arg[r]), IdKey(arg[r])} /\ arg[r] \in RecSigs
        <5>1. r \in {"worker", "signer", "truncater"}
          BY DbAssumption, Zenon DEF AllRoles
        <5>2. pc[r] \in Asking
          BY <2>1, Zenon DEF Asking
        <5>3. r # "truncater"
          BY <5>2, Zenon DEF ThreadsOK, Asking
        <5>4. r # "signer"
          BY <3>1, <5>2 DEF ThreadsOK, HashKey
        <5> QED
          BY <5>1, <5>2, <5>3, <5>4, Zenon DEF ThreadsOK
      <4>2. arg[r] = rs
        BY <3>1, <4>1, KeysInjective
      <4>3. HashKey(rs) \in Keys
        BY KeysOf, Zenon
      <4> QED
        BY <2>1, <2>3, <3>1, <4>1, <4>2, <4>3, Zenon DEF HashKey, TypeOK
    <3>2. CASE key[r] # HashKey(rs)
      <4>1. cache[<<"hash", rs[1], rs[2]>>] = "no"
        BY <2>1, <2>3, <3>2, KeysOf, Zenon DEF HashKey, TypeOK
      <4> QED
        BY <2>1, <4>1 DEF TypeOK
    <3> QED
      BY <3>1, <3>2, Zenon
  <2> QED
    BY <2>1, <2>2, <2>3, Zenon
<1>3. PendingNo'
  BY CacheTypes DEF ThreadsOK, PendingNo, HasInsert, HashKey, IdKey, RecSigs, Keys
<1>4. FreshWrite'
  BY CacheTypes DEF ThreadsOK, FreshWrite, HasInsert, HashKey, IdKey, RecSigs, Keys
<1> QED
  BY <1>1, <1>2, <1>3, <1>4, Zenon

LEMMA CacheReaderStart ==
    ASSUME "reader" \notin Roles, TypeOK, ThreadsOK, CacheInv, NEW k \in Keys, ReaderStart(k)
    PROVE  CacheInv'
<1> USE DbAssumption DEF dbVars, voteVars, threadVars, cleanupVars, Asking, AllRoles, Free
<1> USE DEF CacheInv, WorkerOnId
<1>1. CacheLocks'
  BY CacheTypes, Zenon DEF ThreadsOK, CacheLocks, ReaderStart, Ask
<1>2. CachedNo'
  BY CacheTypes, Zenon DEF ThreadsOK, CachedNo, ReaderStart, Ask
<1>3. PendingNo'
  BY CacheTypes, Zenon DEF ThreadsOK, PendingNo, ReaderStart, Ask
<1>4. FreshWrite'
  BY CacheTypes, Zenon DEF ThreadsOK, FreshWrite, ReaderStart, Ask
<1> QED
  BY <1>1, <1>2, <1>3, <1>4, Zenon

LEMMA CacheEvictFromCache ==
    ASSUME "reader" \notin Roles, TypeOK, ThreadsOK, CacheInv, NEW k \in Keys, EvictFromCache(k)
    PROVE  CacheInv'
<1> USE DbAssumption DEF dbVars, voteVars, threadVars, cleanupVars, Asking, AllRoles, Free
<1> USE DEF CacheInv, WorkerOnId
<1>1. CacheLocks'
  BY CacheTypes, Zenon DEF ThreadsOK, CacheLocks, EvictFromCache
<1>2. CachedNo'
  BY CacheTypes DEF ThreadsOK, CachedNo, EvictFromCache
<1>3. PendingNo'
  BY CacheTypes DEF ThreadsOK, PendingNo, EvictFromCache
<1>4. FreshWrite'
  BY CacheTypes, Zenon DEF ThreadsOK, FreshWrite, EvictFromCache
<1> QED
  BY <1>1, <1>2, <1>3, <1>4, Zenon

LEMMA CacheReaderDone ==
    ASSUME "reader" \notin Roles, TypeOK, ThreadsOK, CacheInv, ReaderDone
    PROVE  CacheInv'
<1> USE DbAssumption DEF dbVars, voteVars, threadVars, cleanupVars, Asking, AllRoles, Free
<1> USE DEF CacheInv, WorkerOnId
<1>1. CacheLocks'
  BY CacheTypes, Zenon DEF ThreadsOK, CacheLocks, ReaderDone, Return
<1>2. CachedNo'
  BY CacheTypes, Zenon DEF ThreadsOK, CachedNo, ReaderDone, Return
<1>3. PendingNo'
  BY CacheTypes, Zenon DEF ThreadsOK, PendingNo, ReaderDone, Return
<1>4. FreshWrite'
  BY CacheTypes, Zenon DEF ThreadsOK, FreshWrite, ReaderDone, Return
<1> QED
  BY <1>1, <1>2, <1>3, <1>4, Zenon

LEMMA CacheProcessRecoveredSig ==
    ASSUME "reader" \notin Roles, TypeOK, ThreadsOK, CacheInv, NEW rs \in RecSigs, ProcessRecoveredSig(rs)
    PROVE  CacheInv'
<1> USE DbAssumption DEF dbVars, voteVars, threadVars, cleanupVars, Asking, AllRoles, Free
<1> USE DEF CacheInv, WorkerOnId
<1>1. CacheLocks'
  BY CacheTypes, Zenon DEF ThreadsOK, CacheLocks, ProcessRecoveredSig, Ask, HashKey
<1>2. CachedNo'
  BY CacheTypes, Zenon DEF ThreadsOK, CachedNo, ProcessRecoveredSig, Ask, HashKey
<1>3. PendingNo'
  BY CacheTypes DEF ThreadsOK, PendingNo, ProcessRecoveredSig, Ask, HashKey
<1>4. FreshWrite'
  BY CacheTypes, Zenon DEF ThreadsOK, FreshWrite, ProcessRecoveredSig, Ask, HashKey
<1> QED
  BY <1>1, <1>2, <1>3, <1>4, Zenon

LEMMA CacheProcessKnownHash ==
    ASSUME "reader" \notin Roles, TypeOK, ThreadsOK, CacheInv, ProcessKnownHash
    PROVE  CacheInv'
<1> USE DbAssumption DEF dbVars, voteVars, threadVars, cleanupVars, Asking, AllRoles, Free
<1> USE DEF CacheInv, WorkerOnId
<1>1. CacheLocks'
  BY CacheTypes DEF ThreadsOK, CacheLocks, ProcessKnownHash, HashKey, IdKey, RecSigs, Keys, Ask, Return
<1>2. CachedNo'
  BY CacheTypes, Zenon DEF ThreadsOK, CachedNo, ProcessKnownHash, HashKey, IdKey, RecSigs, Keys, Ask, Return
<1>3. PendingNo'
  BY CacheTypes DEF ThreadsOK, PendingNo, ProcessKnownHash, HashKey, IdKey, RecSigs, Keys, Ask, Return
<1>4. FreshWrite'
  BY CacheTypes DEF ThreadsOK, FreshWrite, PendingNo, ProcessKnownHash, HashKey, IdKey, RecSigs, Keys, Ask, Return
<1> QED
  BY <1>1, <1>2, <1>3, <1>4, Zenon

LEMMA CacheProcessKnownId ==
    ASSUME "reader" \notin Roles, TypeOK, ThreadsOK, CacheInv, ProcessKnownId
    PROVE  CacheInv'
<1> USE DbAssumption DEF dbVars, voteVars, threadVars, cleanupVars, Asking, AllRoles, Free
<1> USE DEF CacheInv, WorkerOnId
<1>1. CacheLocks'
  BY CacheTypes DEF ThreadsOK, CacheLocks, ProcessKnownId, HashKey, IdKey, RecSigs, Keys, Return
<1>2. CachedNo'
  BY CacheTypes, Zenon DEF ThreadsOK, CachedNo, ProcessKnownId, HashKey, IdKey, RecSigs, Keys, Return
<1>3. PendingNo'
  BY CacheTypes DEF ThreadsOK, PendingNo, ProcessKnownId, HashKey, IdKey, RecSigs, Keys, Return
<1>4. FreshWrite'
  BY CacheTypes DEF ThreadsOK, FreshWrite, PendingNo, ProcessKnownId, HashKey, IdKey, RecSigs, Keys, Return
<1> QED
  BY <1>1, <1>2, <1>3, <1>4, Zenon

LEMMA CacheWriteRecoveredSig ==
    ASSUME "reader" \notin Roles, TypeOK, ThreadsOK, CacheInv, WriteRecoveredSig
    PROVE  CacheInv'
<1> USE DbAssumption DEF dbVars, voteVars, threadVars, cleanupVars, Asking, AllRoles, Free
<1> USE DEF CacheInv, WorkerOnId
<1>1. CacheLocks'
  BY CacheTypes, Zenon DEF ThreadsOK, CacheLocks, WriteRecoveredSig, HashKey, IdKey, RecSigs, Keys
<1>2. CachedNo'
  BY CacheTypes DEF ThreadsOK, CachedNo, WriteRecoveredSig, HashKey, IdKey, RecSigs, Keys
<1>3. PendingNo'
  BY CacheTypes DEF ThreadsOK, PendingNo, CacheLocks, WriteRecoveredSig, HashKey, IdKey, RecSigs, Keys
<1>4. FreshWrite'
  BY CacheTypes, Zenon DEF ThreadsOK, FreshWrite, WriteRecoveredSig, HashKey, IdKey, RecSigs, Keys
<1> QED
  BY <1>1, <1>2, <1>3, <1>4, Zenon

LEMMA CacheWriteRecoveredSigCaches ==
    ASSUME "reader" \notin Roles, TypeOK, ThreadsOK, CacheInv, WriteRecoveredSigCaches
    PROVE  CacheInv'
<1> USE DbAssumption DEF dbVars, voteVars, threadVars, cleanupVars, Asking, AllRoles, Free
<1> USE DEF CacheInv, WorkerOnId
<1>1. CacheLocks'
  BY CacheTypes, Zenon DEF ThreadsOK, CacheLocks, WriteRecoveredSigCaches, Return
<1>2. CachedNo'
  <2> DEFINE w == arg["worker"]
  <2>1. /\ w \in RecSigs /\ pc["worker"] = "fill"
        /\ cache' = [cache EXCEPT ![IdKey(w)] = "yes", ![SessionKey(w)] = "yes",
                                  ![HashKey(w)] = "yes"]
        /\ UNCHANGED <<recSig, byHash>>
    BY Zenon DEF WriteRecoveredSigCaches, ThreadsOK
  <2> HIDE DEF w
  <2>2. ASSUME NEW i \in Ids, cache'[<<"id", i, NoMsg>>] = "no"
        PROVE  recSig[i] = NoMsg
    <3>1. <<"id", i, NoMsg>> \in Keys
      BY Zenon DEF Keys
    <3>2. cache[<<"id", i, NoMsg>>] = "no" /\ <<"id", i, NoMsg>> # IdKey(w)
      BY <2>1, <2>2, <3>1, KeysOf, Zenon DEF TypeOK, HashKey, SessionKey
    <3>3. w[1] # i
      BY <3>2, Zenon DEF IdKey
    <3> QED
      BY <3>2, <3>3, Zenon DEF w, CachedNo
  <2>3. ASSUME NEW rs \in RecSigs, cache'[<<"hash", rs[1], rs[2]>>] = "no"
        PROVE  rs \notin byHash
    <3>1. cache'[HashKey(rs)] = "no" /\ HashKey(rs) \in Keys
      BY <2>3, KeysOf, Zenon DEF HashKey
    <3>2. rs # w
      BY <2>1, <3>1, KeysOf, Zenon DEF TypeOK
    <3>3. cache[HashKey(rs)] = "no"
      BY <2>1, <3>1, <3>2, KeysOf, KeysInjective, Zenon DEF TypeOK
    <3> QED
      BY <3>2, <3>3, Zenon DEF w, HashKey, CachedNo
  <2> QED
    BY <2>1, <2>2, <2>3, Zenon DEF CachedNo
<1>3. PendingNo'
  BY CacheTypes DEF ThreadsOK, PendingNo, WriteRecoveredSigCaches, Return
<1>4. FreshWrite'
  BY CacheTypes, Zenon DEF ThreadsOK, FreshWrite, WriteRecoveredSigCaches, Return
<1> QED
  BY <1>1, <1>2, <1>3, <1>4, Zenon

LEMMA CacheCleanupOldRecoveredSigs ==
    ASSUME "reader" \notin Roles, TypeOK, ThreadsOK, CacheInv, CleanupOldRecoveredSigs
    PROVE  CacheInv'
<1>1. UNCHANGED <<recSig, byHash, cache, cs, arg, key, ans>>
  BY Zenon DEF CleanupOldRecoveredSigs, dbVars, threadVars
<1>2. \A r \in Roles : pc'[r] # pc[r] =>
        pc[r] # "fill" /\ pc'[r] \notin Asking \cup {"write", "fill"}
  BY CacheTypes, Zenon DEF CleanupOldRecoveredSigs, threadVars, Asking
<1> QED
  BY <1>1, <1>2, CacheFrame, Zenon

LEMMA CacheCleanupRemove ==
    ASSUME "reader" \notin Roles, TypeOK, ThreadsOK, CacheInv, CleanupRemove
    PROVE  CacheInv'
<1> USE DbAssumption DEF dbVars, voteVars, threadVars, cleanupVars, Asking, AllRoles, Free
<1> USE DEF CacheInv, WorkerOnId
<1>1. CacheLocks'
  BY CacheTypes, Zenon DEF ThreadsOK, CacheLocks, CleanupRemove, EraseCaches
<1>2. CachedNo'
  BY CacheTypes DEF ThreadsOK, CachedNo, CleanupRemove, HashKey, IdKey, RecSigs, Keys, EraseCaches
<1>3. PendingNo'
  BY CacheTypes DEF ThreadsOK, PendingNo, CleanupRemove, HashKey, IdKey, RecSigs, Keys, EraseCaches
<1>4. FreshWrite'
  BY CacheTypes, Zenon DEF ThreadsOK, FreshWrite, CleanupRemove, EraseCaches
<1> QED
  BY <1>1, <1>2, <1>3, <1>4, Zenon

LEMMA CacheCleanupWrite ==
    ASSUME "reader" \notin Roles, TypeOK, ThreadsOK, CacheInv, CleanupWrite
    PROVE  CacheInv'
<1> USE DbAssumption DEF dbVars, voteVars, threadVars, cleanupVars, Asking, AllRoles, Free
<1> USE DEF CacheInv, WorkerOnId
<1>1. CacheLocks'
  BY CacheTypes, Zenon DEF ThreadsOK, CacheLocks, CleanupWrite, EraseKeys
<1>2. CachedNo'
  BY CacheTypes, Zenon DEF ThreadsOK, CachedNo, CleanupWrite, HashKey, IdKey, RecSigs, Keys, EraseKeys
<1>3. PendingNo'
  BY CacheTypes DEF ThreadsOK, PendingNo, CleanupWrite, HashKey, IdKey, RecSigs, Keys, EraseKeys
<1>4. FreshWrite'
  BY CacheTypes, Zenon DEF ThreadsOK, FreshWrite, CleanupWrite, EraseKeys
<1> QED
  BY <1>1, <1>2, <1>3, <1>4, Zenon

LEMMA CacheCleanupOldVotes ==
    ASSUME "reader" \notin Roles, TypeOK, ThreadsOK, CacheInv, CleanupOldVotes
    PROVE  CacheInv'
<1>1. UNCHANGED <<recSig, byHash, cache, cs, arg, key, ans>>
  BY Zenon DEF CleanupOldVotes, dbVars, threadVars
<1>2. \A r \in Roles : pc'[r] # pc[r] =>
        pc[r] # "fill" /\ pc'[r] \notin Asking \cup {"write", "fill"}
  BY CacheTypes, Zenon DEF CleanupOldVotes, threadVars, Asking
<1> QED
  BY <1>1, <1>2, CacheFrame, Zenon

LEMMA CacheCleanupVotesWrite ==
    ASSUME "reader" \notin Roles, TypeOK, ThreadsOK, CacheInv, CleanupVotesWrite
    PROVE  CacheInv'
<1>1. UNCHANGED <<recSig, byHash, cache, cs, arg, key, ans>>
  BY Zenon DEF CleanupVotesWrite, dbVars, threadVars
<1>2. \A r \in Roles : pc'[r] # pc[r] =>
        pc[r] # "fill" /\ pc'[r] \notin Asking \cup {"write", "fill"}
  BY CacheTypes, Zenon DEF CleanupVotesWrite, threadVars, Asking
<1> QED
  BY <1>1, <1>2, CacheFrame, Zenon

LEMMA CacheTruncateRecoveredSig ==
    ASSUME "reader" \notin Roles, TypeOK, ThreadsOK, CacheInv, NEW i \in Ids, TruncateRecoveredSig(i)
    PROVE  CacheInv'
<1> USE DbAssumption DEF dbVars, voteVars, threadVars, cleanupVars, Asking, AllRoles, Free
<1> USE DEF CacheInv, WorkerOnId
<1>1. CacheLocks'
  BY CacheTypes, Zenon DEF ThreadsOK, CacheLocks, TruncateRecoveredSig, EraseCaches
<1>2. CachedNo'
  BY CacheTypes DEF ThreadsOK, CachedNo, TruncateRecoveredSig, HashKey, IdKey, RecSigs, Keys, EraseCaches
<1>3. PendingNo'
  BY CacheTypes DEF ThreadsOK, PendingNo, TruncateRecoveredSig, HashKey, IdKey, RecSigs, Keys, EraseCaches
<1>4. FreshWrite'
  BY CacheTypes, Zenon DEF ThreadsOK, FreshWrite, TruncateRecoveredSig, EraseCaches
<1> QED
  BY <1>1, <1>2, <1>3, <1>4, Zenon

LEMMA CacheTruncateWrite ==
    ASSUME "reader" \notin Roles, TypeOK, ThreadsOK, CacheInv, TruncateWrite
    PROVE  CacheInv'
<1> USE DbAssumption DEF dbVars, voteVars, threadVars, cleanupVars, Asking, AllRoles, Free
<1> USE DEF CacheInv, WorkerOnId
<1>1. CacheLocks'
  BY CacheTypes, Zenon DEF ThreadsOK, CacheLocks, TruncateWrite, EraseKeys, Return
<1>2. CachedNo'
  BY CacheTypes DEF ThreadsOK, CachedNo, TruncateWrite, HashKey, IdKey, RecSigs, Keys, EraseKeys, Return
<1>3. PendingNo'
  BY CacheTypes DEF ThreadsOK, PendingNo, TruncateWrite, HashKey, IdKey, RecSigs, Keys, EraseKeys, Return
<1>4. FreshWrite'
  BY CacheTypes, Zenon DEF ThreadsOK, FreshWrite, TruncateWrite, EraseKeys, Return, RecSigs
<1> QED
  BY <1>1, <1>2, <1>3, <1>4, Zenon

LEMMA CacheAsyncSignIfMember ==
    ASSUME "reader" \notin Roles, TypeOK, ThreadsOK, CacheInv, NEW i \in Ids, NEW m \in Msgs, NEW a \in BOOLEAN, AsyncSignIfMember(i, m, a)
    PROVE  CacheInv'
<1> USE DbAssumption DEF dbVars, voteVars, threadVars, cleanupVars, Asking, AllRoles, Free
<1> USE DEF CacheInv, WorkerOnId
<1>1. CacheLocks'
  BY CacheTypes, Zenon DEF ThreadsOK, CacheLocks, AsyncSignIfMember, Ask
<1>2. CachedNo'
  BY CacheTypes, Zenon DEF ThreadsOK, CachedNo, AsyncSignIfMember, HashKey, IdKey, RecSigs, Keys, Ask
<1>3. PendingNo'
  BY CacheTypes DEF ThreadsOK, PendingNo, AsyncSignIfMember, HashKey, IdKey, RecSigs, Keys, Ask
<1>4. FreshWrite'
  BY CacheTypes, Zenon DEF ThreadsOK, FreshWrite, AsyncSignIfMember, Ask
<1> QED
  BY <1>1, <1>2, <1>3, <1>4, Zenon

LEMMA CacheWriteVoteForId ==
    ASSUME "reader" \notin Roles, TypeOK, ThreadsOK, CacheInv, WriteVoteForId
    PROVE  CacheInv'
<1> USE DbAssumption DEF dbVars, voteVars, threadVars, cleanupVars, Asking, AllRoles, Free
<1> USE DEF CacheInv, WorkerOnId
<1>1. CacheLocks'
  BY CacheTypes, Zenon DEF ThreadsOK, CacheLocks, WriteVoteForId, Return
<1>2. CachedNo'
  BY CacheTypes, Zenon DEF ThreadsOK, CachedNo, WriteVoteForId, Return
<1>3. PendingNo'
  BY CacheTypes DEF ThreadsOK, PendingNo, WriteVoteForId, Return
<1>4. FreshWrite'
  BY CacheTypes, Zenon DEF ThreadsOK, FreshWrite, WriteVoteForId, Return
<1> QED
  BY <1>1, <1>2, <1>3, <1>4, Zenon

LEMMA CacheTick ==
    ASSUME "reader" \notin Roles, TypeOK, ThreadsOK, CacheInv, Tick
    PROVE  CacheInv'
<1>1. UNCHANGED <<recSig, byHash, cache, cs, arg, key, ans>>
  BY Zenon DEF Tick, dbVars, threadVars
<1>2. \A r \in Roles : pc'[r] # pc[r] =>
        pc[r] # "fill" /\ pc'[r] \notin Asking \cup {"write", "fill"}
  BY CacheTypes, Zenon DEF Tick, threadVars, Asking
<1> QED
  BY <1>1, <1>2, CacheFrame, Zenon

LEMMA CacheRestart ==
    ASSUME "reader" \notin Roles, TypeOK, ThreadsOK, CacheInv, Restart
    PROVE  CacheInv'
<1> USE DbAssumption DEF dbVars, voteVars, threadVars, cleanupVars, Asking, AllRoles, Free
<1> USE DEF CacheInv, WorkerOnId
<1>1. CacheLocks'
  BY CacheTypes, Zenon DEF ThreadsOK, CacheLocks, Restart
<1>2. CachedNo'
  BY CacheTypes DEF ThreadsOK, CachedNo, Restart, HashKey, IdKey, RecSigs, Keys
<1>3. PendingNo'
  BY CacheTypes, Zenon DEF ThreadsOK, PendingNo, Restart, HashKey, IdKey, RecSigs, Keys
<1>4. FreshWrite'
  BY CacheTypes, Zenon DEF ThreadsOK, FreshWrite, Restart
<1> QED
  BY <1>1, <1>2, <1>3, <1>4, Zenon

LEMMA CacheUnchanged ==
    ASSUME "reader" \notin Roles, TypeOK, ThreadsOK, CacheInv, UNCHANGED vars
    PROVE  CacheInv'
<1>1. UNCHANGED <<recSig, byHash, cache, cs, arg, key, ans>>
  BY Zenon DEF vars, dbVars, threadVars
<1>2. \A r \in Roles : pc'[r] # pc[r] =>
        pc[r] # "fill" /\ pc'[r] \notin Asking \cup {"write", "fill"}
  BY CacheTypes, Zenon DEF vars, threadVars, Asking
<1> QED
  BY <1>1, <1>2, CacheFrame, Zenon

LEMMA CacheInvNext ==
    ASSUME "reader" \notin Roles, TypeOK, ThreadsOK, CacheInv, [Next]_vars
    PROVE  CacheInv'
  BY CacheHasLookup, CacheHasExists, CacheHasInsert, CacheReaderStart, CacheEvictFromCache,
     CacheReaderDone, CacheProcessRecoveredSig, CacheProcessKnownHash, CacheProcessKnownId,
     CacheWriteRecoveredSig, CacheWriteRecoveredSigCaches, CacheCleanupOldRecoveredSigs,
     CacheCleanupRemove, CacheCleanupWrite, CacheCleanupOldVotes, CacheCleanupVotesWrite,
     CacheTruncateRecoveredSig, CacheTruncateWrite, CacheAsyncSignIfMember,
     CacheWriteVoteForId, CacheTick, CacheRestart, CacheUnchanged, Zenon
     DEF Next, Process, Cleanup

LEMMA CacheInvAlways ==
    ASSUME "reader" \notin Roles
    PROVE  Spec => [](TypeInv /\ CacheInv)
<1>1. Init => CacheInv
  <2> SUFFICES ASSUME Init PROVE CacheInv
    BY Zenon
  <2>1. \A k \in Keys : cache[k] = "miss"
    BY Zenon DEF Init
  <2>2. CachedNo
    BY <2>1 DEF CachedNo, Keys, RecSigs
  <2>3. CacheLocks /\ PendingNo /\ FreshWrite
    BY Zenon DEF Init, CacheLocks, PendingNo, FreshWrite, WorkerOnId, Asking
  <2> QED
    BY <2>2, <2>3, Zenon DEF CacheInv
<1>2. TypeInv /\ CacheInv /\ [Next]_vars => CacheInv'
  BY CacheInvNext, Zenon DEF TypeInv
<1> QED
  BY <1>1, <1>2, TypeInit, TypeNext, PTL DEF Spec

LEMMA WriteStep ==
    ASSUME TypeInv, CacheInv, [Next]_vars, NEW i \in Ids,
           recSig'[i] # recSig[i], recSig'[i] # NoMsg
    PROVE  recSig[i] = NoMsg /\ <<i, recSig'[i]>> \notin byHash
<1>1. CASE WriteRecoveredSig
  <2> DEFINE w == arg["worker"]
  <2>1. /\ w \in RecSigs /\ "worker" \in Roles /\ pc["worker"] = "write"
        /\ recSig' = [recSig EXCEPT ![w[1]] = w[2]]
    BY <1>1, Zenon DEF WriteRecoveredSig, TypeInv, ThreadsOK
  <2>2. w \notin byHash /\ recSig[w[1]] = NoMsg
    BY <2>1, Zenon DEF CacheInv, FreshWrite, WorkerOnId
  <2> HIDE DEF w
  <2>3. w[1] = i /\ recSig'[i] = w[2]
    BY <2>1, Zenon DEF TypeInv, TypeOK
  <2>4. w = <<w[1], w[2]>>
    BY <2>1 DEF RecSigs
  <2> QED
    BY <2>2, <2>3, <2>4, Zenon
<1>2. CASE UNCHANGED recSig
  BY <1>2, Zenon
<1>3. CASE CleanupWrite \/ TruncateWrite
  <2>1. PICK sigs : recSig' = [j \in Ids |-> IF \E rs \in sigs : rs[1] = j
                                            THEN NoMsg ELSE recSig[j]]
    <3>1. CASE CleanupWrite
      BY <3>1, Zenon DEF CleanupWrite, EraseKeys
    <3>2. CASE TruncateWrite
      BY <3>2, Zenon DEF TruncateWrite, EraseKeys
    <3> QED
      BY <1>3, <3>1, <3>2, Zenon
  <2> QED
    BY <2>1, Zenon
<1>4. UNCHANGED recSig \/ WriteRecoveredSig \/ CleanupWrite \/ TruncateWrite
  BY Zenon DEF Next, Process, Cleanup, vars, dbVars, voteVars, threadVars, cleanupVars,
     HasLookup, HasExists, HasInsert, ReaderStart, EvictFromCache, ReaderDone,
     ProcessRecoveredSig, ProcessKnownHash, ProcessKnownId,
     WriteRecoveredSigCaches, CleanupOldRecoveredSigs, CleanupRemove,
     CleanupOldVotes, CleanupVotesWrite, TruncateRecoveredSig, AsyncSignIfMember,
     WriteVoteForId, Tick, Restart
<1> QED
  BY <1>1, <1>2, <1>3, <1>4, Zenon

\* If every question about an id is asked under CSigningManager::cs (no reader),
\* the first recovered sig of an id is never overwritten by another one.
THEOREM FirstSigWins ==
    ASSUME "reader" \notin Roles
    PROVE  Spec => NoOverwrite
<1>1. TypeInv /\ CacheInv /\ [Next]_vars =>
        [\A i \in Ids : recSig[i] # NoMsg => recSig'[i] \in {recSig[i], NoMsg}]_vars
  BY WriteStep, Zenon
<1> QED
  BY <1>1, CacheInvAlways, PTL DEF Spec, NoOverwrite

\* Under the same condition a truncated sig is known by its hash for as long as
\* its rs_h key lives, and is not written a second time.
THEOREM TruncatedStaysKnown ==
    ASSUME "reader" \notin Roles
    PROVE  Spec => TruncatedNotRewritten
<1>1. TypeInv /\ CacheInv /\ [Next]_vars =>
        [\A rs \in byHash : recSig[rs[1]] = NoMsg => recSig'[rs[1]] # rs[2]]_vars
  <2> SUFFICES ASSUME TypeInv, CacheInv, [Next]_vars, NEW rs \in byHash,
                      recSig[rs[1]] = NoMsg, recSig'[rs[1]] = rs[2]
               PROVE  FALSE
    BY Zenon
  <2>1. rs[1] \in Ids /\ rs[2] \in Msgs /\ rs = <<rs[1], rs[2]>>
    BY DEF TypeInv, TypeOK, RecSigs
  <2>2. rs[2] # NoMsg
    BY <2>1, DbAssumption, Zenon
  <2> QED
    BY <2>1, <2>2, WriteStep, Zenon
<1> QED
  BY <1>1, CacheInvAlways, PTL DEF Spec, TruncatedNotRewritten
=============================================================================
