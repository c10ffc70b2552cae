-------------------------- MODULE RecoveredSigsDb --------------------------
(***************************************************************************)
(* CRecoveredSigsDb (src/llmq/quorums_signing.{h,cpp}): the LevelDB keys   *)
(* that remember recovered signatures and votes, the three in-memory       *)
(* caches in front of them, and the threads of one node that use them:     *)
(*   worker     the sig-shares thread: ProcessRecoveredSig and Cleanup;    *)
(*   signer     any thread inside AsyncSignIfMember;                       *)
(*   truncater  the InstantSend threads that call TruncateRecoveredSig;    *)
(*   reader     the message thread that calls one of the Has... methods.   *)
(* A recovered signature is the pair <<id, msg>>: its object hash and its  *)
(* sign hash are injective functions of it.  A step is one critical        *)
(* section or one database call.                                           *)
(***************************************************************************)
EXTENDS Integers

CONSTANTS
    Ids,        \* request ids
    Msgs,       \* message hashes
    NoMsg,      \* absence of a recovered sig or of a vote
    Roles,      \* the threads that run, a subset of AllRoles
    MaxAge,     \* -recsigsmaxage, in ticks
    MaxTime     \* bound on the clock

AllRoles == {"worker", "signer", "truncater", "reader"}

ASSUME DbAssumption ==
    /\ NoMsg \notin Msgs
    /\ Roles \subseteq AllRoles
    /\ MaxAge \in Nat
    /\ MaxTime \in Nat

VARIABLES
    now,        \* GetAdjustedTime()
    recSig,     \* rs_r(id): the recovered sig stored for the id
    recTime,    \* rs_r(id, msgHash): the time it was written
    byHash,     \* rs_h keys
    bySession,  \* rs_s keys
    timeKeys,   \* rs_t(time, id) keys
    vote,       \* rs_v(id)
    voteTimes,  \* rs_vt(time, id) keys
    cache,      \* hasSigForIdCache, hasSigForSessionCache, hasSigForHashCache
    cs,         \* holder of CSigningManager::cs
    dbCs,       \* holder of CRecoveredSigsDb::cs across several steps
    pc,         \* where each thread is
    arg,        \* the recovered sig (or id and message) each thread works on
    key,        \* the key each thread asks for
    ans,        \* the local variable ret (and hasVoted, for the signer)
    scanned,    \* the time keys the cleanup in progress has collected
    batch       \* the recovered sigs in the CDBBatch of the cleanup

dbVars == <<recSig, recTime, byHash, bySession, timeKeys>>
voteVars == <<vote, voteTimes>>
threadVars == <<pc, arg, key, ans>>
cleanupVars == <<scanned, batch>>
vars == <<now, dbVars, voteVars, cache, cs, dbCs, threadVars, cleanupVars>>

RecSigs == Ids \X Msgs
Time == 0 .. MaxTime
NoTime == -1
Free == "free"
NoArg == <<>>

\* What a thread can ask for: rs_r by id, rs_s by sign hash, rs_h by hash.
Keys == ({"id"} \X Ids \X {NoMsg}) \cup ({"session", "hash"} \X Ids \X Msgs)

IdKey(rs) == <<"id", rs[1], NoMsg>>
SessionKey(rs) == <<"session", rs[1], rs[2]>>
HashKey(rs) == <<"hash", rs[1], rs[2]>>

PCs == {"idle", "lookup", "exists", "insert", "answered", "write", "fill",
        "remove", "erase", "votes", "eraseVotes", "truncate"}

Init ==
    /\ now = 0
    /\ recSig = [i \in Ids |-> NoMsg]
    /\ recTime = [rs \in RecSigs |-> NoTime]
    /\ byHash = {}
    /\ bySession = {}
    /\ timeKeys = {}
    /\ vote = [i \in Ids |-> NoMsg]
    /\ voteTimes = {}
    /\ cache = [k \in Keys |-> "miss"]
    /\ cs = Free
    /\ dbCs = Free
    /\ pc = [r \in Roles |-> "idle"]
    /\ arg = [r \in Roles |-> NoArg]
    /\ key = [r \in Roles |-> NoArg]
    /\ ans = [r \in Roles |-> "miss"]
    /\ scanned = {}
    /\ batch = {}

-----------------------------------------------------------------------------
(***************************************************************************)
(* The three Has... methods: look into the cache under cs; on a miss ask   *)
(* the database without the lock, then fill the cache under cs again.      *)
(***************************************************************************)
DbExists(k) ==
    CASE k[1] = "id" -> recSig[k[2]] # NoMsg
      [] k[1] = "session" -> <<k[2], k[3]>> \in bySession
      [] k[1] = "hash" -> <<k[2], k[3]>> \in byHash

HasLookup(r) ==
    /\ pc[r] = "lookup"
    /\ dbCs = Free
    /\ IF cache[key[r]] = "miss"
       THEN /\ pc' = [pc EXCEPT ![r] = "exists"]
            /\ UNCHANGED ans
       ELSE /\ pc' = [pc EXCEPT ![r] = "answered"]
            /\ ans' = [ans EXCEPT ![r] = cache[key[r]]]
    /\ UNCHANGED <<now, dbVars, voteVars, cache, cs, dbCs, arg, key, cleanupVars>>

HasExists(r) ==
    /\ pc[r] = "exists"
    /\ ans' = [ans EXCEPT ![r] = IF DbExists(key[r]) THEN "yes" ELSE "no"]
    /\ pc' = [pc EXCEPT ![r] = "insert"]
    /\ UNCHANGED <<now, dbVars, voteVars, cache, cs, dbCs, arg, key, cleanupVars>>

HasInsert(r) ==
    /\ pc[r] = "insert"
    /\ dbCs = Free
    /\ cache' = [cache EXCEPT ![key[r]] = ans[r]]
    /\ pc' = [pc EXCEPT ![r] = "answered"]
    /\ UNCHANGED <<now, dbVars, voteVars, cs, dbCs, arg, key, ans, cleanupVars>>

\* The thread goes back to its caller; its locals disappear.
Return(r) ==
    /\ pc' = [pc EXCEPT ![r] = "idle"]
    /\ arg' = [arg EXCEPT ![r] = NoArg]
    /\ key' = [key EXCEPT ![r] = NoArg]
    /\ ans' = [ans EXCEPT ![r] = "miss"]

\* Thread r calls the Has... method of key k on behalf of a.
Ask(r, a, k) ==
    /\ pc' = [pc EXCEPT ![r] = "lookup"]
    /\ arg' = [arg EXCEPT ![r] = a]
    /\ key' = [key EXCEPT ![r] = k]
    /\ ans' = [ans EXCEPT ![r] = "miss"]

ReaderStart(k) ==
    /\ "reader" \in Roles
    /\ pc["reader"] = "idle"
    /\ Ask("reader", NoArg, k)
    /\ UNCHANGED <<now, dbVars, voteVars, cache, cs, dbCs, cleanupVars>>

ReaderDone ==
    /\ "reader" \in Roles
    /\ pc["reader"] = "answered"
    /\ Return("reader")
    /\ UNCHANGED <<now, dbVars, voteVars, cache, cs, dbCs, cleanupVars>>

\* unordered_lru_cache drops entries when it is full.
EvictFromCache(k) ==
    /\ cache[k] # "miss"
    /\ dbCs = Free
    /\ cache' = [cache EXCEPT ![k] = "miss"]
    /\ UNCHANGED <<now, dbVars, voteVars, cs, dbCs, threadVars, cleanupVars>>

-----------------------------------------------------------------------------
(***************************************************************************)
(* The worker: ProcessRecoveredSig(recSig).                                *)
(***************************************************************************)
ProcessRecoveredSig(rs) ==
    /\ "worker" \in Roles
    /\ pc["worker"] = "idle"
    /\ Ask("worker", rs, HashKey(rs))
    /\ UNCHANGED <<now, dbVars, voteVars, cache, cs, dbCs, cleanupVars>>

\* "if (db.HasRecoveredSigForHash(...)) return", else take CSigningManager::cs.
ProcessKnownHash ==
    /\ "worker" \in Roles
    /\ pc["worker"] = "answered"
    /\ key["worker"] = HashKey(arg["worker"])
    /\ IF ans["worker"] = "yes"
       THEN /\ Return("worker")
            /\ UNCHANGED cs
       ELSE /\ cs = Free
            /\ cs' = "worker"
            /\ Ask("worker", arg["worker"], IdKey(arg["worker"]))
    /\ UNCHANGED <<now, dbVars, voteVars, cache, dbCs, cleanupVars>>

\* HasRecoveredSigForId said yes and GetRecoveredSigById finds it: bail out.
ProcessKnownId ==
    /\ "worker" \in Roles
    /\ pc["worker"] = "answered"
    /\ key["worker"] = IdKey(arg["worker"])
    /\ IF ans["worker"] = "yes" /\ recSig[arg["worker"][1]] # NoMsg
       THEN /\ Return("worker")
            /\ cs' = Free
       ELSE /\ pc' = [pc EXCEPT !["worker"] = "write"]
            /\ UNCHANGED <<cs, arg, key, ans>>
    /\ UNCHANGED <<now, dbVars, voteVars, cache, dbCs, cleanupVars>>

\* The five keys go to the database in one batch ...
WriteRecoveredSig ==
    /\ "worker" \in Roles
    /\ pc["worker"] = "write"
    /\ LET rs == arg["worker"] IN
       /\ recSig' = [recSig EXCEPT ![rs[1]] = rs[2]]
       /\ recTime' = [recTime EXCEPT ![rs] = now]
       /\ byHash' = byHash \cup {rs}
       /\ bySession' = bySession \cup {rs}
       /\ timeKeys' = timeKeys \cup {<<now, rs[1]>>}
    /\ pc' = [pc EXCEPT !["worker"] = "fill"]
    /\ UNCHANGED <<now, voteVars, cache, cs, dbCs, arg, key, ans, cleanupVars>>

\* Mutant: hasSigForIdCache is not refreshed by a write.
M_WriteNoIdCache ==
    /\ "worker" \in Roles
    /\ pc["worker"] = "fill"
    /\ dbCs = Free
    /\ LET rs == arg["worker"] IN
       cache' = [cache EXCEPT ![SessionKey(rs)] = "yes", ![HashKey(rs)] = "yes"]
    /\ cs' = Free
    /\ Return("worker")
    /\ UNCHANGED <<now, dbVars, voteVars, dbCs, cleanupVars>>

\* Mutant: hasSigForHashCache is not refreshed by a write.
M_WriteNoHashCache ==
    /\ "worker" \in Roles
    /\ pc["worker"] = "fill"
    /\ dbCs = Free
    /\ LET rs == arg["worker"] IN
       cache' = [cache EXCEPT ![IdKey(rs)] = "yes", ![SessionKey(rs)] = "yes"]
    /\ cs' = Free
    /\ Return("worker")
    /\ UNCHANGED <<now, dbVars, voteVars, dbCs, cleanupVars>>

\* ... and only then are the caches filled.
WriteRecoveredSigCaches ==
    /\ "worker" \in Roles
    /\ pc["worker"] = "fill"
    /\ dbCs = Free
    /\ LET rs == arg["worker"] IN
       cache' = [cache EXCEPT ![IdKey(rs)] = "yes", ![SessionKey(rs)] = "yes",
                              ![HashKey(rs)] = "yes"]
    /\ cs' = Free
    /\ Return("worker")
    /\ UNCHANGED <<now, dbVars, voteVars, dbCs, cleanupVars>>

-----------------------------------------------------------------------------
(***************************************************************************)
(* Removal.  RemoveRecoveredSig(batch, ...) reads the sig, erases the      *)
(* cache entries and puts the erasures into a batch the caller writes.     *)
(***************************************************************************)
\* Mutant: the result of ReadRecoveredSig is not looked at.
M_StoredUnchecked(ids) == {<<i, recSig[i]>> : i \in ids}

Stored(ids) == {<<i, recSig[i]>> : i \in {j \in ids : recSig[j] # NoMsg}}

EraseCaches(sigs, deleteHashKey) ==
    cache' = [k \in Keys |->
                IF \E rs \in sigs : k \in {IdKey(rs), SessionKey(rs)}
                                    \/ (deleteHashKey /\ k = HashKey(rs))
                THEN "miss" ELSE cache[k]]

EraseKeys(sigs, deleteHashKey, times) ==
    /\ recSig' = [i \in Ids |-> IF \E rs \in sigs : rs[1] = i
                                THEN NoMsg ELSE recSig[i]]
    /\ recTime' = [rs \in RecSigs |-> IF rs \in sigs THEN NoTime ELSE recTime[rs]]
    /\ byHash' = IF deleteHashKey THEN byHash \ sigs ELSE byHash
    /\ bySession' = bySession \ sigs
    /\ timeKeys' = timeKeys \ times

\* TruncateRecoveredSig holds db.cs from the read to the write of the batch.
TruncateRecoveredSig(i) ==
    /\ "truncater" \in Roles
    /\ pc["truncater"] = "idle"
    /\ dbCs = Free
    /\ recSig[i] # NoMsg
    /\ dbCs' = "truncater"
    /\ arg' = [arg EXCEPT !["truncater"] = <<i, recSig[i]>>]
    /\ pc' = [pc EXCEPT !["truncater"] = "truncate"]
    /\ EraseCaches(Stored({i}), FALSE)
    /\ UNCHANGED <<now, dbVars, voteVars, cs, key, ans, cleanupVars>>

TruncateWrite ==
    /\ "truncater" \in Roles
    /\ pc["truncater"] = "truncate"
    /\ EraseKeys({arg["truncater"]}, FALSE, {})
    /\ dbCs' = Free
    /\ Return("truncater")
    /\ UNCHANGED <<now, voteVars, cache, cs, cleanupVars>>

\* Keys older than maxAge: the iteration stops at endTime = now - maxAge.
\* Mutant: the iteration also takes the keys of endTime itself.
M_ExpiredInclusive(times) == {tk \in times : tk[1] <= now - MaxAge}

Expired(times) == {tk \in times : tk[1] < now - MaxAge}

CleanupOldRecoveredSigs ==
    /\ "worker" \in Roles
    /\ pc["worker"] = "idle"
    /\ Expired(timeKeys) # {} \/ Expired(voteTimes) # {}
    /\ scanned' = Expired(timeKeys)
    /\ pc' = [pc EXCEPT !["worker"] = IF Expired(timeKeys) = {}
                                     THEN "votes" ELSE "remove"]
    /\ UNCHANGED <<now, dbVars, voteVars, cache, cs, dbCs, arg, key, ans, batch>>

\* Mutant: the batch with the erasures of the sigs is lost.
M_CleanupRemoveLost ==
    /\ "worker" \in Roles
    /\ pc["worker"] = "remove"
    /\ dbCs = Free
    /\ EraseCaches(Stored({tk[2] : tk \in scanned}), TRUE)
    /\ pc' = [pc EXCEPT !["worker"] = "erase"]
    /\ UNCHANGED <<now, dbVars, voteVars, cs, dbCs, arg, key, ans, scanned, batch>>

CleanupRemove ==
    /\ "worker" \in Roles
    /\ pc["worker"] = "remove"
    /\ dbCs = Free
    /\ batch' = Stored({tk[2] : tk \in scanned})
    /\ EraseCaches(Stored({tk[2] : tk \in scanned}), TRUE)
    /\ pc' = [pc EXCEPT !["worker"] = "erase"]
    /\ UNCHANGED <<now, dbVars, voteVars, cs, dbCs, arg, key, ans, scanned>>

\* The batch is written after db.cs has been released.
CleanupWrite ==
    /\ "worker" \in Roles
    /\ pc["worker"] = "erase"
    /\ EraseKeys(batch, TRUE, scanned)
    /\ scanned' = {}
    /\ batch' = {}
    /\ pc' = [pc EXCEPT !["worker"] = "votes"]
    /\ UNCHANGED <<now, voteVars, cache, cs, dbCs, arg, key, ans>>

\* CleanupOldVotes: collect the expired rs_vt keys, then erase them together
\* with the votes they belong to.
CleanupOldVotes ==
    /\ "worker" \in Roles
    /\ pc["worker"] = "votes"
    /\ IF Expired(voteTimes) = {}
       THEN /\ pc' = [pc EXCEPT !["worker"] = "idle"]
            /\ UNCHANGED scanned
       ELSE /\ pc' = [pc EXCEPT !["worker"] = "eraseVotes"]
            /\ scanned' = Expired(voteTimes)
    /\ UNCHANGED <<now, dbVars, voteVars, cache, cs, dbCs, arg, key, ans, batch>>

\* Mutant: the rs_vt keys are left behind.
M_CleanupVotesKeepTimes ==
    /\ "worker" \in Roles
    /\ pc["worker"] = "eraseVotes"
    /\ vote' = [i \in Ids |-> IF \E tk \in scanned : tk[2] = i
                              THEN NoMsg ELSE vote[i]]
    /\ scanned' = {}
    /\ pc' = [pc EXCEPT !["worker"] = "idle"]
    /\ UNCHANGED <<now, dbVars, voteTimes, cache, cs, dbCs, arg, key, ans, batch>>

CleanupVotesWrite ==
    /\ "worker" \in Roles
    /\ pc["worker"] = "eraseVotes"
    /\ voteTimes' = voteTimes \ scanned
    /\ vote' = [i \in Ids |-> IF \E tk \in scanned : tk[2] = i
                              THEN NoMsg ELSE vote[i]]
    /\ scanned' = {}
    /\ pc' = [pc EXCEPT !["worker"] = "idle"]
    /\ UNCHANGED <<now, dbVars, cache, cs, dbCs, arg, key, ans, batch>>

-----------------------------------------------------------------------------
(***************************************************************************)
(* AsyncSignIfMember up to the end of its critical section.  A member that *)
(* voted for another message, or for the same one without allowReSign,     *)
(* returns at once and changes nothing.  arg remembers hasVoted.           *)
(***************************************************************************)
AsyncSignIfMember(i, m, allowReSign) ==
    /\ "signer" \in Roles
    /\ pc["signer"] = "idle"
    /\ cs = Free
    /\ vote[i] = NoMsg \/ (vote[i] = m /\ allowReSign)
    /\ cs' = "signer"
    /\ Ask("signer", <<i, m, vote[i] # NoMsg>>, <<"id", i, NoMsg>>)
    /\ UNCHANGED <<now, dbVars, voteVars, cache, dbCs, cleanupVars>>

\* No vote when a recovered sig is known; otherwise WriteVoteForId.
WriteVoteForId ==
    /\ "signer" \in Roles
    /\ pc["signer"] = "answered"
    /\ LET i == arg["signer"][1]
           writes == ans["signer"] = "no" /\ ~arg["signer"][3] IN
       /\ vote' = IF writes THEN [vote EXCEPT ![i] = arg["signer"][2]] ELSE vote
       /\ voteTimes' = IF writes THEN voteTimes \cup {<<now, i>>} ELSE voteTimes
    /\ cs' = Free
    /\ Return("signer")
    /\ UNCHANGED <<now, dbVars, cache, dbCs, cleanupVars>>

-----------------------------------------------------------------------------
Tick ==
    /\ now < MaxTime
    /\ now' = now + 1
    /\ UNCHANGED <<dbVars, voteVars, cache, cs, dbCs, threadVars, cleanupVars>>

\* The process dies at any point and starts again: only LevelDB survives.
Restart ==
    /\ \E r \in Roles : pc[r] # "idle"
    /\ cache' = [k \in Keys |-> "miss"]
    /\ cs' = Free
    /\ dbCs' = Free
    /\ pc' = [r \in Roles |-> "idle"]
    /\ arg' = [r \in Roles |-> NoArg]
    /\ key' = [r \in Roles |-> NoArg]
    /\ ans' = [r \in Roles |-> "miss"]
    /\ scanned' = {}
    /\ batch' = {}
    /\ UNCHANGED <<now, dbVars, voteVars>>

Cleanup ==
    \/ CleanupOldRecoveredSigs \/ CleanupRemove \/ CleanupWrite
    \/ CleanupOldVotes \/ CleanupVotesWrite

Process ==
    \/ \E rs \in RecSigs : ProcessRecoveredSig(rs)
    \/ ProcessKnownHash \/ ProcessKnownId
    \/ WriteRecoveredSig \/ WriteRecoveredSigCaches

Next ==
    \/ \E r \in Roles : HasLookup(r) \/ HasExists(r) \/ HasInsert(r)
    \/ \E k \in Keys : ReaderStart(k) \/ EvictFromCache(k)
    \/ ReaderDone
    \/ Process
    \/ Cleanup
    \/ \E i \in Ids : TruncateRecoveredSig(i)
    \/ TruncateWrite
    \/ \E i \in Ids, m \in Msgs, allowReSign \in BOOLEAN :
          AsyncSignIfMember(i, m, allowReSign)
    \/ WriteVoteForId
    \/ Tick
    \/ Restart

Spec == Init /\ [][Next]_vars

-----------------------------------------------------------------------------
(***************************************************************************)
(* Properties.                                                             *)
(***************************************************************************)

\* Every variable holds values of its type; in particular the cleanup batch
\* only names recovered sigs that were read from the database.
TypeOK ==
    /\ now \in Time
    /\ recSig \in [Ids -> Msgs \cup {NoMsg}]
    /\ recTime \in [RecSigs -> Time \cup {NoTime}]
    /\ byHash \subseteq RecSigs
    /\ bySession \subseteq RecSigs
    /\ timeKeys \subseteq Time \X Ids
    /\ vote \in [Ids -> Msgs \cup {NoMsg}]
    /\ voteTimes \subseteq Time \X Ids
    /\ cache \in [Keys -> {"miss", "yes", "no"}]
    /\ cs \in {Free, "worker", "signer"}
    /\ dbCs \in {Free, "truncater"}
    /\ pc \in [Roles -> PCs]
    /\ arg \in [Roles -> {NoArg} \cup RecSigs \cup (Ids \X Msgs \X BOOLEAN)]
    /\ key \in [Roles -> {NoArg} \cup Keys]
    /\ ans \in [Roles -> {"miss", "yes", "no"}]
    /\ scanned \subseteq Time \X Ids
    /\ batch \subseteq RecSigs

\* A stored recovered sig has the rs_t key of its write time, through crashes,
\* truncations and cleanups: CleanupOldRecoveredSigs, which starts from rs_t
\* keys, will find it, so the database cannot fill with unreachable sigs.
SigReachableByCleanup ==
    \A i \in Ids : recSig[i] # NoMsg =>
        <<recTime[<<i, recSig[i]>>], i>> \in timeKeys

\* A vote and its rs_vt key live and die together, and an id never has two:
\* otherwise CleanupOldVotes would erase a fresh vote or keep an old one forever.
VotesPaired ==
    /\ \A tk \in voteTimes : vote[tk[2]] # NoMsg
    /\ \A i \in Ids : vote[i] # NoMsg => \E tk \in voteTimes : tk[2] = i
    /\ \A tk1, tk2 \in voteTimes : tk1[2] = tk2[2] => tk1 = tk2

\* A vote is never replaced by a vote for another message, and it is only
\* erased once it is older than -recsigsmaxage, restarts included.
VoteKept ==
    [][\A i \in Ids : vote[i] # NoMsg /\ vote'[i] # vote[i] =>
          /\ vote'[i] = NoMsg
          /\ \A tk \in voteTimes : tk[2] = i => now - tk[1] > MaxAge]_vars

\* The first recovered sig of an id wins: ProcessRecoveredSig returns when the
\* id already has one and never overwrites it with another.
NoOverwrite ==
    [][\A i \in Ids : recSig[i] # NoMsg => recSig'[i] \in {recSig[i], NoMsg}]_vars

\* "This will leave the byHash key in-place so that HasRecoveredSigForHash
\* still returns true": a sig whose rs_h key is there is not processed, and
\* so not written, a second time after it was truncated.
TruncatedNotRewritten ==
    [][\A rs \in byHash : recSig[rs[1]] = NoMsg => recSig'[rs[1]] # rs[2]]_vars
=============================================================================
