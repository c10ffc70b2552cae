--------------------------- MODULE QuorumSigning ---------------------------
(***************************************************************************)
(* Threshold signing of ONE request id by the smartnodes of the network    *)
(* (CSigningManager and CSigSharesManager, src/llmq/quorums_signing*.cpp). *)
(* A node votes for a message at most once, asks the quorum its own chain  *)
(* tip selects, exchanges signature shares with the other members and      *)
(* stores the first recovered signature it sees.                           *)
(*                                                                         *)
(* A share is <<quorum, message, member>>, a recovered sig <<quorum,       *)
(* message>> (BLS threshold signatures are unique).  Members that are not  *)
(* Honest may sign anything at any time; shares and sigs are verified, so  *)
(* nothing else can be forged.  The database that this module sees as rec, *)
(* byHash, vote and voteTime is modelled key by key in RecoveredSigsDb.    *)
(***************************************************************************)
EXTENDS Integers, FiniteSets

CONSTANTS
    Honest,     \* the smartnodes that run this code
    Faulty,     \* the smartnodes that may sign anything
    Quorums,    \* quorum hashes
    Members,    \* Members[q]: the valid members of q
    Threshold,  \* Threshold[q]: llmqParams.threshold of q
    MaxHeight,  \* bound on the chain heights
    QuorumAt,   \* QuorumAt[h]: what SelectQuorumForSigning returns at tip h
    NoQuorum,   \* ... when it finds none
    Msgs,       \* message hashes
    NoMsg,      \* no vote
    NoRec,      \* no recovered sig
    MaxAge,     \* -recsigsmaxage, in ticks
    MaxTime,    \* bound on the clock
    MaxFaults   \* bound on restarts and session timeouts

Nodes == Honest \cup Faulty
Heights == 0 .. MaxHeight
Shares == {s \in Quorums \X Msgs \X Nodes : s[3] \in Members[s[1]]}
RecSigs == Quorums \X Msgs
FaultyShares == {s \in Shares : s[3] \in Faulty}

\* S is a set of members of q large enough to recover a signature.
Quorate(q, S) == S \subseteq Members[q] /\ Cardinality(S) >= Threshold[q]

\* Any two sets that can recover a signature of the same quorum have an honest
\* member in common: twice the threshold exceeds the members by more than the
\* faulty ones.
ThresholdIntersects ==
    \A q \in Quorums : \A S1, S2 \in SUBSET Members[q] :
        Quorate(q, S1) /\ Quorate(q, S2) => S1 \cap S2 \cap Honest # {}

ASSUME SigningAssumption ==
    /\ Honest \cap Faulty = {}
    /\ Members \in [Quorums -> SUBSET Nodes]
    /\ \A q \in Quorums : IsFiniteSet(Members[q])
    /\ Threshold \in [Quorums -> Nat]
    /\ MaxHeight \in Nat
    /\ QuorumAt \in [Heights -> Quorums \cup {NoQuorum}]
    /\ NoQuorum \notin Quorums
    /\ NoMsg \notin Msgs
    /\ NoRec \notin RecSigs
    /\ MaxAge \in Nat
    /\ MaxTime \in Nat
    /\ MaxFaults \in Nat

ASSUME IntersectAssumption == ThresholdIntersects

VARIABLES
    now,        \* GetAdjustedTime()
    tip,        \* chain tip height of each honest node
    vote,       \* rs_v: the message the node voted for
    voteTime,   \* rs_vt: when it did
    pending,    \* pendingSigns of each node
    shares,     \* sigShares of each node
    rec,        \* rs_r: the recovered sig each node stores
    recTime,    \* rs_t: since when
    byHash,     \* rs_h: the recovered sigs each node knows by hash
    faults,     \* how many faults have happened
    published,  \* history: the shares honest nodes have made
    voteLog     \* history: <<node, message, time>> of every vote written

dbVars == <<vote, voteTime, rec, recTime, byHash>>
history == <<published, voteLog>>
vars == <<now, tip, vote, voteTime, pending, shares, rec, recTime, byHash,
          faults, published, voteLog>>

Init ==
    /\ now = 0
    /\ tip = [n \in Honest |-> 0]
    /\ vote = [n \in Honest |-> NoMsg]
    /\ voteTime = [n \in Honest |-> 0]
    /\ pending = [n \in Honest |-> {}]
    /\ shares = [n \in Honest |-> {}]
    /\ rec = [n \in Honest |-> NoRec]
    /\ recTime = [n \in Honest |-> 0]
    /\ byHash = [n \in Honest |-> {}]
    /\ faults = 0
    /\ published = {}
    /\ voteLog = {}

-----------------------------------------------------------------------------
(***************************************************************************)
(* Sending and recovering.                                                 *)
(***************************************************************************)
Session(S, rs) == {s \in S : <<s[1], s[2]>> = rs}

\* The signatures anyone who has seen the published shares, and those of the
\* faulty members, can recover.
Recoverable ==
    {rs \in RecSigs : Quorate(rs[1], {s[3] : s \in Session(published \cup FaultyShares, rs)})}

\* ProcessRecoveredSig: a sig that is known by its hash, or comes second for
\* the id, changes nothing; the first one is stored and its session removed.
StoreRecoveredSig(n, rs) ==
    /\ rs \notin byHash[n] /\ rec[n] = NoRec
    /\ rec' = [rec EXCEPT ![n] = rs]
    /\ recTime' = [recTime EXCEPT ![n] = now]
    /\ byHash' = [byHash EXCEPT ![n] = @ \cup {rs}]

\* Mutant: the shares of all sessions are counted together.
M_CountAllSessions(n, s) ==
    LET rs == <<s[1], s[2]>>
        S == shares[n] \cup {s}
    IN  /\ rec[n] = NoRec
        /\ s \notin shares[n]
        /\ published' = published \cup {s}
        /\ IF Quorate(s[1], {x[3] : x \in S}) /\ rs \notin byHash[n]
           THEN /\ StoreRecoveredSig(n, rs)
                /\ shares' = [shares EXCEPT ![n] = S \ Session(S, rs)]
           ELSE /\ shares' = [shares EXCEPT ![n] = S]
                /\ UNCHANGED <<rec, recTime, byHash>>

\* Mutant: a share is stored and not announced.
M_ProcessSigShareSilent(n, s) ==
    LET rs == <<s[1], s[2]>>
        S == shares[n] \cup {s}
    IN  /\ rec[n] = NoRec
        /\ s \notin shares[n]
        /\ UNCHANGED published
        /\ IF Quorate(s[1], {x[3] : x \in Session(S, rs)}) /\ rs \notin byHash[n]
           THEN /\ StoreRecoveredSig(n, rs)
                /\ shares' = [shares EXCEPT ![n] = S \ Session(S, rs)]
           ELSE /\ shares' = [shares EXCEPT ![n] = S]
                /\ UNCHANGED <<rec, recTime, byHash>>

\* ProcessSigShare and TryRecoverSig: add the share, announce it and recover
\* the signature once the session has enough shares.
ProcessSigShare(n, s) ==
    LET rs == <<s[1], s[2]>>
        S == shares[n] \cup {s}
    IN  /\ rec[n] = NoRec
        /\ s \notin shares[n]
        /\ published' = published \cup {s}
        /\ IF Quorate(s[1], {x[3] : x \in Session(S, rs)}) /\ rs \notin byHash[n]
           THEN /\ StoreRecoveredSig(n, rs)
                /\ shares' = [shares EXCEPT ![n] = S \ Session(S, rs)]
           ELSE /\ shares' = [shares EXCEPT ![n] = S]
                /\ UNCHANGED <<rec, recTime, byHash>>

-----------------------------------------------------------------------------
(***************************************************************************)
(* The steps of a node.                                                    *)
(***************************************************************************)
\* Mutant: a failed quorum selection is not noticed.
M_SignUnknownQuorum(n, m, allowReSign) ==
    LET q == QuorumAt[tip[n]]
        signs == q = NoQuorum \/ n \in Members[q]
    IN  /\ vote[n] = NoMsg \/ (vote[n] = m /\ allowReSign)
        /\ rec[n] = NoRec
        /\ IF vote[n] = NoMsg
           THEN /\ vote' = [vote EXCEPT ![n] = m]
                /\ voteTime' = [voteTime EXCEPT ![n] = now]
                /\ voteLog' = voteLog \cup {<<n, m, now>>}
           ELSE UNCHANGED <<vote, voteTime, voteLog>>
        /\ pending' = IF signs THEN [pending EXCEPT ![n] = @ \cup {<<q, m>>}] ELSE pending
        /\ UNCHANGED <<now, tip, shares, rec, recTime, byHash, faults, published>>

\* Mutant: allowReSign skips the comparison with the earlier vote.
M_ReSignAnything(n, m, allowReSign) ==
    LET q == QuorumAt[tip[n]]
        signs == q # NoQuorum /\ n \in Members[q]
    IN  /\ vote[n] = NoMsg \/ allowReSign
        /\ rec[n] = NoRec
        /\ IF vote[n] = NoMsg
           THEN /\ vote' = [vote EXCEPT ![n] = m]
                /\ voteTime' = [voteTime EXCEPT ![n] = now]
                /\ voteLog' = voteLog \cup {<<n, m, now>>}
           ELSE UNCHANGED <<vote, voteTime, voteLog>>
        /\ pending' = IF signs THEN [pending EXCEPT ![n] = @ \cup {<<q, m>>}] ELSE pending
        /\ UNCHANGED <<now, tip, shares, rec, recTime, byHash, faults, published>>

\* AsyncSignIfMember, in the cases in which it does not return early: no vote
\* yet, or the same vote again with allowReSign, and no recovered sig.  The
\* vote is written before the quorum is selected.
AsyncSignIfMember(n, m, allowReSign) ==
    LET q == QuorumAt[tip[n]]
        signs == q # NoQuorum /\ n \in Members[q]
    IN  /\ vote[n] = NoMsg \/ (vote[n] = m /\ allowReSign)
        /\ rec[n] = NoRec
        /\ IF vote[n] = NoMsg
           THEN /\ vote' = [vote EXCEPT ![n] = m]
                /\ voteTime' = [voteTime EXCEPT ![n] = now]
                /\ voteLog' = voteLog \cup {<<n, m, now>>}
           ELSE UNCHANGED <<vote, voteTime, voteLog>>
        /\ pending' = IF signs THEN [pending EXCEPT ![n] = @ \cup {<<q, m>>}] ELSE pending
        /\ UNCHANGED <<now, tip, shares, rec, recTime, byHash, faults, published>>

\* SignPendingSigShares: make our share, process it and push it to the others.
Sign(n, rs) ==
    LET s == <<rs[1], rs[2], n>> IN
    /\ rs \in pending[n]
    /\ pending' = [pending EXCEPT ![n] = @ \ {rs}]
    /\ \/ ProcessSigShare(n, s)
       \/ /\ rec[n] # NoRec \/ s \in shares[n]
          /\ UNCHANGED <<shares, rec, recTime, byHash, published>>
    /\ UNCHANGED <<now, tip, vote, voteTime, faults, voteLog>>

\* A verified share, delivered by any member that has it, in any order and
\* as often as it likes; one that cannot be used is dropped.
ReceiveShare(n, s) ==
    /\ s \in published \cup FaultyShares
    /\ n \in Members[s[1]]
    /\ ProcessSigShare(n, s)
    /\ UNCHANGED <<now, tip, vote, voteTime, pending, faults, voteLog>>

\* A verified QSIGREC, or one reconstructed from an ISLOCK or a CLSIG.
ReceiveRecoveredSig(n, rs) ==
    /\ rs \in Recoverable
    /\ StoreRecoveredSig(n, rs)
    /\ shares' = [shares EXCEPT ![n] = @ \ Session(@, rs)]
    /\ UNCHANGED <<now, tip, vote, voteTime, pending, faults, published, voteLog>>

\* Mutant: votes expire one tick early.
M_CleanupVotesEarly(n) ==
    /\ vote[n] # NoMsg /\ now - voteTime[n] >= MaxAge
    /\ vote' = [vote EXCEPT ![n] = NoMsg]
    /\ voteTime' = [voteTime EXCEPT ![n] = 0]
    /\ UNCHANGED <<now, tip, pending, shares, rec, recTime, byHash,
                   faults, history>>

\* CleanupOldVotes and CleanupOldRecoveredSigs.
CleanupOldVotes(n) ==
    /\ vote[n] # NoMsg /\ now - voteTime[n] > MaxAge
    /\ vote' = [vote EXCEPT ![n] = NoMsg]
    /\ voteTime' = [voteTime EXCEPT ![n] = 0]
    /\ UNCHANGED <<now, tip, pending, shares, rec, recTime, byHash,
                   faults, history>>

CleanupOldRecoveredSigs(n) ==
    /\ rec[n] # NoRec /\ now - recTime[n] > MaxAge
    /\ rec' = [rec EXCEPT ![n] = NoRec]
    /\ recTime' = [recTime EXCEPT ![n] = 0]
    /\ byHash' = [byHash EXCEPT ![n] = @ \ {rec[n]}]
    /\ UNCHANGED <<now, tip, vote, voteTime, pending, shares, faults, history>>

\* InstantSend drops the sig and keeps the rs_h key.
TruncateRecoveredSig(n) ==
    /\ rec[n] # NoRec
    /\ rec' = [rec EXCEPT ![n] = NoRec]
    /\ recTime' = [recTime EXCEPT ![n] = 0]
    /\ UNCHANGED <<now, tip, vote, voteTime, pending, shares, byHash, faults, history>>

\* Cleanup of CSigSharesManager: no new share for SESSION_NEW_SHARES_TIMEOUT.
SessionTimeout(n, rs) ==
    /\ Session(shares[n], rs) # {}
    /\ faults < MaxFaults
    /\ faults' = faults + 1
    /\ shares' = [shares EXCEPT ![n] = @ \ Session(@, rs)]
    /\ UNCHANGED <<now, tip, dbVars, pending, history>>

\* A restart loses everything that is not in the database.
Restart(n) ==
    /\ faults < MaxFaults
    /\ faults' = faults + 1
    /\ pending' = [pending EXCEPT ![n] = {}]
    /\ shares' = [shares EXCEPT ![n] = {}]
    /\ UNCHANGED <<now, tip, dbVars, history>>

\* UpdatedBlockTip: a new block may change the quorum the node selects.
NewBlock(n) ==
    /\ tip[n] < MaxHeight
    /\ tip' = [tip EXCEPT ![n] = @ + 1]
    /\ UNCHANGED <<now, dbVars, pending, shares, faults, history>>

-----------------------------------------------------------------------------
(* The environment. *)
Tick ==
    /\ now < MaxTime
    /\ now' = now + 1
    /\ UNCHANGED <<tip, dbVars, pending, shares, faults, history>>

NodeStep(n) ==
    \/ \E m \in Msgs, allowReSign \in BOOLEAN : AsyncSignIfMember(n, m, allowReSign)
    \/ \E rs \in RecSigs : Sign(n, rs) \/ ReceiveRecoveredSig(n, rs) \/ SessionTimeout(n, rs)
    \/ \E s \in Shares : ReceiveShare(n, s)
    \/ CleanupOldVotes(n) \/ CleanupOldRecoveredSigs(n) \/ TruncateRecoveredSig(n)
    \/ Restart(n) \/ NewBlock(n)

Next ==
    \/ \E n \in Honest : NodeStep(n)
    \/ Tick

Spec == Init /\ [][Next]_vars

-----------------------------------------------------------------------------
(***************************************************************************)
(* Properties.                                                             *)
(***************************************************************************)

\* Every variable holds values of its type; in particular a node only queues
\* shares for quorums that exist.
TypeOK ==
    /\ now \in 0 .. MaxTime
    /\ tip \in [Honest -> Heights]
    /\ vote \in [Honest -> Msgs \cup {NoMsg}]
    /\ voteTime \in [Honest -> 0 .. MaxTime]
    /\ pending \in [Honest -> SUBSET RecSigs]
    /\ shares \in [Honest -> SUBSET Shares]
    /\ rec \in [Honest -> RecSigs \cup {NoRec}]
    /\ recTime \in [Honest -> 0 .. MaxTime]
    /\ byHash \in [Honest -> SUBSET RecSigs]
    /\ faults \in 0 .. MaxFaults
    /\ published \subseteq Shares
    /\ voteLog \subseteq Honest \X Msgs \X (0 .. MaxTime)

\* A smartnode votes for two different messages of the same id only if more
\* than -recsigsmaxage lies between the two votes, restarts or not.
VotesApart ==
    \A v1, v2 \in voteLog : v1[1] = v2[1] /\ v1[2] # v2[2] =>
        v1[3] - v2[3] > MaxAge \/ v2[3] - v1[3] > MaxAge

\* A smartnode never signs a message it has not voted for, whichever quorum it
\* signs for and however late the pending share is made.
SharesVoted ==
    \A s \in published : s[3] \in Honest => \E v \in voteLog : v[1] = s[3] /\ v[2] = s[2]

\* Every sig a node has ever accepted has the shares of at least Threshold
\* members of its own quorum behind it, all for its own message.
RecoveredByThreshold == \A n \in Honest : byHash[n] \subseteq Recoverable

\* Two conflicting recovered sigs of one quorum need an honest member whose
\* first vote expired before it voted again: "a majority is only possible on
\* one quorum and one msgHash per id" for as long as no vote is cleaned up.
ConflictNeedsExpiredVote ==
    \A r1, r2 \in Recoverable : r1[1] = r2[1] /\ r1[2] # r2[2] =>
        \E v1, v2 \in voteLog :
            /\ v1[1] = v2[1] /\ v1[1] \in Members[r1[1]]
            /\ v1[2] = r1[2] /\ v2[2] = r2[2]
            /\ v1[3] - v2[3] > MaxAge \/ v2[3] - v1[3] > MaxAge

\* The whole claim of the comment in ProcessRecoveredSig, quorums that differ
\* between members included: one msgHash per id before any vote is cleaned up.
OneSigPerId ==
    now <= MaxAge => \A r1, r2 \in Recoverable : r1[2] = r2[2]

\* The network implements the abstract signing service, which signs at most
\* one message per quorum until votes may have been cleaned up.
Abstract == INSTANCE OneSigPerQuorum WITH signed <- Recoverable, expired <- now > MaxAge
ImplementsOneSigPerQuorum == Abstract!Spec
=============================================================================
