------------------------ MODULE QuorumSigningProofs ------------------------
(***************************************************************************)
(* Machine-checked proofs about QuorumSigning, for every set of smartnodes *)
(* and quorums in which two signing majorities of a quorum share an honest *)
(* member (IntersectAssumption), and every number of restarts.             *)
(***************************************************************************)
EXTENDS QuorumSigning, FiniteSetTheorems, TLAPS

\* A node only queues shares for quorums it belongs to, and the shares it
\* holds have been published.
LocalsOK ==
    \A n \in Honest :
        /\ \A rs \in pending[n] : n \in Members[rs[1]]
        /\ shares[n] \subseteq published

TypeInv == TypeOK /\ LocalsOK

LEMMA SessionOf ==
    ASSUME NEW S, NEW rs, NEW s \in Session(S, rs)
    PROVE  s \in S /\ s[1] = rs[1] /\ s[2] = rs[2]
  BY DEF Session

LEMMA TypeInit == Init => TypeInv
  BY SigningAssumption DEF Init, TypeInv, TypeOK, LocalsOK, Heights

\* What ProcessSigShare and StoreRecoveredSig do to the types.
LEMMA ProcessSigShareType ==
    ASSUME TypeInv, NEW n \in Honest, NEW s \in Shares, ProcessSigShare(n, s)
    PROVE  /\ shares' \in [Honest -> SUBSET Shares]
           /\ rec' \in [Honest -> RecSigs \cup {NoRec}]
           /\ recTime' \in [Honest -> 0 .. MaxTime]
           /\ byHash' \in [Honest -> SUBSET RecSigs]
           /\ published' \subseteq Shares
           /\ published' = published \cup {s}
           /\ \A x \in Honest : shares'[x] \subseteq published'
<1>1. <<s[1], s[2]>> \in RecSigs
  BY Zenon DEF Shares, RecSigs
<1>2. published' = published \cup {s}
  BY Zenon DEF ProcessSigShare
<1>3. /\ shares' \in [Honest -> SUBSET Shares]
      /\ \A x \in Honest : shares'[x] \subseteq published'
  BY <1>2 DEF ProcessSigShare, TypeInv, TypeOK, LocalsOK
<1>4. /\ rec' \in [Honest -> RecSigs \cup {NoRec}]
      /\ recTime' \in [Honest -> 0 .. MaxTime]
      /\ byHash' \in [Honest -> SUBSET RecSigs]
  BY <1>1 DEF ProcessSigShare, StoreRecoveredSig, TypeInv, TypeOK
<1> QED
  BY <1>2, <1>3, <1>4, Zenon DEF TypeInv, TypeOK

LEMMA TypeNext == TypeInv /\ [Next]_vars => TypeInv'
<1> SUFFICES ASSUME TypeInv, [Next]_vars PROVE TypeInv'
  BY Zenon
<1> USE SigningAssumption DEF dbVars, history
<1>1. ASSUME NEW n \in Honest, NEW m \in Msgs, NEW a \in BOOLEAN,
             AsyncSignIfMember(n, m, a)
      PROVE  TypeInv'
  <2>1. tip[n] \in Heights /\ QuorumAt[tip[n]] \in Quorums \cup {NoQuorum}
    BY Zenon DEF TypeInv, TypeOK
  <2>2. /\ pending' \in [Honest -> SUBSET RecSigs]
        /\ \A x \in Honest : \A rs \in pending'[x] : x \in Members[rs[1]]
    BY <1>1, <2>1 DEF AsyncSignIfMember, TypeInv, TypeOK, LocalsOK, RecSigs
  <2>3. /\ vote' \in [Honest -> Msgs \cup {NoMsg}]
        /\ voteTime' \in [Honest -> 0 .. MaxTime]
        /\ voteLog' \subseteq Honest \X Msgs \X (0 .. MaxTime)
    BY <1>1 DEF AsyncSignIfMember, TypeInv, TypeOK
  <2> QED
    BY <1>1, <2>2, <2>3, Zenon DEF AsyncSignIfMember, TypeInv, TypeOK, LocalsOK
<1>2. ASSUME NEW n \in Honest, NEW rs \in RecSigs, Sign(n, rs) PROVE TypeInv'
  <2>1. <<rs[1], rs[2], n>> \in Shares
    BY <1>2, Zenon DEF Sign, TypeInv, LocalsOK, RecSigs, Shares, Nodes
  <2>2. CASE ProcessSigShare(n, <<rs[1], rs[2], n>>)
    BY <1>2, <2>1, <2>2, ProcessSigShareType DEF Sign, TypeInv, TypeOK, LocalsOK
  <2>3. CASE UNCHANGED <<shares, rec, recTime, byHash, published>>
    BY <1>2, <2>3, Zenon DEF Sign, TypeInv, TypeOK, LocalsOK
  <2> QED
    BY <1>2, <2>2, <2>3, Zenon DEF Sign
<1>3. ASSUME NEW n \in Honest, NEW s \in Shares, ReceiveShare(n, s) PROVE TypeInv'
  BY <1>3, ProcessSigShareType, Zenon DEF ReceiveShare, TypeInv, TypeOK, LocalsOK
<1>4. ASSUME NEW n \in Honest, NEW rs \in RecSigs, ReceiveRecoveredSig(n, rs)
      PROVE  TypeInv'
  BY <1>4 DEF ReceiveRecoveredSig, StoreRecoveredSig, TypeInv, TypeOK, LocalsOK
<1>5. ASSUME NEW n \in Honest, CleanupOldVotes(n) PROVE TypeInv'
  BY <1>5 DEF CleanupOldVotes, TypeInv, TypeOK, LocalsOK
<1>6. ASSUME NEW n \in Honest, CleanupOldRecoveredSigs(n) PROVE TypeInv'
  BY <1>6 DEF CleanupOldRecoveredSigs, TypeInv, TypeOK, LocalsOK
<1>7. ASSUME NEW n \in Honest, TruncateRecoveredSig(n) PROVE TypeInv'
  BY <1>7 DEF TruncateRecoveredSig, TypeInv, TypeOK, LocalsOK
<1>8. ASSUME NEW n \in Honest, NEW rs \in RecSigs, SessionTimeout(n, rs) PROVE TypeInv'
  BY <1>8 DEF SessionTimeout, TypeInv, TypeOK, LocalsOK
<1>9. ASSUME NEW n \in Honest, Restart(n) PROVE TypeInv'
  BY <1>9 DEF Restart, TypeInv, TypeOK, LocalsOK
<1>10. ASSUME NEW n \in Honest, NewBlock(n) PROVE TypeInv'
  BY <1>10 DEF NewBlock, TypeInv, TypeOK, LocalsOK, Heights
<1>11. CASE Tick
  BY <1>11 DEF Tick, TypeInv, TypeOK, LocalsOK
<1>12. CASE UNCHANGED vars
  BY <1>12, Zenon DEF vars, TypeInv, TypeOK, LocalsOK
<1> QED
  BY <1>1, <1>2, <1>3, <1>4, <1>5, <1>6, <1>7, <1>8, <1>9, <1>10, <1>11, <1>12
     DEF Next, NodeStep

\* Every variable keeps its type: no share is queued for an unknown quorum.
THEOREM TypeCorrect == Spec => []TypeOK
<1>1. TypeInv => TypeOK
  BY Zenon DEF TypeInv
<1> QED
  BY <1>1, TypeInit, TypeNext, PTL DEF Spec

-----------------------------------------------------------------------------
(* Votes.                                                                  *)

\* A vote in the log is still the current one or has expired, and the current
\* one is in the log.
VoteInv ==
    /\ \A n \in Honest : vote[n] # NoMsg => <<n, vote[n], voteTime[n]>> \in voteLog
    /\ \A v \in voteLog : \/ vote[v[1]] = v[2] /\ voteTime[v[1]] = v[3]
                          \/ now - v[3] > MaxAge
    /\ VotesApart

\* Votes, their log and the clock change in three of the steps only.
LEMMA VoteSteps ==
    ASSUME [Next]_vars
    PROVE  \/ UNCHANGED <<now, vote, voteTime, voteLog>>
           \/ Tick
           \/ \E n \in Honest : CleanupOldVotes(n)
           \/ \E n \in Honest, m \in Msgs, a \in BOOLEAN : AsyncSignIfMember(n, m, a)
<1>1. ASSUME NEW n \in Honest, NodeStep(n)
      PROVE  \/ UNCHANGED <<now, vote, voteTime, voteLog>>
             \/ CleanupOldVotes(n)
             \/ \E m \in Msgs, a \in BOOLEAN : AsyncSignIfMember(n, m, a)
  BY <1>1, ZenonT(30) DEF NodeStep, Sign, ReceiveRecoveredSig, SessionTimeout, ReceiveShare,
     CleanupOldRecoveredSigs, TruncateRecoveredSig, Restart, NewBlock, dbVars, history
<1> QED
  BY <1>1, Zenon DEF Next, vars, dbVars, history

LEMMA VoteInvNext == TypeInv /\ VoteInv /\ [Next]_vars => VoteInv'
<1> SUFFICES ASSUME TypeOK, VoteInv, [Next]_vars PROVE VoteInv'
  BY Zenon DEF TypeInv
<1> USE SigningAssumption DEF dbVars, history
<1>1. ASSUME NEW n \in Honest, NEW m \in Msgs, NEW a \in BOOLEAN,
             AsyncSignIfMember(n, m, a)
      PROVE  VoteInv'
  <2>1. CASE vote[n] = NoMsg
    <3>1. /\ vote' = [vote EXCEPT ![n] = m] /\ voteTime' = [voteTime EXCEPT ![n] = now]
          /\ voteLog' = voteLog \cup {<<n, m, now>>} /\ now' = now
      BY <1>1, <2>1, Zenon DEF AsyncSignIfMember
    <3>2. \A v \in voteLog : v[1] = n => now - v[3] > MaxAge
      BY <2>1 DEF VoteInv, TypeOK
    <3>3. \A x \in Honest : vote'[x] # NoMsg => <<x, vote'[x], voteTime'[x]>> \in voteLog'
      BY <3>1, Zenon DEF VoteInv, TypeOK
    <3>4. \A v \in voteLog' : \/ vote'[v[1]] = v[2] /\ voteTime'[v[1]] = v[3]
                              \/ now' - v[3] > MaxAge
      BY <3>1, <3>2 DEF VoteInv, TypeOK
    <3>5. VotesApart'
      BY <3>1, <3>2 DEF VoteInv, VotesApart, TypeOK
    <3> QED
      BY <3>3, <3>4, <3>5, Zenon DEF VoteInv
  <2>2. CASE vote[n] # NoMsg
    BY <1>1, <2>2, Zenon DEF AsyncSignIfMember, VoteInv, VotesApart
  <2> QED
    BY <2>1, <2>2, Zenon
<1>2. ASSUME NEW n \in Honest, CleanupOldVotes(n) PROVE VoteInv'
  <2>1. \A v \in voteLog : \/ vote'[v[1]] = v[2] /\ voteTime'[v[1]] = v[3]
                           \/ now - v[3] > MaxAge
    BY <1>2, Zenon DEF CleanupOldVotes, VoteInv, TypeOK
  <2> QED
    BY <1>2, <2>1, Zenon DEF CleanupOldVotes, VoteInv, VotesApart, TypeOK
<1>3. CASE Tick
  <2>1. \A v \in voteLog : v[3] \in Int
    BY DEF TypeOK
  <2> QED
    BY <1>3, <2>1 DEF Tick, VoteInv, VotesApart, TypeOK
<1>4. CASE UNCHANGED <<now, vote, voteTime, voteLog>>
  BY <1>4, Zenon DEF VoteInv, VotesApart
<1> QED
  BY <1>1, <1>2, <1>3, <1>4, VoteSteps

\* A smartnode's votes for different messages of an id lie more than
\* -recsigsmaxage apart, whatever crashes and re-signings happen in between.
THEOREM VotesLieApart == Spec => []VotesApart
<1>1. Init => VoteInv
  BY Zenon DEF Init, VoteInv, VotesApart
<1>2. VoteInv => VotesApart
  BY Zenon DEF VoteInv
<1> QED
  BY <1>1, <1>2, TypeInit, TypeNext, VoteInvNext, PTL DEF Spec

-----------------------------------------------------------------------------
(* Shares.                                                                 *)

Voted(n, m) == \E v \in voteLog : v[1] = n /\ v[2] = m

\* A share that waits in pendingSigns has a vote behind it, too: the vote may
\* have been cleaned up since, so the log and not the database witnesses it.
ShareInv ==
    /\ \A n \in Honest : \A rs \in pending[n] : Voted(n, rs[2])
    /\ SharesVoted

LEMMA ShareInvNext == TypeInv /\ VoteInv /\ ShareInv /\ [Next]_vars => ShareInv'
<1> SUFFICES ASSUME TypeInv, VoteInv, ShareInv, [Next]_vars PROVE ShareInv'
  BY Zenon
<1> USE SigningAssumption DEF dbVars, history
<1>1. ASSUME NEW n \in Honest, NEW m \in Msgs, NEW a \in BOOLEAN,
             AsyncSignIfMember(n, m, a)
      PROVE  ShareInv'
  <2>1. voteLog \subseteq voteLog'
    BY <1>1, Zenon DEF AsyncSignIfMember
  <2>2. Voted(n, m)'
    <3>1. CASE vote[n] = NoMsg
      <4>1. <<n, m, now>> \in voteLog' /\ <<n, m, now>>[1] = n /\ <<n, m, now>>[2] = m
        BY <1>1, <3>1, Zenon DEF AsyncSignIfMember
      <4> QED
        BY <4>1, Zenon DEF Voted
    <3>2. CASE vote[n] # NoMsg
      <4>1. vote[n] = m /\ voteLog' = voteLog
        BY <1>1, <3>2, Zenon DEF AsyncSignIfMember
      <4>2. <<n, m, voteTime[n]>> \in voteLog
        BY <3>2, <4>1, Zenon DEF VoteInv
      <4> QED
        BY <4>1, <4>2, Zenon DEF Voted
    <3> QED
      BY <3>1, <3>2, Zenon
  <2>3. \A x \in Honest : \A rs \in pending'[x] :
           rs \in pending[x] \/ (x = n /\ rs[2] = m)
    BY <1>1 DEF AsyncSignIfMember, TypeInv, TypeOK
  <2>4. published' = published
    BY <1>1, Zenon DEF AsyncSignIfMember
  <2> QED
    BY <2>1, <2>2, <2>3, <2>4 DEF ShareInv, Voted, SharesVoted
<1>2. ASSUME NEW n \in Honest, NEW rs \in RecSigs, Sign(n, rs) PROVE ShareInv'
  <2>1. /\ voteLog' = voteLog /\ rs \in pending[n]
        /\ published' \subseteq published \cup {<<rs[1], rs[2], n>>}
        /\ \A x \in Honest : pending'[x] \subseteq pending[x]
    BY <1>2, Zenon DEF Sign, ProcessSigShare, TypeInv, TypeOK
  <2>2. Voted(n, rs[2])
    BY <2>1, Zenon DEF ShareInv
  <2> QED
    BY <2>1, <2>2 DEF ShareInv, Voted, SharesVoted
<1>3. ASSUME NEW n \in Honest, NEW s \in Shares, ReceiveShare(n, s) PROVE ShareInv'
  <2>1. /\ voteLog' = voteLog /\ pending' = pending
        /\ published' = published \cup {s}
        /\ s \in published \/ s[3] \notin Honest
    BY <1>3, Zenon DEF ReceiveShare, ProcessSigShare, FaultyShares
  <2> QED
    BY <2>1 DEF ShareInv, Voted, SharesVoted
<1>4. ASSUME NEW n \in Honest, Restart(n) PROVE ShareInv'
  BY <1>4 DEF Restart, ShareInv, Voted, SharesVoted, TypeInv, TypeOK
<1>5. CASE UNCHANGED <<voteLog, pending, published>>
  BY <1>5 DEF ShareInv, Voted, SharesVoted
<1>6. \/ UNCHANGED <<voteLog, pending, published>>
      \/ \E n \in Honest : Restart(n)
      \/ \E n \in Honest, s \in Shares : ReceiveShare(n, s)
      \/ \E n \in Honest, rs \in RecSigs : Sign(n, rs)
      \/ \E n \in Honest, m \in Msgs, a \in BOOLEAN : AsyncSignIfMember(n, m, a)
  BY DEF Next, NodeStep, vars, ReceiveRecoveredSig, SessionTimeout, CleanupOldVotes,
     CleanupOldRecoveredSigs, TruncateRecoveredSig, NewBlock, Tick
<1> QED
  BY <1>1, <1>2, <1>3, <1>4, <1>5, <1>6

SafeInv == TypeInv /\ VoteInv /\ ShareInv

LEMMA SafeInvAlways == Spec => []SafeInv
<1>1. Init => SafeInv
  BY TypeInit, Zenon DEF Init, SafeInv, VoteInv, VotesApart, ShareInv, SharesVoted
<1> QED
  BY <1>1, TypeNext, VoteInvNext, ShareInvNext, PTL DEF Spec, SafeInv

\* An honest smartnode never makes a share for a message it did not vote for.
THEOREM SharesAreVoted == Spec => []SharesVoted
<1>1. SafeInv => SharesVoted
  BY Zenon DEF SafeInv, ShareInv
<1> QED
  BY <1>1, SafeInvAlways, PTL

-----------------------------------------------------------------------------
(* Recovered signatures.                                                   *)

LEMMA ConflictStep == SafeInv => ConflictNeedsExpiredVote
<1> SUFFICES ASSUME SafeInv, NEW r1 \in Recoverable, NEW r2 \in Recoverable,
                    r1[1] = r2[1], r1[2] # r2[2]
             PROVE  \E v1, v2 \in voteLog :
                        /\ v1[1] = v2[1] /\ v1[1] \in Members[r1[1]]
                        /\ v1[2] = r1[2] /\ v2[2] = r2[2]
                        /\ v1[3] - v2[3] > MaxAge \/ v2[3] - v1[3] > MaxAge
  BY DEF ConflictNeedsExpiredVote
<1> DEFINE S(r) == {s[3] : s \in Session(published \cup FaultyShares, r)}
<1>1. r1[1] \in Quorums /\ Quorate(r1[1], S(r1)) /\ Quorate(r1[1], S(r2))
  BY Zenon DEF Recoverable, RecSigs
<1>2. PICK n \in Honest : n \in S(r1) /\ n \in S(r2) /\ n \in Members[r1[1]]
  BY <1>1, IntersectAssumption, Zenon DEF ThresholdIntersects, Quorate
<1>3. ASSUME NEW r, n \in S(r)
      PROVE  \E s \in published : s[3] = n /\ s[2] = r[2]
  <2>1. PICK s \in Session(published \cup FaultyShares, r) : s[3] = n
    BY <1>3, Zenon
  <2>2. s \in published \cup FaultyShares /\ s[2] = r[2]
    BY SessionOf
  <2>3. s \notin FaultyShares
    BY <2>1, SigningAssumption, Zenon DEF FaultyShares
  <2> QED
    BY <2>1, <2>2, <2>3, Zenon
<1>4. /\ \E s \in published : s[3] = n /\ s[2] = r1[2]
      /\ \E s \in published : s[3] = n /\ s[2] = r2[2]
  BY <1>2, <1>3, Zenon
<1>5. PICK v1 \in voteLog : v1[1] = n /\ v1[2] = r1[2]
  BY <1>4 DEF SafeInv, ShareInv, SharesVoted
<1>6. PICK v2 \in voteLog : v2[1] = n /\ v2[2] = r2[2]
  BY <1>4 DEF SafeInv, ShareInv, SharesVoted
<1> QED
  BY <1>2, <1>5, <1>6 DEF SafeInv, VoteInv, VotesApart

\* Conflicting recovered sigs of a quorum need an honest member whose vote was
\* cleaned up in between: the core safety of the signing subsystem.
THEOREM ConflictsNeedExpiredVotes == Spec => []ConflictNeedsExpiredVote
  BY ConflictStep, SafeInvAlways, PTL

-----------------------------------------------------------------------------
(* What can be recovered only grows, and by one signature at a time.       *)

Signers(P, rs) == {s[3] : s \in Session(P \cup FaultyShares, rs)}

LEMMA SignersAreMembers ==
    ASSUME NEW P \in SUBSET Shares, NEW rs \in RecSigs
    PROVE  Signers(P, rs) \subseteq Members[rs[1]]
<1> SUFFICES ASSUME NEW s \in Session(P \cup FaultyShares, rs)
             PROVE  s[3] \in Members[rs[1]]
  BY Zenon DEF Signers
<1>1. s \in P \cup FaultyShares /\ s[1] = rs[1]
  BY SessionOf
<1> QED
  BY <1>1, Zenon DEF Shares, FaultyShares

LEMMA QuorateMonotone ==
    ASSUME NEW q \in Quorums, NEW T \in SUBSET Members[q], NEW S \in SUBSET T, Quorate(q, S)
    PROVE  Quorate(q, T)
<1>1. IsFiniteSet(T)
  BY SigningAssumption, FS_Subset, Zenon
<1>2. Cardinality(S) <= Cardinality(T) /\ IsFiniteSet(S)
  BY <1>1, FS_Subset, Zenon
<1>3. Cardinality(S) \in Nat /\ Cardinality(T) \in Nat
  BY <1>1, <1>2, FS_CardinalityType, Zenon
<1> QED
  BY <1>2, <1>3, SigningAssumption DEF Quorate

\* A node's session is never ahead of what has been published.
LEMMA RecoverableFrom ==
    ASSUME NEW P \in SUBSET Shares, NEW L \in SUBSET (P \cup FaultyShares), NEW rs \in RecSigs,
           Quorate(rs[1], {s[3] : s \in Session(L, rs)})
    PROVE  Quorate(rs[1], Signers(P, rs))
<1>1. {s[3] : s \in Session(L, rs)} \subseteq Signers(P, rs)
  BY Zenon DEF Signers, Session
<1>2. rs[1] \in Quorums
  BY Zenon DEF RecSigs
<1> QED
  BY <1>1, <1>2, SignersAreMembers, QuorateMonotone, Zenon

LEMMA RecoverableGrows ==
    ASSUME TypeInv, TypeInv', published \subseteq published'
    PROVE  Recoverable \subseteq Recoverable'
<1> SUFFICES ASSUME NEW rs \in RecSigs, Quorate(rs[1], Signers(published, rs))
             PROVE  Quorate(rs[1], Signers(published', rs))
  BY Zenon DEF Recoverable, Signers
<1>1. published \cup FaultyShares \subseteq published' \cup FaultyShares /\ published' \subseteq Shares
  BY Zenon DEF TypeInv, TypeOK
<1> QED
  BY <1>1, RecoverableFrom, Zenon DEF Signers

\* Only shares are added, and no step adds two.
LEMMA PublishesOne ==
    ASSUME TypeInv, [Next]_vars
    PROVE  published' = published \/ \E s \in Shares : published' = published \cup {s}
<1> USE DEF dbVars, history
<1>1. ASSUME NEW n \in Honest, NEW rs \in RecSigs, Sign(n, rs)
      PROVE  published' = published \/ \E s \in Shares : published' = published \cup {s}
  <2>1. published' = published \/ published' = published \cup {<<rs[1], rs[2], n>>}
    BY <1>1, Zenon DEF Sign, ProcessSigShare
  <2>2. <<rs[1], rs[2], n>> \in Shares
    BY <1>1, Zenon DEF Sign, TypeInv, LocalsOK, Shares, RecSigs, Nodes
  <2> QED
    BY <2>1, <2>2, Zenon
<1>2. ASSUME NEW n \in Honest, NEW s \in Shares, ReceiveShare(n, s)
      PROVE  published' = published \cup {s}
  BY <1>2, ZenonT(30) DEF ReceiveShare, ProcessSigShare
<1>3. \/ published' = published
      \/ \E n \in Honest, s \in Shares : ReceiveShare(n, s)
      \/ \E n \in Honest, rs \in RecSigs : Sign(n, rs)
  BY Zenon DEF Next, NodeStep, vars, ReceiveRecoveredSig, SessionTimeout, CleanupOldVotes, Restart,
     CleanupOldRecoveredSigs, TruncateRecoveredSig, NewBlock, Tick, AsyncSignIfMember
<1> QED
  BY <1>1, <1>2, <1>3, Zenon

-----------------------------------------------------------------------------
LEMMA RecoveredNext ==
    TypeInv /\ RecoveredByThreshold /\ [Next]_vars => RecoveredByThreshold'
<1> SUFFICES ASSUME TypeInv, RecoveredByThreshold, [Next]_vars PROVE RecoveredByThreshold'
  BY Zenon
<1> USE DEF dbVars, history
<1>1. TypeInv'
  BY TypeNext, Zenon
<1>2. Recoverable \subseteq Recoverable'
  BY <1>1, PublishesOne, RecoverableGrows, Zenon
<1>3. ASSUME NEW n \in Honest, NEW s \in Shares, ProcessSigShare(n, s)
      PROVE  RecoveredByThreshold'
  <2> DEFINE rs == <<s[1], s[2]>>
             S == shares[n] \cup {s}
  <2>1. rs \in RecSigs /\ rs[1] = s[1]
    BY Zenon DEF Shares, RecSigs
  <2>2. CASE byHash' = byHash
    BY <1>2, <2>2, Zenon DEF RecoveredByThreshold
  <2>3. CASE byHash' # byHash
    <3>1. /\ Quorate(rs[1], {x[3] : x \in Session(S, rs)})
          /\ byHash' = [byHash EXCEPT ![n] = @ \cup {rs}]
      BY <1>3, <2>1, <2>3, Zenon DEF ProcessSigShare, StoreRecoveredSig
    <3>2. S \subseteq published' \cup FaultyShares /\ published' \subseteq Shares
      BY <1>1, <1>3, Zenon DEF ProcessSigShare, TypeInv, TypeOK, LocalsOK
    <3>3. rs \in Recoverable'
      <4> HIDE DEF S, rs
      <4> QED
        BY <2>1, <3>1, <3>2, RecoverableFrom, Zenon DEF Recoverable, Signers
    <3> QED
      BY <1>2, <3>1, <3>3, Zenon DEF RecoveredByThreshold, TypeInv, TypeOK
  <2> QED
    BY <2>2, <2>3, Zenon
<1>4. ASSUME NEW n \in Honest, NEW rs \in RecSigs, Sign(n, rs) PROVE RecoveredByThreshold'
  <2>1. <<rs[1], rs[2], n>> \in Shares
    BY <1>4, Zenon DEF Sign, TypeInv, LocalsOK, Shares, RecSigs, Nodes
  <2>2. CASE byHash' = byHash
    BY <1>2, <2>2, Zenon DEF RecoveredByThreshold
  <2> QED
    BY <1>3, <1>4, <2>1, <2>2, Zenon DEF Sign
<1>5. ASSUME NEW n \in Honest, NEW s \in Shares, ReceiveShare(n, s) PROVE RecoveredByThreshold'
  BY <1>3, <1>5, Zenon DEF ReceiveShare
<1>6. ASSUME NEW n \in Honest, NEW rs \in RecSigs, ReceiveRecoveredSig(n, rs)
      PROVE  RecoveredByThreshold'
  BY <1>2, <1>6, Zenon DEF ReceiveRecoveredSig, StoreRecoveredSig, RecoveredByThreshold, TypeInv, TypeOK
<1>7. CASE \A n \in Honest : byHash'[n] \subseteq byHash[n]
  BY <1>2, <1>7, Zenon DEF RecoveredByThreshold
<1>8. \/ \A n \in Honest : byHash'[n] \subseteq byHash[n]
      \/ \E n \in Honest, s \in Shares : ReceiveShare(n, s)
      \/ \E n \in Honest, rs \in RecSigs : Sign(n, rs) \/ ReceiveRecoveredSig(n, rs)
  <2>1. ASSUME NEW n \in Honest, CleanupOldRecoveredSigs(n)
        PROVE  \A x \in Honest : byHash'[x] \subseteq byHash[x]
    <3>1. DOMAIN byHash = Honest /\ byHash' = [byHash EXCEPT ![n] = byHash[n] \ {rec[n]}]
      BY <2>1, Zenon DEF CleanupOldRecoveredSigs, TypeInv, TypeOK
    <3> QED
      BY <3>1, Zenon
  <2>2. \/ byHash' = byHash
        \/ \E n \in Honest : CleanupOldRecoveredSigs(n)
        \/ \E n \in Honest, s \in Shares : ReceiveShare(n, s)
        \/ \E n \in Honest, rs \in RecSigs : Sign(n, rs) \/ ReceiveRecoveredSig(n, rs)
    BY Zenon DEF Next, NodeStep, vars, SessionTimeout, CleanupOldVotes, Restart,
       TruncateRecoveredSig, NewBlock, Tick, AsyncSignIfMember
  <2> QED
    BY <2>1, <2>2, Zenon
<1> QED
  BY <1>4, <1>5, <1>6, <1>7, <1>8, Zenon

\* Every sig a node accepts has the shares of Threshold members behind it.
THEOREM RecoveredByMembers == Spec => []RecoveredByThreshold
<1>1. Init => RecoveredByThreshold
  BY Zenon DEF Init, RecoveredByThreshold
<1> QED
  BY <1>1, TypeInit, TypeNext, RecoveredNext, PTL DEF Spec

-----------------------------------------------------------------------------
(* The network implements the abstract signing service.                    *)

LEMMA NothingAtFirst == Init => Recoverable = {}
<1> SUFFICES ASSUME Init, NEW rs \in Recoverable PROVE FALSE
  BY Zenon
<1>1. rs \in RecSigs /\ Quorate(rs[1], Signers({}, rs))
  BY Zenon DEF Init, Recoverable, Signers
<1>2. PICK n \in Honest : n \in Signers({}, rs)
  BY <1>1, IntersectAssumption, Zenon DEF ThresholdIntersects, Quorate, RecSigs
<1>3. PICK s \in FaultyShares : s[3] = n
  BY <1>2, Zenon DEF Signers, Session
<1> QED
  BY <1>3, SigningAssumption, Zenon DEF FaultyShares

LEMMA AddsOne ==
    ASSUME NEW s \in Shares, published' = published \cup {s}
    PROVE  Recoverable' \subseteq Recoverable \cup {<<s[1], s[2]>>}
<1> SUFFICES ASSUME NEW rs \in Recoverable', rs # <<s[1], s[2]>> PROVE rs \in Recoverable
  BY Zenon
<1>1. Session(published' \cup FaultyShares, rs) = Session(published \cup FaultyShares, rs)
  BY Zenon DEF Session
<1> QED
  BY <1>1, Zenon DEF Recoverable

\* No vote comes from the future.
LogInv == \A v \in voteLog : v[3] <= now

LEMMA LogNext == TypeInv /\ LogInv /\ [Next]_vars => LogInv'
<1> SUFFICES ASSUME TypeOK, LogInv, [Next]_vars PROVE LogInv'
  BY Zenon DEF TypeInv
<1>1. now \in Nat /\ \A v \in voteLog : v[3] \in Nat
  BY SigningAssumption DEF TypeOK
<1>2. \/ voteLog' = voteLog /\ now' \in {now, now + 1}
      \/ now' = now /\ \E n \in Honest, m \in Msgs : voteLog' = voteLog \cup {<<n, m, now>>}
  BY VoteSteps, Zenon DEF CleanupOldVotes, Tick, AsyncSignIfMember, history
<1> QED
  BY <1>1, <1>2 DEF LogInv

\* Shares are published while the clock stands still.
LEMMA PublishesInTime ==
    ASSUME [Next]_vars, published' # published
    PROVE  now' = now
BY VoteSteps, Zenon DEF CleanupOldVotes, Tick, AsyncSignIfMember, history

LEMMA SignStep ==
    ASSUME SafeInv, SafeInv', LogInv', [Next]_vars
    PROVE  [Abstract!Next]_<<Recoverable, now > MaxAge>>
<1>1. CASE published' = published
  <2>1. Recoverable' = Recoverable
    BY <1>1, Zenon DEF Recoverable
  <2>2. now \in Nat
    BY SigningAssumption DEF SafeInv, TypeInv, TypeOK
  <2>3. now' \in {now, now + 1}
    BY VoteSteps, Zenon DEF CleanupOldVotes, Tick, AsyncSignIfMember
  <2>4. CASE (now > MaxAge) = (now' > MaxAge)
    BY <2>1, <2>4, Zenon
  <2>5. CASE ~((now > MaxAge) = (now' > MaxAge))
    <3>1. ~(now > MaxAge) /\ (now' > MaxAge) = TRUE
      BY <2>2, <2>3, <2>5, SigningAssumption
    <3>2. Abstract!Expire
      BY <2>1, <3>1, Zenon DEF Abstract!Expire
    <3> QED
      BY <3>2, Zenon DEF Abstract!Next
  <2> QED
    BY <2>4, <2>5, Zenon
<1>2. ASSUME NEW s \in Shares, published' = published \cup {s}, published' # published
      PROVE  [Abstract!Next]_<<Recoverable, now > MaxAge>>
  <2>1. Recoverable \subseteq Recoverable'
    BY <1>2, RecoverableGrows, Zenon DEF SafeInv
  <2>2. Recoverable' \subseteq Recoverable \cup {<<s[1], s[2]>>}
    BY <1>2, AddsOne, Zenon
  <2>3. now' = now
    BY <1>2, PublishesInTime, Zenon
  <2>4. CASE Recoverable' # Recoverable
    <3>1. /\ <<s[1], s[2]>> \notin Recoverable
          /\ Recoverable' = Recoverable \cup {<<s[1], s[2]>>}
      BY <2>1, <2>2, <2>4, Zenon
    <3>2. s[1] \in Quorums /\ s[2] \in Msgs
      BY Zenon DEF Shares
    <3>3. ASSUME NEW m \in Msgs, <<s[1], m>> \in Recoverable PROVE now > MaxAge
      <4>1. m # s[2]
        BY <3>1, <3>3, Zenon
      <4>2. ConflictNeedsExpiredVote'
        BY ConflictStep, PTL
      <4>3. PICK v1 \in voteLog', v2 \in voteLog' :
               v1[3] - v2[3] > MaxAge \/ v2[3] - v1[3] > MaxAge
        BY <2>1, <3>1, <3>3, <4>1, <4>2 DEF ConflictNeedsExpiredVote
      <4>4. v1[3] \in Nat /\ v2[3] \in Nat /\ v1[3] <= now /\ v2[3] <= now /\ now \in Nat
        BY <2>3, SigningAssumption DEF SafeInv, TypeInv, TypeOK, LogInv
      <4> QED
        BY <4>3, <4>4, SigningAssumption
    <3>4. Abstract!SignOne(s[1], s[2])
      BY <2>3, <3>1, <3>3, Zenon DEF Abstract!SignOne
    <3> QED
      BY <3>2, <3>4, Zenon DEF Abstract!Next
  <2>5. CASE Recoverable' = Recoverable
    BY <2>3, <2>5, Zenon
  <2> QED
    BY <2>4, <2>5, Zenon
<1> QED
  BY <1>1, <1>2, PublishesOne, Zenon DEF SafeInv

\* Every quorum signs at most one message per id until -recsigsmaxage has
\* passed: every behaviour of the network is one of OneSigPerQuorum.
THEOREM OneSigPerQuorumImplemented == Spec => ImplementsOneSigPerQuorum
<1>1. Init => Abstract!Init
  BY NothingAtFirst, SigningAssumption DEF Abstract!Init, Init
<1>2. SafeInv /\ SafeInv' /\ LogInv' /\ [Next]_vars => [Abstract!Next]_<<Recoverable, now > MaxAge>>
  BY SignStep, Zenon
<1>3. Init => LogInv
  BY Zenon DEF Init, LogInv
<1> QED
  BY <1>1, <1>2, <1>3, SafeInvAlways, TypeInit, TypeNext, LogNext, PTL
  DEF Spec, ImplementsOneSigPerQuorum, Abstract!Spec
=============================================================================
