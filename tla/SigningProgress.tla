-------------------------- MODULE SigningProgress --------------------------
(***************************************************************************)
(* When QuorumSigning gets a signature.  The code asks a member to sign an *)
(* input when the transaction enters the mempool, and a second time, with  *)
(* allowReSign, when a block with the transaction is connected             *)
(* (CInstantSendManager::BlockConnected); nobody keeps asking.  A share is *)
(* announced when it is made and again by ForceReAnnouncement, so one that *)
(* a restart or a timeout loses comes back only after another request.     *)
(* asked remembers the requests since the last fault that announce a share.*)
(***************************************************************************)
EXTENDS QuorumSigning

VARIABLE asked      \* history: the shares <<quorum, message, member>>

progressVars == <<vars, asked>>

ProgressInit == Init /\ asked = {}

\* AsyncSignIfMember announces: AsyncSign makes a share that is not there, and
\* ForceReAnnouncement offers one that is.
Announces(n, m, allowReSign) ==
    LET q == QuorumAt[tip[n]] IN
    {s \in Shares : s = <<q, m, n>> /\ (allowReSign \/ s \notin shares[n])}

Request(n, m, allowReSign) ==
    /\ AsyncSignIfMember(n, m, allowReSign)
    /\ asked' = asked \cup Announces(n, m, allowReSign)

\* Any step that is no request.  A restart and a session timeout may lose what
\* was announced before.
OtherStep ==
    /\ Next
    /\ voteLog' = voteLog /\ \A n \in Honest : pending'[n] \subseteq pending[n]
    /\ asked' = IF faults' = faults THEN asked ELSE {}

ProgressNext ==
    \/ \E n \in Honest, m \in Msgs, allowReSign \in BOOLEAN : Request(n, m, allowReSign)
    \/ OtherStep

\* The worker thread (WorkThreadMain) signs what is pending, and a share that
\* was announced since the last fault reaches the other members.  Requests,
\* blocks and the relay of recovered signatures are not fair.
Fairness ==
    \A n \in Honest :
        /\ WF_progressVars(\E rs \in RecSigs : Sign(n, rs) /\ UNCHANGED asked)
        /\ WF_progressVars(\E s \in asked : ReceiveShare(n, s) /\ UNCHANGED asked)

FairSpec == ProgressInit /\ [][ProgressNext]_progressVars /\ Fairness

\* A threshold of members was asked for rs since the last fault.
Ready(rs) == Quorate(rs[1], {s[3] : s \in Session(asked, rs)})

\* When a threshold of members that select the same quorum has been asked to
\* sign, some node gets the signature, whatever was lost before, unless a new
\* restart or session timeout interferes.  AsyncSignIfMember's comment speaks of
\* a "risk of not getting enough shares" when members select different quorums.
EventuallyRecovered ==
    \A rs \in RecSigs : Ready(rs) ~> (~Ready(rs) \/ \E n \in Honest : rs \in byHash[n])
=============================================================================
