----------------------------- MODULE DKGSession -----------------------------
(***************************************************************************)
(* One session of the distributed key generation of a long-living quorum   *)
(* (llmq/quorums_dkgsession.cpp), run by the phase handler thread of every *)
(* member (llmq/quorums_dkgsessionhandler.cpp).  The members contribute    *)
(* secret shares, complain about shares that do not verify, justify them,  *)
(* commit to the set of valid members and aggregate the commitments.       *)
(*                                                                         *)
(* All members are in the same phase.  A member that is ahead only sends   *)
(* messages that the others keep in a queue of their own until they enter  *)
(* that phase, so every behaviour with drifting members has the same       *)
(* result as one in lock step; a message that arrives after its phase is   *)
(* never processed, and is lost here too.  A member that jumps over a      *)
(* phase, or stops, aborts the session.                                    *)
(*                                                                         *)
(* A message is modelled by what the receivers can tell about it.  What    *)
(* can be wrong with it is what ShouldSimulateError makes the code itself  *)
(* do wrong, at the members in Faulty: messages left out, shares that do   *)
(* not fit, groundless complaints, lies in commitments.                    *)
(***************************************************************************)
EXTENDS Integers, FiniteSets

CONSTANTS
    Members,         \* the members of the quorum
    Faulty,          \* those that simulate errors
    MinSize,         \* params.minSize
    Threshold,       \* params.threshold
    BadVotes,        \* params.dkgBadVotesThreshold
    VerifyBatch,     \* contributions verified at once (32 in the code)
    CommitLies,      \* the lieTypes of commit-lie that are simulated
    MaxMishaps,      \* bound: messages that come too late, and aborts
    NoMessage        \* stands for a message that was not sent

\* Two sets of minSize members have a member in common: minSize is more than
\* half of size in every LLMQ type but llmq200_2 (named llmq_3_200).
ASSUME Majority == \A S, T \in SUBSET Members :
    Cardinality(S) >= MinSize /\ Cardinality(T) >= MinSize => S \cap T # {}

ASSUME DKGAssumption ==
    /\ Faulty \subseteq Members
    /\ CommitLies \subseteq {"key", "vvec", "hash", "sig", "share"}

\* What the parameters of every LLMQ type satisfy (chainparams.cpp).
ASSUME ParamsAssumption ==
    /\ IsFiniteSet(Members)
    /\ MinSize \in Nat /\ Threshold \in 0 .. MinSize
    /\ BadVotes \in Nat \ {0}

\* The messages of the four phases, by what the handlers look at.
Contributions == [lies : SUBSET Members]
Complaints == [bad : SUBSET Members, complain : SUBSET Members]
Justifications == [for : SUBSET Members, lies : SUBSET Members]
Commitments == [valid : SUBSET Members, lie : CommitLies \cup {"none"}]

ASSUME NoMessageAssumption ==
    NoMessage \notin Contributions \cup Complaints \cup Justifications \cup Commitments

VARIABLES
    phase,      \* QuorumPhase of every member
    running,    \* the members that have not aborted the session
    started,    \* those that have run the start function of the phase
    msg,        \* msg[j]: what j has sent in this phase
    seen,       \* seen[i]: the senders whose message of this phase i has taken
    session,    \* session[i]: the CDKGSession of i and what it has written
    lost        \* <<i, j>>: i did not get a message that j had sent

vars == <<phase, running, started, msg, seen, session, lost>>

Honest == Members \ Faulty

\* The senders of the current phase.
Sent == {j \in Members : msg[j] # NoMessage}

Silence == [j \in Members |-> NoMessage]

(***************************************************************************)
(* bad, weComplain, votes (badMemberVotes) and open (complaintsFromOthers) *)
(* are per member.  pend is pendingContributionVerifications, with whether *)
(* the decrypted share fits the verification vector; vvec and sk are the   *)
(* verified contributions in the database; valid is validCommitments, and  *)
(* final the result of FinalizeCommitments.                                *)
(***************************************************************************)
NewSession ==
    [bad |-> {}, weComplain |-> {}, pend |-> {},
     votes |-> [m \in Members |-> {}], open |-> [m \in Members |-> {}],
     vvec |-> {}, sk |-> {}, valid |-> {}, final |-> {}]

Init ==
    /\ phase = "contribute"
    /\ running = Members
    /\ started = {}
    /\ msg = Silence
    /\ seen = [i \in Members |-> {}]
    /\ session = [i \in Members |-> NewSession]
    /\ lost = {}

-----------------------------------------------------------------------------
\* HandlePhase: the start function of phase p, once, at a member i.
StartPhase(i, p) ==
    /\ phase = p
    /\ i \in running \ started
    /\ started' = started \cup {i}

Send(i, m) == msg' = [msg EXCEPT ![i] = m]

\* The members among S that a lie of i is about; the truth is the empty set.
Lies(i, S) == IF i \in Faulty THEN SUBSET (S \ {i}) ELSE {{}}

\* runWhileWaiting takes the message of j from the queue of phase p; it runs
\* before the start function too, in SleepBeforePhase.
Take(i, j, p) ==
    /\ phase = p
    /\ i \in running
    /\ j \in Sent \ seen[i]
    /\ seen' = [seen EXCEPT ![i] = @ \cup {j}]

-----------------------------------------------------------------------------
\* contribution-omit, contribution-lie: the shares for the members in L do not
\* fit the verification vector.
Contribute(i) ==
    /\ StartPhase(i, "contribute")
    /\ \/ i \in Faulty /\ UNCHANGED msg
       \/ \E L \in Lies(i, Members) : Send(i, [lies |-> L])
    /\ UNCHANGED <<phase, running, seen, session, lost>>

VerifyPendingContributions(s) ==
    LET skip == s.bad \cup s.weComplain
        fit == {j \in Members \ skip : <<j, TRUE>> \in s.pend}
        unfit == {j \in Members \ skip : <<j, FALSE>> \in s.pend}
    IN [s EXCEPT !.pend = {},
                 !.weComplain = @ \cup unfit,
                 !.sk = @ \cup fit]

\* ReceiveMessage of a contribution; the one with C # {} is complain-lie.
ReceiveContribution(i, j) ==
    /\ Take(i, j, "contribute")
    /\ \E C \in Lies(i, {j}) :
         LET s == [session[i] EXCEPT !.vvec = @ \cup {j}, !.weComplain = @ \cup C]
             t == [s EXCEPT !.pend = @ \cup {<<j, i \notin msg[j].lies>>}]
         IN session' = [session EXCEPT ![i] =
                IF C # {} THEN s
                ELSE IF Cardinality(t.pend) < VerifyBatch THEN t
                ELSE VerifyPendingContributions(t)]
    /\ UNCHANGED <<phase, running, started, msg, lost>>

VerifyAndComplain(i) ==
    LET s == VerifyPendingContributions(session[i])
        bad == s.bad \cup (Members \ s.vvec)
        complain == s.weComplain \ bad
    IN /\ StartPhase(i, "complain")
       /\ session' = [session EXCEPT ![i] = [s EXCEPT !.bad = bad]]
       /\ IF bad = {} /\ complain = {} THEN UNCHANGED msg
          ELSE Send(i, [bad |-> bad, complain |-> complain])
       /\ UNCHANGED <<phase, running, seen, lost>>

\* f with j among those that name the members of S.
Named(f, j, S) == [m \in Members |-> IF m \in S THEN f[m] \cup {j} ELSE f[m]]

M_NoComplaintOfBad(s, j, m) ==
    IF j \in s.bad THEN s
    ELSE [s EXCEPT !.votes = Named(@, j, m.bad), !.open = Named(@, j, m.complain)]

\* ReceiveMessage of a complaint m of j, which counts whoever j is.
AfterComplaint(s, j, m) ==
    [s EXCEPT !.votes = Named(@, j, m.bad), !.open = Named(@, j, m.complain)]

ReceiveComplaint(i, j) ==
    /\ Take(i, j, "complain")
    /\ session' = [session EXCEPT ![i] = AfterComplaint(@, j, msg[j])]
    /\ UNCHANGED <<phase, running, started, msg, lost>>

\* justify-omit, justify-lie: the shares shown for the members in L are wrong.
\* Nothing has been taken out of open[i] yet: it is who complained about i.
VerifyAndJustify(i) ==
    LET s == session[i]
        bad == s.bad \cup {m \in Members : Cardinality(s.votes[m]) >= BadVotes}
        justifyFor == s.open[i] \ bad
    IN /\ StartPhase(i, "justify")
       /\ session' = [session EXCEPT ![i].bad = bad]
       /\ \/ (justifyFor = {} \/ i \in Faulty) /\ UNCHANGED msg
          \/ /\ justifyFor # {}
             /\ \E L \in Lies(i, justifyFor) : Send(i, [for |-> justifyFor, lies |-> L])
       /\ UNCHANGED <<phase, running, seen, lost>>

M_OpenNotErased(i, s, j, m) ==
    IF j \in s.bad THEN s
    ELSE IF ~(m.for \subseteq s.open[j]) THEN [s EXCEPT !.bad = @ \cup {j}]
    ELSE [s EXCEPT
             !.bad = IF m.lies # {} THEN @ \cup {j} ELSE @,
             !.weComplain = IF i \in m.for \ m.lies THEN @ \ {j} ELSE @,
             !.sk = IF i \in m.for \ m.lies THEN @ \cup {j} ELSE @]

\* ReceiveMessage of a justification m of j: a bad member gets no second chance, and
\* one that justifies for a member that did not complain is bad.
AfterJustification(i, s, j, m) ==
    IF j \in s.bad THEN s
    ELSE IF ~(m.for \subseteq s.open[j]) THEN [s EXCEPT !.bad = @ \cup {j}]
    ELSE [s EXCEPT
             !.bad = IF m.lies # {} THEN @ \cup {j} ELSE @,
             !.open[j] = @ \ (m.for \ m.lies),
             !.weComplain = IF i \in m.for \ m.lies THEN @ \ {j} ELSE @,
             !.sk = IF i \in m.for \ m.lies THEN @ \cup {j} ELSE @]

ReceiveJustification(i, j) ==
    /\ Take(i, j, "justify")
    /\ session' = [session EXCEPT ![i] =
                      AfterJustification(i, @, j, msg[j])]
    /\ UNCHANGED <<phase, running, started, msg, lost>>

-----------------------------------------------------------------------------
\* SendCommitment returns without a message when too few members are valid, and
\* when the verification vector or the secret share cannot be built.
CanCommit(s, V) ==
    /\ Cardinality(V) >= MinSize
    /\ V \subseteq s.vvec
    /\ V \subseteq s.sk

VerifyAndCommit(i) ==
    LET s == session[i]
        bad == s.bad \cup {m \in Members : s.open[m] # {}}
        validMembers == Members \ bad
        able == CanCommit(s, validMembers)
    IN /\ StartPhase(i, "commit")
       /\ session' = [session EXCEPT ![i].bad = bad]
       /\ \/ (~able \/ i \in Faulty) /\ UNCHANGED msg              \* commit-omit
          \/ /\ able
             /\ \E l \in {"none"} \cup (IF i \in Faulty THEN CommitLies ELSE {}) :
                    Send(i, [valid |-> validMembers, lie |-> l])
       /\ UNCHANGED <<phase, running, seen, lost>>

Lie(j) == msg[j].lie

\* quorumPublicKey and quorumVvecHash of a commitment: a key that j made up, and
\* whether the hash is that of the verification vector.
Stated(j) == [key |-> IF Lie(j) = "key" THEN {j} ELSE {}, vvec |-> Lie(j) # "vvec"]

\* The operator signature of j's commitment verifies.
Signed(j) == Lie(j) \notin {"hash", "sig"}

M_NothingVerified(i, j) == TRUE

\* The checks of ReceiveMessage, which need the verification vectors.
Plausible(i, j) ==
    msg[j].valid \subseteq session[i].vvec => Lie(j) \in {"none", "sig"}

\* GetSignHash of a commitment does not contain the sender.
SignHash(j) == <<msg[j].valid, Stated(j)>>

\* BatchVerifyMessageSigs on the commitments of S, and the messages of the
\* nodes it returns.  With two equal hashes it verifies one by one, and D are
\* the messages of the nodes that sent an invalid one.  Otherwise, when the
\* aggregate is invalid, it returns only the node that sent the last message
\* (first stays TRUE in the loop).  Only i's own message is from node -1.
Dropped(i, S, D) ==
    /\ D \subseteq S
    /\ IF \A j \in S : Signed(j) THEN D = {}
       ELSE IF \E j, k \in S : j # k /\ SignHash(j) = SignHash(k)
       THEN /\ {j \in S : ~Signed(j)} \subseteq D
            /\ i \in D => ~Signed(i)
       ELSE D # {} /\ (i \in D => D = {i})

\* ProcessPendingMessageBatch for commitments: ReceiveMessage of those in S \ D.
ReceiveCommitments(i, S) ==
    /\ phase = "commit"
    /\ i \in running
    /\ S # {} /\ S \subseteq Sent \ seen[i]
    /\ seen' = [seen EXCEPT ![i] = @ \cup S]
    /\ \E D \in SUBSET S :
         /\ Dropped(i, S, D)
         /\ session' = [session EXCEPT ![i].valid =
                           @ \cup {j \in S \ D : Plausible(i, j)}]
         /\ lost' = lost \cup {<<i, j>> : j \in {k \in D : Signed(k)}}
    /\ UNCHANGED <<phase, running, started, msg>>

-----------------------------------------------------------------------------
\* The final commitment on V, given the commitment that comes first.
Aggregate(cvec, V, first) ==
    [valid |-> V, stated |-> Stated(first),
     signers |-> {j \in cvec : Stated(j) = Stated(first)}]

CommittedTo(s, V) == {j \in s.valid : msg[j].valid = V}

M_AnySigners(cvec) == cvec # {}

\* The commitment is not "signed by a minority".  The signers that agree with
\* the first one are not counted again.
Enough(cvec) == Cardinality(cvec) >= MinSize

\* One final commitment for each set of valid members.  Where no quorum
\* signature can be recovered from the shares there is one that does not verify.
FinalizeCommitments(i) ==
    LET s == session[i]
        ready == {V \in {msg[j].valid : j \in s.valid} :
                      Enough(CommittedTo(s, V))}
    IN /\ StartPhase(i, "finalize")
       /\ \E first \in [ready -> s.valid] :
             /\ \A V \in ready : first[V] \in CommittedTo(s, V)
             /\ session' = [session EXCEPT ![i].final =
                    {Aggregate(CommittedTo(s, V), V, first[V]) : V \in ready}]
       /\ UNCHANGED <<phase, running, msg, seen, lost>>

\* CFinalCommitment::Verify with signatures.  The aggregate of the signers'
\* signatures and the signature recovered from their shares are valid when all
\* of them are, over the hash of what is stated, with the quorum's key.
Verify(f) ==
    /\ Cardinality(f.valid) >= MinSize
    /\ Cardinality(f.signers) >= MinSize
    /\ Cardinality(f.signers) >= Threshold
    /\ \A k \in f.signers : /\ SignHash(k) = <<f.valid, f.stated>>
                             /\ Lie(k) \in {"none", "vvec"}

-----------------------------------------------------------------------------
M_OneQueue == seen

\* The messages of each phase have a queue of their own.
NextQueue == [i \in Members |-> {}]

Mishaps(l, r) == Cardinality(l) + Cardinality(Members \ r)

\* UpdatedBlockTip sets the next phase and WaitForNextPhase returns.  What a
\* member has not taken from the queue by then is lost for it.  The commitments
\* stay: each member has kept the ones it received (prematureCommitments).
NextPhase ==
    LET missed == {<<i, j>> : i \in running, j \in Sent}
        left == {p \in missed : p[2] \notin seen[p[1]]}
    IN /\ phase # "finalize"
       /\ running \subseteq started
       /\ phase' = CASE phase = "contribute" -> "complain"
                     [] phase = "complain" -> "justify"
                     [] phase = "justify" -> "commit"
                     [] phase = "commit" -> "finalize"
       /\ started' = {}
       /\ seen' = NextQueue
       /\ lost' = lost \cup left
       /\ left # {} => Mishaps(lost', running) <= MaxMishaps
       /\ msg' = IF phase = "commit" THEN msg ELSE Silence
       /\ UNCHANGED <<running, session>>

\* AbortPhaseException, or the node stops: the session is gone, what has been
\* written or handed over to the block processor stays.
Abort(i) ==
    /\ i \in running
    /\ Mishaps(lost, running) < MaxMishaps
    /\ running' = running \ {i}
    /\ session' = [session EXCEPT ![i] =
           [NewSession EXCEPT !.vvec = session[i].vvec, !.sk = session[i].sk,
                              !.final = session[i].final]]
    /\ UNCHANGED <<phase, started, msg, seen, lost>>

Next ==
    \/ \E i \in Members :
          \/ Contribute(i) \/ VerifyAndComplain(i) \/ VerifyAndJustify(i)
          \/ VerifyAndCommit(i) \/ FinalizeCommitments(i) \/ Abort(i)
          \/ \E j \in Members : \/ ReceiveContribution(i, j)
                                \/ ReceiveComplaint(i, j)
                                \/ ReceiveJustification(i, j)
          \/ \E S \in SUBSET Members : ReceiveCommitments(i, S)
    \/ NextPhase

Spec == Init /\ [][Next]_vars

-----------------------------------------------------------------------------
Message ==
    CASE phase = "contribute" -> Contributions
      [] phase = "complain" -> Complaints
      [] phase = "justify" -> Justifications
      [] OTHER -> Commitments

\* The types.  The database has a share only of a member whose verification
\* vector it has, and a member in pend or valid sent the message.
TypeOK ==
    /\ phase \in {"contribute", "complain", "justify", "commit", "finalize"}
    /\ running \subseteq Members /\ started \subseteq Members
    /\ msg \in [Members -> Message \cup {NoMessage}]
    /\ \A i \in Members :
          /\ seen[i] \subseteq Sent
          /\ session[i].bad \cup session[i].weComplain \subseteq Members
          /\ session[i].pend \subseteq session[i].vvec \X BOOLEAN
          /\ session[i].sk \subseteq session[i].vvec
          /\ session[i].vvec \subseteq Members
          /\ session[i].votes \in [Members -> SUBSET Members]
          /\ session[i].open \in [Members -> SUBSET Members]
          /\ session[i].valid \subseteq Sent
    /\ lost \subseteq Members \X Members

Missed(i) == {j \in Members : <<i, j>> \in lost}

\* i has drawn its conclusions.
Concluded(i) ==
    /\ i \in running
    /\ phase = "finalize" \/ (phase = "commit" /\ i \in started)

\* "propagation will ensure that all nodes see the same" (comment in
\* VerifyAndComplain): two members that missed no message come to the same
\* set of bad members, in whatever order they took the messages, before or
\* after their start functions, and whatever others lost or lied about.
ViewsAgree ==
    \A i, k \in Members :
        Concluded(i) /\ Concluded(k) /\ Missed(i) = {} /\ Missed(k) = {}
        => session[i].bad = session[k].bad

\* A member that m holds to be bad complained about m: VerifyAndJustify passes
\* over its complaint, VerifyAndCommit counts it.
Unanswered(m) == session[m].open[m] \cap session[m].bad # {}

\* As long as no message is lost, a member that follows the protocol to the
\* end is bad for nobody, whatever the faulty ones send; the one exception
\* are the complaints nobody answers.
HonestKept ==
    lost = {} => \A i \in Members, m \in Honest \cap running :
        Concluded(i) /\ m \in session[i].bad => Unanswered(m)

\* When in addition enough members follow the protocol, each of them ends the
\* session with exactly one final commitment.  It verifies, the honest members
\* are valid in it and have signed it, and each of them holds the shares of all
\* valid members that it needs to sign for the quorum.
QuorumFormed ==
    LET good == Honest \cap running
    IN phase = "finalize" /\ lost = {} /\ Cardinality(good) >= MinSize
       /\ (\A m \in good : ~Unanswered(m))
       => \A i \in good \cap started : \E f \in session[i].final :
              /\ session[i].final = {f}
              /\ Verify(f)
              /\ good \subseteq f.valid \cap f.signers
              /\ \A m \in good : f.valid \subseteq session[m].sk

\* "only valid if enough premature commitments were aggregated": whatever is
\* lost, all final commitments of all members are on the same valid members,
\* and those that verify are on the same key and verification vector.
OneKey ==
    \A i, k \in Members : \A f \in session[i].final, g \in session[k].final :
        /\ f.valid = g.valid
        /\ Verify(f) /\ Verify(g) => f.stated = g.stated
=============================================================================
