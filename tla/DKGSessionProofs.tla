-------------------------- MODULE DKGSessionProofs --------------------------
(***************************************************************************)
(* Five results about a DKG session of any size, with any faulty members   *)
(* and any number of lost messages and aborts: the state has its type;     *)
(* members that missed nothing agree about who is bad; all final           *)
(* commitments are on one set of valid members; no member that follows the *)
(* protocol is found bad while nothing is lost, and then enough such       *)
(* members form a quorum.  The inductive invariant of each result is a     *)
(* conjunction of parts, TInv for the types and what was sent always one   *)
(* of them, proved one after the other below.                              *)
(***************************************************************************)
EXTENDS DKGSession, TLAPS

Finals == [valid : SUBSET Members, signers : SUBSET Members,
           stated : [key : SUBSET Members, vvec : BOOLEAN]]

Sessions ==
    [bad : SUBSET Members, weComplain : SUBSET Members,
     pend : SUBSET (Members \X BOOLEAN),
     votes : [Members -> SUBSET Members], open : [Members -> SUBSET Members],
     vvec : SUBSET Members, sk : SUBSET Members, valid : SUBSET Members,
     final : SUBSET Finals]

\* What the proofs need of the types.  A member that has not started the phase
\* has sent nothing in it, and nobody has taken what was not sent.
TInv ==
    /\ phase \in {"contribute", "complain", "justify", "commit", "finalize"}
    /\ running \subseteq Members
    /\ msg = [j \in Members |-> msg[j]]
    /\ seen \in [Members -> SUBSET Members]
    /\ session \in [Members -> Sessions]
    /\ \A i \in Members : seen[i] \subseteq Sent
    /\ phase # "finalize" => Sent \subseteq started
    /\ IF phase \in {"commit", "finalize"}
       THEN \A j \in Sent : msg[j].valid \subseteq Members
       ELSE \A i \in Members : session[i].valid = {}
    /\ \A i \in Members : session[i].valid \subseteq Sent

-----------------------------------------------------------------------------
\* There are final commitments only at the end, and enough members have sent
\* a commitment to the valid members of each.
KInv ==
    /\ phase # "finalize" => \A i \in Members : session[i].final = {}
    /\ \A i \in Members : \A f \in session[i].final :
          \E T \in SUBSET Sent :
              Cardinality(T) >= MinSize /\ \A k \in T : msg[k].valid = f.valid

-----------------------------------------------------------------------------
Complete(i) == i \in running /\ Missed(i) = {}

\* The members that i holds or will hold to be bad when it justifies.
Out(i) == (Members \ session[i].vvec)
          \cup {m \in Members : Cardinality(session[i].votes[m]) >= BadVotes}

\* What becomes of j at i with the justifications sent so far, once i has taken
\* the one of j.
WillBeBad(i, j) ==
    IF j \in seen[i] THEN j \in session[i].bad
    ELSE /\ msg[j] # NoMessage
         /\ ~(msg[j].for \subseteq session[i].open[j]) \/ msg[j].lies # {}

WillBeOpen(i, j) ==
    IF j \notin seen[i] /\ msg[j] # NoMessage /\ msg[j].for \subseteq session[i].open[j]
    THEN session[i].open[j] \ (msg[j].for \ msg[j].lies)
    ELSE session[i].open[j]

\* The members that i leaves out of its commitment.
Concl(i) == session[i].bad \cup {m \in Members : session[i].open[m] # {}}

\* In every phase, what i knows is a function of the messages it has taken.
ContributeInv(i) ==
    /\ session[i].vvec = seen[i]
    /\ session[i].bad = {}
    /\ \A m \in Members : session[i].votes[m] = {} /\ session[i].open[m] = {}

ComplainInv(i) ==
    /\ session[i].bad = IF i \in started THEN Members \ session[i].vvec ELSE {}
    /\ \A m \in Members :
          /\ session[i].votes[m] = {j \in seen[i] : m \in msg[j].bad}
          /\ session[i].open[m] = {j \in seen[i] : m \in msg[j].complain}

JustifyInv(i) ==
    /\ Members \ session[i].vvec \subseteq session[i].bad
    /\ i \in started => Out(i) \subseteq session[i].bad
    /\ \A j \in Members \ Out(i) : j \notin seen[i] => j \notin session[i].bad

CommitInv(i) == i \in started => session[i].bad = Concl(i)

Agree(i, k) ==
    /\ phase = "complain" => session[i].vvec = session[k].vvec
    /\ phase = "justify" =>
          /\ Out(i) = Out(k)
          /\ \A j \in Members \ Out(i) : /\ WillBeBad(i, j) <=> WillBeBad(k, j)
                                         /\ WillBeOpen(i, j) = WillBeOpen(k, j)
    /\ phase = "commit" => Concl(i) = Concl(k)
    /\ phase = "finalize" => session[i].bad = session[k].bad

Own(i) ==
    /\ phase = "contribute" => ContributeInv(i)
    /\ phase = "complain" => ComplainInv(i)
    /\ phase = "justify" => JustifyInv(i)
    /\ phase = "commit" => CommitInv(i)

VInv ==
    /\ \A i \in running : Own(i)
    /\ \A i, k \in Members : Complete(i) /\ Complete(k) => Agree(i, k)

-----------------------------------------------------------------------------
\* What each handler makes of the session it works on.

LEMMA NewSessionType == NewSession \in Sessions
BY Zenon DEF NewSession, Sessions

LEMMA VerifyPendingFacts ==
    ASSUME NEW s \in Sessions
    PROVE  LET t == VerifyPendingContributions(s)
           IN /\ t \in Sessions
              /\ t.bad = s.bad /\ t.vvec = s.vvec /\ t.votes = s.votes
              /\ t.open = s.open /\ t.final = s.final /\ t.valid = s.valid
BY Zenon DEF VerifyPendingContributions, Sessions

\* t is s after the complaint m of j.
ComplaintResult(s, t, j, m) ==
    /\ t.bad = s.bad /\ t.vvec = s.vvec /\ t.final = s.final /\ t.valid = s.valid
    /\ \A x \in Members :
          /\ t.votes[x] = IF x \in m.bad THEN s.votes[x] \cup {j} ELSE s.votes[x]
          /\ t.open[x] = IF x \in m.complain THEN s.open[x] \cup {j} ELSE s.open[x]

LEMMA AfterComplaintFacts ==
    ASSUME NEW s \in Sessions, NEW j \in Members, NEW m
    PROVE  /\ AfterComplaint(s, j, m) \in Sessions
           /\ ComplaintResult(s, AfterComplaint(s, j, m), j, m)
<1>1. Named(s.votes, j, m.bad) \in [Members -> SUBSET Members]
  BY Zenon DEF Named, Sessions
<1>2. Named(s.open, j, m.complain) \in [Members -> SUBSET Members]
  BY Zenon DEF Named, Sessions
<1> DEFINE t == AfterComplaint(s, j, m)
<1>3. /\ t.votes = Named(s.votes, j, m.bad) /\ t.open = Named(s.open, j, m.complain)
      /\ t \in Sessions /\ t.bad = s.bad /\ t.vvec = s.vvec /\ t.final = s.final
      /\ t.valid = s.valid
  BY <1>1, <1>2, Zenon DEF AfterComplaint, Sessions
<1> QED
  BY <1>3, Zenon DEF Named, ComplaintResult

\* t is s after the justification m of j.
JustificationResult(s, t, j, m) ==
    /\ t.vvec = s.vvec /\ t.votes = s.votes /\ t.final = s.final /\ t.valid = s.valid
    /\ s.bad \subseteq t.bad /\ t.bad \subseteq s.bad \cup {j}
    /\ \A x \in Members \ {j} : t.open[x] = s.open[x]
    /\ j \notin s.bad =>
          /\ j \in t.bad <=> (~(m.for \subseteq s.open[j]) \/ m.lies # {})
          /\ t.open[j] = IF m.for \subseteq s.open[j]
                         THEN s.open[j] \ (m.for \ m.lies) ELSE s.open[j]

LEMMA AfterJustificationFacts ==
    ASSUME NEW s \in Sessions, NEW i \in Members, NEW j \in Members, NEW m
    PROVE  /\ AfterJustification(i, s, j, m) \in Sessions
           /\ JustificationResult(s, AfterJustification(i, s, j, m), j, m)
<1> DEFINE t == AfterJustification(i, s, j, m)
<1>1. CASE j \in s.bad
  BY <1>1, Zenon DEF AfterJustification, Sessions, JustificationResult
<1>2. CASE j \notin s.bad /\ ~(m.for \subseteq s.open[j])
  BY <1>2, Zenon DEF AfterJustification, Sessions, JustificationResult
<1>3. CASE j \notin s.bad /\ m.for \subseteq s.open[j]
  <2> DEFINE o == [s.open EXCEPT ![j] = @ \ (m.for \ m.lies)]
  <2>1. o \in [Members -> SUBSET Members]
    BY Zenon DEF Sessions
  <2>2. t = [s EXCEPT !.bad = IF m.lies # {} THEN @ \cup {j} ELSE @,
                      !.open = o,
                      !.weComplain = IF i \in m.for \ m.lies THEN @ \ {j} ELSE @,
                      !.sk = IF i \in m.for \ m.lies THEN @ \cup {j} ELSE @]
    BY <1>3, Zenon DEF AfterJustification
  <2> HIDE DEF t, o
  <2>3. /\ t \in Sessions
        /\ t.bad = IF m.lies # {} THEN s.bad \cup {j} ELSE s.bad
        /\ t.open = o /\ t.vvec = s.vvec /\ t.votes = s.votes /\ t.final = s.final
        /\ t.valid = s.valid
    BY <2>1, <2>2, Zenon DEF Sessions
  <2>4. /\ o[j] = s.open[j] \ (m.for \ m.lies)
        /\ \A x \in Members \ {j} : o[x] = s.open[x]
    BY Zenon DEF o, Sessions
  <2> QED
    BY <1>3, <2>3, <2>4, Zenon DEF t, JustificationResult
<1> QED
  BY <1>1, <1>2, <1>3, Zenon

-----------------------------------------------------------------------------
\* What each action does to the session of i, as far as the proofs need it.

LEMMA ContributionEffect ==
    ASSUME TInv, NEW i \in Members, NEW j \in Members, ReceiveContribution(i, j)
    PROVE  \E t \in Sessions :
              /\ session' = [session EXCEPT ![i] = t]
              /\ t.vvec = session[i].vvec \cup {j}
              /\ t.bad = session[i].bad /\ t.votes = session[i].votes
              /\ t.open = session[i].open /\ t.final = session[i].final
              /\ t.valid = session[i].valid
<1>1. session[i] \in Sessions
  BY Zenon DEF TInv
<1>2. PICK C \in Lies(i, {j}) :
        LET s == [session[i] EXCEPT !.vvec = @ \cup {j}, !.weComplain = @ \cup C]
            t == [s EXCEPT !.pend = @ \cup {<<j, i \notin msg[j].lies>>}]
        IN session' = [session EXCEPT ![i] =
               IF C # {} THEN s
               ELSE IF Cardinality(t.pend) < VerifyBatch THEN t
               ELSE VerifyPendingContributions(t)]
  BY Zenon DEF ReceiveContribution
<1> DEFINE s == [session[i] EXCEPT !.vvec = @ \cup {j}, !.weComplain = @ \cup C]
           t == [s EXCEPT !.pend = @ \cup {<<j, i \notin msg[j].lies>>}]
           u == VerifyPendingContributions(t)
<1>3. C \subseteq Members
  BY <1>2, Zenon DEF Lies
<1>4. /\ s \in Sessions /\ s.vvec = session[i].vvec \cup {j}
      /\ s.bad = session[i].bad /\ s.votes = session[i].votes
      /\ s.open = session[i].open /\ s.final = session[i].final
      /\ s.valid = session[i].valid
  BY <1>1, <1>3, Zenon DEF Sessions
<1> HIDE DEF s
<1>5. s.pend \cup {<<j, i \notin msg[j].lies>>} \in SUBSET (Members \X BOOLEAN)
  <2> DEFINE fits == i \notin msg[j].lies
  <2>1. s.pend \in SUBSET (Members \X BOOLEAN)
    BY <1>4, Zenon DEF Sessions
  <2>2. fits \in BOOLEAN
    BY Zenon
  <2> HIDE DEF fits
  <2>3. s.pend \cup {<<j, fits>>} \in SUBSET (Members \X BOOLEAN)
    BY <2>1, <2>2
  <2> QED
    BY <2>3, Zenon DEF fits
<1>6. /\ t \in Sessions /\ t.vvec = s.vvec /\ t.bad = s.bad /\ t.votes = s.votes
      /\ t.open = s.open /\ t.final = s.final /\ t.valid = s.valid
  BY <1>4, <1>5, Zenon DEF Sessions
<1> HIDE DEF t
<1>7. /\ u \in Sessions /\ u.vvec = t.vvec /\ u.bad = t.bad /\ u.votes = t.votes
      /\ u.open = t.open /\ u.final = t.final /\ u.valid = t.valid
  BY <1>6, VerifyPendingFacts, Zenon
<1> HIDE DEF u
<1>8. \/ session' = [session EXCEPT ![i] = s]
      \/ session' = [session EXCEPT ![i] = t]
      \/ session' = [session EXCEPT ![i] = u]
  BY <1>2, Zenon DEF s, t, u
<1> QED
  BY <1>4, <1>6, <1>7, <1>8

LEMMA ComplainEffect ==
    ASSUME TInv, NEW i \in Members, VerifyAndComplain(i)
    PROVE  \E t \in Sessions :
              /\ session' = [session EXCEPT ![i] = t]
              /\ t.bad = session[i].bad \cup (Members \ session[i].vvec)
              /\ t.vvec = session[i].vvec /\ t.votes = session[i].votes
              /\ t.open = session[i].open /\ t.final = session[i].final
              /\ t.valid = session[i].valid
<1> DEFINE s == VerifyPendingContributions(session[i])
           t == [s EXCEPT !.bad = s.bad \cup (Members \ s.vvec)]
<1>1. session[i] \in Sessions
  BY Zenon DEF TInv
<1>2. session' = [session EXCEPT ![i] = t]
  BY Zenon DEF VerifyAndComplain
<1>3. /\ s \in Sessions /\ s.bad = session[i].bad /\ s.vvec = session[i].vvec
      /\ s.votes = session[i].votes /\ s.open = session[i].open
      /\ s.final = session[i].final /\ s.valid = session[i].valid
  BY <1>1, VerifyPendingFacts, Zenon
<1> HIDE DEF s
<1>4. /\ t \in Sessions /\ t.bad = s.bad \cup (Members \ s.vvec)
      /\ t.vvec = s.vvec /\ t.votes = s.votes /\ t.open = s.open /\ t.final = s.final
      /\ t.valid = s.valid
  BY <1>3, Zenon DEF Sessions
<1> QED
  BY <1>2, <1>3, <1>4, Zenon

\* VerifyAndJustify and VerifyAndCommit only add members to bad.
LEMMA BadEffect ==
    ASSUME TInv, NEW i \in Members, NEW B \in SUBSET Members,
           session' = [session EXCEPT ![i].bad = B]
    PROVE  \E t \in Sessions :
              /\ session' = [session EXCEPT ![i] = t]
              /\ t.bad = B
              /\ t.vvec = session[i].vvec /\ t.votes = session[i].votes
              /\ t.open = session[i].open /\ t.final = session[i].final
              /\ t.valid = session[i].valid
<1> DEFINE t == [session[i] EXCEPT !.bad = B]
<1>1. session[i] \in Sessions
  BY Zenon DEF TInv
<1>2. session' = [session EXCEPT ![i] = t]
  BY Zenon
<1>3. /\ t \in Sessions /\ t.bad = B
      /\ t.vvec = session[i].vvec /\ t.votes = session[i].votes
      /\ t.open = session[i].open /\ t.final = session[i].final
      /\ t.valid = session[i].valid
  BY <1>1, Zenon DEF Sessions
<1> QED
  BY <1>2, <1>3, Zenon

LEMMA JustifyEffect ==
    ASSUME TInv, NEW i \in Members, VerifyAndJustify(i)
    PROVE  \E t \in Sessions :
              /\ session' = [session EXCEPT ![i] = t]
              /\ t.bad = session[i].bad \cup
                    {m \in Members : Cardinality(session[i].votes[m]) >= BadVotes}
              /\ t.vvec = session[i].vvec /\ t.votes = session[i].votes
              /\ t.open = session[i].open /\ t.final = session[i].final
              /\ t.valid = session[i].valid
<1> DEFINE B == session[i].bad \cup
                {m \in Members : Cardinality(session[i].votes[m]) >= BadVotes}
<1>1. B \in SUBSET Members
  BY Zenon DEF TInv, Sessions
<1>2. session' = [session EXCEPT ![i].bad = B]
  BY Zenon DEF VerifyAndJustify
<1> HIDE DEF B
<1>3. PICK t \in Sessions :
              /\ session' = [session EXCEPT ![i] = t]
              /\ t.bad = B
              /\ t.vvec = session[i].vvec /\ t.votes = session[i].votes
              /\ t.open = session[i].open /\ t.final = session[i].final
              /\ t.valid = session[i].valid
  BY <1>1, <1>2, BadEffect, Zenon
<1> QED
  BY <1>3, Zenon DEF B

LEMMA CommitEffect ==
    ASSUME TInv, NEW i \in Members, VerifyAndCommit(i)
    PROVE  \E t \in Sessions :
              /\ session' = [session EXCEPT ![i] = t]
              /\ t.bad = Concl(i)
              /\ t.open = session[i].open /\ t.final = session[i].final
              /\ t.valid = session[i].valid
<1>1. Concl(i) \in SUBSET Members
  BY Zenon DEF TInv, Sessions, Concl
<1>2. session' = [session EXCEPT ![i].bad = Concl(i)]
  BY Zenon DEF VerifyAndCommit, Concl
<1>3. PICK t \in Sessions :
              /\ session' = [session EXCEPT ![i] = t]
              /\ t.bad = Concl(i)
              /\ t.vvec = session[i].vvec /\ t.votes = session[i].votes
              /\ t.open = session[i].open /\ t.final = session[i].final
              /\ t.valid = session[i].valid
  BY <1>1, <1>2, BadEffect, Zenon
<1> QED
  BY <1>3, Zenon

LEMMA CommitmentsEffect ==
    ASSUME TInv, NEW i \in Members, NEW S \in SUBSET Members, ReceiveCommitments(i, S)
    PROVE  \E t \in Sessions :
              /\ session' = [session EXCEPT ![i] = t]
              /\ t.bad = session[i].bad /\ t.open = session[i].open
              /\ t.final = session[i].final
              /\ t.valid \subseteq session[i].valid \cup S
<1>1. PICK D \in SUBSET S : session' = [session EXCEPT ![i].valid =
                               @ \cup {j \in S \ D : Plausible(i, j)}]
  BY Zenon DEF ReceiveCommitments
<1> DEFINE P == {j \in S \ D : Plausible(i, j)}
           t == [session[i] EXCEPT !.valid = @ \cup P]
<1>2. session[i] \in Sessions
  BY Zenon DEF TInv
<1>3. session' = [session EXCEPT ![i] = t]
  BY <1>1, Zenon
<1>4. P \subseteq Members /\ P \subseteq S
  BY Zenon
<1> HIDE DEF P
<1>5. /\ t \in Sessions /\ t.bad = session[i].bad /\ t.open = session[i].open
      /\ t.final = session[i].final /\ t.valid = session[i].valid \cup P
  BY <1>2, <1>4, Zenon DEF Sessions
<1> QED
  BY <1>3, <1>4, <1>5, Zenon

LEMMA StatedType ==
    ASSUME NEW j \in Members
    PROVE  Stated(j) \in [key : SUBSET Members, vvec : BOOLEAN]
<1> DEFINE v == Lie(j) # "vvec"
           K == IF Lie(j) = "key" THEN {j} ELSE {}
<1>1. v \in BOOLEAN
  BY Zenon
<1>2. K \in SUBSET Members
  BY Zenon
<1>3. Stated(j) = [key |-> K, vvec |-> v]
  BY Zenon DEF Stated
<1> HIDE DEF v, K
<1> QED
  BY <1>1, <1>2, <1>3

LEMMA FinalizeEffect ==
    ASSUME TInv, NEW i \in Members, FinalizeCommitments(i)
    PROVE  \E t \in Sessions :
              /\ session' = [session EXCEPT ![i] = t]
              /\ t.bad = session[i].bad /\ t.valid = session[i].valid
              /\ \A f \in t.final : Enough(CommittedTo(session[i], f.valid))
<1> DEFINE s == session[i]
           ready == {V \in {msg[j].valid : j \in s.valid} : Enough(CommittedTo(s, V))}
<1>1. s \in Sessions /\ s.valid \subseteq Members
  BY Zenon DEF TInv, Sessions
<1>2. PICK first \in [ready -> s.valid] :
         session' = [session EXCEPT ![i].final =
                {Aggregate(CommittedTo(s, V), V, first[V]) : V \in ready}]
  BY Zenon DEF FinalizeCommitments
<1> DEFINE F == {Aggregate(CommittedTo(s, V), V, first[V]) : V \in ready}
           t == [s EXCEPT !.final = F]
<1>3. session' = [session EXCEPT ![i] = t]
  BY <1>2, Zenon
<1>4. \A f \in F : f \in Finals /\ Enough(CommittedTo(s, f.valid))
  <2> SUFFICES ASSUME NEW V \in ready
               PROVE  LET f == Aggregate(CommittedTo(s, V), V, first[V])
                      IN f \in Finals /\ Enough(CommittedTo(s, f.valid))
    BY Zenon
  <2> DEFINE f == Aggregate(CommittedTo(s, V), V, first[V])
  <2>1. Enough(CommittedTo(s, V))
    BY Zenon
  <2>2. V \subseteq Members
    <3>1. PICK j \in s.valid : V = msg[j].valid
      BY Zenon
    <3>2. phase = "finalize" /\ j \in Sent
      BY <3>1, Zenon DEF TInv, FinalizeCommitments, StartPhase
    <3> QED
      BY <3>1, <3>2, Zenon DEF TInv
  <2>3. Stated(first[V]) \in [key : SUBSET Members, vvec : BOOLEAN]
    BY <1>1, <1>2, StatedType, Zenon
  <2> DEFINE S == {j \in CommittedTo(s, V) : Stated(j) = Stated(first[V])}
  <2>4. S \subseteq Members
    BY <1>1, Zenon DEF CommittedTo
  <2>5. f = [valid |-> V, stated |-> Stated(first[V]), signers |-> S]
    BY Zenon DEF Aggregate
  <2> HIDE DEF f, S
  <2>6. f \in Finals /\ f.valid = V
    BY <2>2, <2>3, <2>4, <2>5, Zenon DEF Finals
  <2> QED
    BY <2>1, <2>6, Zenon DEF f
<1> HIDE DEF F
<1>5. /\ t \in Sessions /\ t.final = F /\ t.bad = s.bad /\ t.valid = s.valid
  BY <1>1, <1>4, Zenon DEF Sessions
<1> QED
  BY <1>3, <1>4, <1>5, Zenon

LEMMA AbortEffect ==
    ASSUME TInv, NEW i \in Members, Abort(i)
    PROVE  \E t \in Sessions :
              /\ session' = [session EXCEPT ![i] = t]
              /\ t.final = session[i].final /\ t.valid = {}
<1> DEFINE t == [NewSession EXCEPT !.vvec = session[i].vvec, !.sk = session[i].sk,
                                   !.final = session[i].final]
<1>1. session[i] \in Sessions
  BY Zenon DEF TInv
<1>2. t \in Sessions /\ t.final = session[i].final /\ t.valid = {}
  BY <1>1, NewSessionType, Zenon DEF NewSession, Sessions
<1>3. session' = [session EXCEPT ![i] = t]
  BY Zenon DEF Abort
<1> QED
  BY <1>2, <1>3, Zenon

-----------------------------------------------------------------------------
\* A start function may send the message of i, which has sent nothing before.
LEMMA StartFacts ==
    ASSUME TInv, phase # "finalize", NEW i \in Members \ started,
           \/ msg' = msg
           \/ \E r : msg' = [msg EXCEPT ![i] = r]
    PROVE  /\ msg' = [j \in Members |-> msg'[j]]
           /\ i \notin Sent
           /\ Sent \subseteq Sent' /\ Sent' \subseteq Sent \cup {i}
           /\ \A j \in Members \ {i} : msg'[j] = msg[j]
BY Zenon DEF TInv, Sent

\* The part of TInv that a step of i can disturb.
LEMMA TypePreserved ==
    ASSUME TInv, phase' = phase, NEW i \in Members, NEW t \in Sessions,
           running' \subseteq Members, started \subseteq started',
           session' = [session EXCEPT ![i] = t],
           msg' = msg, seen' = seen \/ \E S \in SUBSET Sent :
               seen' = [seen EXCEPT ![i] = @ \cup S],
           t.valid \subseteq Sent, phase \notin {"commit", "finalize"} => t.valid = {}
    PROVE  TInv'
<1>1. session' \in [Members -> Sessions] /\ Sent' = Sent
  BY Zenon DEF TInv, Sent
<1>2. \A k \in Members : session'[k].valid \subseteq Sent
  BY Zenon DEF TInv
<1>3. phase \notin {"commit", "finalize"} => \A k \in Members : session'[k].valid = {}
  BY Zenon DEF TInv
<1>4. seen' \in [Members -> SUBSET Members] /\ \A k \in Members : seen'[k] \subseteq Sent
  <2>1. Sent \subseteq Members
    BY Zenon DEF Sent
  <2> QED
    BY <2>1 DEF TInv
<1> QED
  BY <1>1, <1>2, <1>3, <1>4, Zenon DEF TInv

\* The same for a start function.
LEMMA TypePreservedByStart ==
    ASSUME TInv, phase' = phase, phase # "finalize", NEW i \in Members \ started,
           started' = started \cup {i}, running' = running, seen' = seen,
           \/ msg' = msg
           \/ \E r : /\ msg' = [msg EXCEPT ![i] = r]
                     /\ phase = "commit" => r.valid \subseteq Members,
           \/ session' = session
           \/ \E t \in Sessions : /\ session' = [session EXCEPT ![i] = t]
                                  /\ t.valid = session[i].valid
    PROVE  TInv'
<1>1. /\ msg' = [j \in Members |-> msg'[j]]
      /\ i \notin Sent
      /\ Sent \subseteq Sent' /\ Sent' \subseteq Sent \cup {i}
      /\ \A j \in Members \ {i} : msg'[j] = msg[j]
  BY StartFacts, Zenon
<1>2. session' \in [Members -> Sessions]
  BY Zenon DEF TInv
<1>3. \A k \in Members : session'[k].valid = session[k].valid
  BY Zenon DEF TInv
<1>4. phase = "commit" => \A j \in Sent' : msg'[j].valid \subseteq Members
  <2> SUFFICES ASSUME phase = "commit", NEW j \in Sent'
               PROVE  msg'[j].valid \subseteq Members
    BY Zenon
  <2>1. CASE j \in Sent
    BY <1>1, <2>1, Zenon DEF TInv, Sent
  <2>2. CASE j \notin Sent
    BY <1>1, <2>2, Zenon DEF TInv, Sent
  <2> QED
    BY <2>1, <2>2, Zenon
<1>5. Sent' \subseteq started'
  BY <1>1, Zenon DEF TInv
<1> QED
  BY <1>1, <1>2, <1>3, <1>4, <1>5, Zenon DEF TInv

LEMMA TypeStart ==
    ASSUME TInv, NEW i \in Members,
           Contribute(i) \/ VerifyAndComplain(i) \/ VerifyAndJustify(i) \/ VerifyAndCommit(i)
    PROVE  TInv'
<1>1. CASE Contribute(i)
  BY <1>1, TypePreservedByStart, Zenon DEF Contribute, StartPhase, Send
<1>2. CASE VerifyAndComplain(i)
  BY <1>2, ComplainEffect, TypePreservedByStart, Zenon DEF VerifyAndComplain, StartPhase, Send
<1>3. CASE VerifyAndJustify(i)
  BY <1>3, JustifyEffect, TypePreservedByStart, Zenon DEF VerifyAndJustify, StartPhase, Send
<1>4. CASE VerifyAndCommit(i)
  <2>1. \/ msg' = msg
        \/ \E r : msg' = [msg EXCEPT ![i] = r] /\ r.valid \subseteq Members
    <3> DEFINE V == Members \ (session[i].bad \cup {m \in Members : session[i].open[m] # {}})
    <3>1. V \subseteq Members
      BY Zenon
    <3>2. \/ msg' = msg
          \/ \E l : msg' = [msg EXCEPT ![i] = [valid |-> V, lie |-> l]]
      BY <1>4, Zenon DEF VerifyAndCommit, Send
    <3> HIDE DEF V
    <3>3. \A l : [valid |-> V, lie |-> l].valid \subseteq Members
      BY <3>1, Zenon
    <3> QED
      BY <3>2, <3>3, Zenon
  <2> QED
    BY <1>4, <2>1, CommitEffect, TypePreservedByStart, Zenon DEF VerifyAndCommit, StartPhase
<1> QED
  BY <1>1, <1>2, <1>3, <1>4, Zenon

LEMMA ComplaintEffect ==
    ASSUME TInv, NEW i \in Members, NEW j \in Members, ReceiveComplaint(i, j)
    PROVE  \E t \in Sessions : /\ session' = [session EXCEPT ![i] = t]
                               /\ ComplaintResult(session[i], t, j, msg[j])
<1> DEFINE s == session[i]
           m == msg[j]
<1>1. s \in Sessions
  BY Zenon DEF TInv
<1>2. session' = [session EXCEPT ![i] = AfterComplaint(s, j, m)]
  BY Zenon DEF ReceiveComplaint
<1> HIDE DEF s, m
<1>3. /\ AfterComplaint(s, j, m) \in Sessions
      /\ ComplaintResult(s, AfterComplaint(s, j, m), j, m)
  BY <1>1, AfterComplaintFacts, Zenon
<1> QED
  BY <1>2, <1>3, Zenon DEF s, m

LEMMA JustificationEffect ==
    ASSUME TInv, NEW i \in Members, NEW j \in Members, ReceiveJustification(i, j)
    PROVE  \E t \in Sessions : /\ session' = [session EXCEPT ![i] = t]
                               /\ JustificationResult(session[i], t, j, msg[j])
<1> DEFINE s == session[i]
           m == msg[j]
<1>1. s \in Sessions
  BY Zenon DEF TInv
<1>2. session' = [session EXCEPT ![i] = AfterJustification(i, s, j, m)]
  BY Zenon DEF ReceiveJustification
<1> HIDE DEF s, m
<1>3. /\ AfterJustification(i, s, j, m) \in Sessions
      /\ JustificationResult(s, AfterJustification(i, s, j, m), j, m)
  BY <1>1, AfterJustificationFacts, Zenon
<1> QED
  BY <1>2, <1>3, Zenon DEF s, m

LEMMA TypeReceive ==
    ASSUME TInv, NEW i \in Members, NEW j \in Members,
           \/ ReceiveContribution(i, j)
           \/ ReceiveComplaint(i, j)
           \/ ReceiveJustification(i, j)
    PROVE  TInv'
<1>1. /\ phase' = phase /\ running' = running /\ started' = started /\ msg' = msg
      /\ phase \notin {"commit", "finalize"}
      /\ j \in Sent /\ seen' = [seen EXCEPT ![i] = @ \cup {j}]
  BY Zenon DEF ReceiveContribution, ReceiveComplaint, ReceiveJustification, Take
<1>2. \E t \in Sessions : /\ session' = [session EXCEPT ![i] = t]
                          /\ t.valid = session[i].valid
  <2>1. CASE ReceiveContribution(i, j)
    BY <2>1, ContributionEffect, Zenon
  <2>2. CASE ReceiveComplaint(i, j)
    BY <2>2, ComplaintEffect, Zenon DEF ComplaintResult
  <2>3. CASE ReceiveJustification(i, j)
    <3>1. PICK t \in Sessions : /\ session' = [session EXCEPT ![i] = t]
                                /\ JustificationResult(session[i], t, j, msg[j])
      BY <2>3, JustificationEffect, Zenon
    <3>2. t.valid = session[i].valid
      BY <3>1, Zenon DEF JustificationResult
    <3> QED
      BY <3>1, <3>2, Zenon
  <2> QED
    BY <2>1, <2>2, <2>3, Zenon
<1>3. running \subseteq Members /\ session[i].valid = {}
  BY <1>1, Zenon DEF TInv
<1> QED
  BY <1>1, <1>2, <1>3, TypePreserved, Zenon

LEMMA TypeCommitments ==
    ASSUME TInv, NEW i \in Members, NEW S \in SUBSET Members, ReceiveCommitments(i, S)
    PROVE  TInv'
<1>1. /\ phase' = phase /\ running' = running /\ started' = started /\ msg' = msg
      /\ phase = "commit" /\ S \subseteq Sent /\ seen' = [seen EXCEPT ![i] = @ \cup S]
  BY Zenon DEF ReceiveCommitments
<1>2. running \subseteq Members /\ session[i].valid \subseteq Sent
  BY Zenon DEF TInv
<1> QED
  BY <1>1, <1>2, CommitmentsEffect, TypePreserved, Zenon

LEMMA TypeFinalize ==
    ASSUME TInv, NEW i \in Members, FinalizeCommitments(i)
    PROVE  TInv'
<1>1. /\ phase' = phase /\ running' = running /\ started \subseteq started' /\ msg' = msg
      /\ phase = "finalize" /\ seen' = seen
  BY Zenon DEF FinalizeCommitments, StartPhase
<1>2. running \subseteq Members /\ session[i].valid \subseteq Sent
  BY Zenon DEF TInv
<1> QED
  BY <1>1, <1>2, FinalizeEffect, TypePreserved, Zenon

LEMMA TypeAbort ==
    ASSUME TInv, NEW i \in Members, Abort(i)
    PROVE  TInv'
<1>1. /\ phase' = phase /\ running' \subseteq Members /\ started' = started /\ msg' = msg
      /\ seen' = seen
  BY Zenon DEF TInv, Abort
<1> QED
  BY <1>1, AbortEffect, TypePreserved, Zenon

LEMMA TypeNextPhase ==
    ASSUME TInv, NextPhase
    PROVE  TInv'
<1>1. /\ running' = running /\ session' = session /\ phase # "finalize"
      /\ seen' = [i \in Members |-> {}]
      /\ phase = "commit" => phase' = "finalize" /\ msg' = msg
      /\ phase # "commit" => phase' \in {"complain", "justify", "commit"} /\ msg' = Silence
  BY DEF NextPhase, NextQueue, TInv
<1>2. CASE phase = "commit"
  <2>1. Sent' = Sent
    BY <1>1, <1>2, Zenon DEF Sent
  <2>2. seen' \in [Members -> SUBSET Members] /\ \A i \in Members : seen'[i] = {}
    BY <1>1, Zenon
  <2> QED
    BY <1>1, <1>2, <2>1, <2>2, Zenon DEF TInv
<1>3. CASE phase # "commit"
  <2>1. Sent' = {} /\ msg' = [j \in Members |-> msg'[j]]
    BY <1>1, <1>3, Zenon DEF Sent, Silence
  <2>2. \A i \in Members : session[i].valid = {}
    BY <1>1, <1>3, Zenon DEF TInv
  <2> QED
    BY <1>1, <1>3, <2>1, <2>2, Zenon DEF TInv
<1> QED
  BY <1>2, <1>3, Zenon

LEMMA TypeInit == Init => TInv
BY NewSessionType DEF Init, TInv, Sent, Silence, NewSession

LEMMA TypeStep == TInv /\ [Next]_vars => TInv'
<1> SUFFICES ASSUME TInv, [Next]_vars PROVE TInv'
  BY Zenon
<1>1. CASE UNCHANGED vars
  BY <1>1, Zenon DEF vars, TInv, Sent
<1>2. ASSUME NEW i \in Members,
             \/ Contribute(i) \/ VerifyAndComplain(i) \/ VerifyAndJustify(i)
             \/ VerifyAndCommit(i) \/ FinalizeCommitments(i) \/ Abort(i)
      PROVE  TInv'
  BY <1>2, TypeStart, TypeFinalize, TypeAbort, Zenon
<1> QED
  BY <1>1, <1>2, TypeReceive, TypeCommitments, TypeNextPhase, Zenon DEF Next

-----------------------------------------------------------------------------
LEMMA FinalInit == Init => KInv
BY DEF Init, KInv, NewSession

\* Only FinalizeCommitments makes final commitments, and when it runs nobody
\* sends anything any more.
LEMMA FinalStep == TInv /\ KInv /\ [Next]_vars => KInv'
<1> SUFFICES ASSUME TInv, KInv, [Next]_vars PROVE KInv'
  BY Zenon
<1>1. ASSUME phase' = phase, \A i \in Members : session'[i].final = session[i].final,
             phase = "finalize" => msg' = msg
      PROVE  KInv'
  <2>1. CASE phase = "finalize"
    BY <1>1, <2>1 DEF KInv, Sent
  <2>2. CASE phase # "finalize"
    BY <1>1, <2>2, Zenon DEF KInv
  <2> QED
    BY <2>1, <2>2, Zenon
<1>2. ASSUME NEW i \in Members, NEW t \in Sessions, t.final = session[i].final,
             session' = [session EXCEPT ![i] = t]
      PROVE  \A k \in Members : session'[k].final = session[k].final
  BY <1>2, Zenon DEF TInv
<1>3. CASE UNCHANGED vars
  BY <1>1, <1>3, Zenon DEF vars
<1>4. ASSUME NEW i \in Members, Contribute(i)
      PROVE  KInv'
  BY <1>1, <1>4, Zenon DEF Contribute, StartPhase
<1>5. ASSUME NEW i \in Members, VerifyAndComplain(i)
      PROVE  KInv'
  <2>1. \A k \in Members : session'[k].final = session[k].final
    BY <1>2, <1>5, ComplainEffect, Zenon
  <2> QED
    BY <1>1, <1>5, <2>1, Zenon DEF VerifyAndComplain, StartPhase
<1>6. ASSUME NEW i \in Members, VerifyAndJustify(i)
      PROVE  KInv'
  <2>1. \A k \in Members : session'[k].final = session[k].final
    BY <1>2, <1>6, JustifyEffect, Zenon
  <2> QED
    BY <1>1, <1>6, <2>1, Zenon DEF VerifyAndJustify, StartPhase
<1>7. ASSUME NEW i \in Members, VerifyAndCommit(i)
      PROVE  KInv'
  <2>1. \A k \in Members : session'[k].final = session[k].final
    BY <1>2, <1>7, CommitEffect, Zenon
  <2> QED
    BY <1>1, <1>7, <2>1, Zenon DEF VerifyAndCommit, StartPhase
<1>8. ASSUME NEW i \in Members, NEW j \in Members, ReceiveContribution(i, j)
      PROVE  KInv'
  <2>1. \A k \in Members : session'[k].final = session[k].final
    BY <1>2, <1>8, ContributionEffect
  <2> QED
    BY <1>1, <1>8, <2>1, Zenon DEF ReceiveContribution
<1>9. ASSUME NEW i \in Members, NEW j \in Members, ReceiveComplaint(i, j)
      PROVE  KInv'
  <2>1. \A k \in Members : session'[k].final = session[k].final
    BY <1>2, <1>9, ComplaintEffect DEF ComplaintResult
  <2> QED
    BY <1>1, <1>9, <2>1, Zenon DEF ReceiveComplaint
<1>10. ASSUME NEW i \in Members, NEW j \in Members, ReceiveJustification(i, j)
       PROVE  KInv'
  <2>1. \A k \in Members : session'[k].final = session[k].final
    <3>1. PICK t \in Sessions : /\ session' = [session EXCEPT ![i] = t]
                                /\ JustificationResult(session[i], t, j, msg[j])
      BY <1>10, JustificationEffect, Zenon
    <3>2. t.final = session[i].final
      BY <3>1, Zenon DEF JustificationResult
    <3> QED
      BY <1>2, <3>1, <3>2, Zenon
  <2> QED
    BY <1>1, <1>10, <2>1, Zenon DEF ReceiveJustification
<1>11. ASSUME NEW i \in Members, NEW S \in SUBSET Members, ReceiveCommitments(i, S)
       PROVE  KInv'
  <2>1. \A k \in Members : session'[k].final = session[k].final
    BY <1>2, <1>11, CommitmentsEffect
  <2> QED
    BY <1>1, <1>11, <2>1, Zenon DEF ReceiveCommitments
<1>12. ASSUME NEW i \in Members, Abort(i)
       PROVE  KInv'
  <2>1. \A k \in Members : session'[k].final = session[k].final
    BY <1>2, <1>12, AbortEffect, Zenon
  <2> QED
    BY <1>1, <1>12, <2>1, Zenon DEF Abort
<1>13. CASE NextPhase
  <2>1. session' = session /\ phase # "finalize"
    BY <1>13 DEF NextPhase
  <2> QED
    BY <2>1, Zenon DEF KInv
<1>14. ASSUME NEW i \in Members, FinalizeCommitments(i)
       PROVE  KInv'
  <2>1. PICK t \in Sessions :
              /\ session' = [session EXCEPT ![i] = t]
              /\ \A f \in t.final : Enough(CommittedTo(session[i], f.valid))
    BY <1>14, FinalizeEffect, Zenon
  <2>2. phase' = phase /\ msg' = msg /\ phase = "finalize" /\ Sent' = Sent
    BY <1>14, Zenon DEF FinalizeCommitments, StartPhase, Sent
  <2>3. ASSUME NEW f \in t.final
        PROVE  \E T \in SUBSET Sent :
                  Cardinality(T) >= MinSize /\ \A k \in T : msg[k].valid = f.valid
    <3> DEFINE T == CommittedTo(session[i], f.valid)
    <3>1. Cardinality(T) >= MinSize
      BY <2>1, <2>3, Zenon DEF Enough
    <3>2. T \subseteq Sent /\ \A k \in T : msg[k].valid = f.valid
      BY Zenon DEF CommittedTo, TInv
    <3> QED
      BY <3>1, <3>2, Zenon
  <2>4. session'[i] = t /\ \A k \in Members \ {i} : session'[k] = session[k]
    BY <2>1, Zenon DEF TInv
  <2> QED
    BY <2>2, <2>3, <2>4 DEF KInv
<1> QED
  BY <1>3, <1>4, <1>5, <1>6, <1>7, <1>8, <1>9, <1>10, <1>11, <1>12, <1>13, <1>14, Zenon DEF Next

\* Two final commitments have a signer in common, who sent one commitment.
LEMMA FinalsAgree == TInv /\ KInv => OneKey
<1> SUFFICES ASSUME TInv, KInv, NEW i \in Members, NEW k \in Members,
                    NEW f \in session[i].final, NEW g \in session[k].final
             PROVE  /\ f.valid = g.valid
                    /\ Verify(f) /\ Verify(g) => f.stated = g.stated
  BY Zenon DEF OneKey
<1>1. PICK S \in SUBSET Sent : Cardinality(S) >= MinSize /\ \A j \in S : msg[j].valid = f.valid
  BY Zenon DEF KInv
<1>2. PICK T \in SUBSET Sent : Cardinality(T) >= MinSize /\ \A j \in T : msg[j].valid = g.valid
  BY Zenon DEF KInv
<1>3. S \cap T # {}
  BY <1>1, <1>2, Majority, Zenon DEF Sent
<1>4. f.valid = g.valid
  BY <1>1, <1>2, <1>3
<1>5. ASSUME Verify(f), Verify(g)
      PROVE  f.stated = g.stated
  <2>1. f.signers \in SUBSET Members /\ g.signers \in SUBSET Members
    BY DEF TInv, Sessions, Finals
  <2>2. Cardinality(f.signers) >= MinSize /\ Cardinality(g.signers) >= MinSize
    BY <1>5, Zenon DEF Verify
  <2>3. PICK j \in f.signers \cap g.signers : TRUE
    BY <2>1, <2>2, Majority, Zenon
  <2>4. SignHash(j) = <<f.valid, f.stated>> /\ SignHash(j) = <<g.valid, g.stated>>
    BY <1>5, <2>3, Zenon DEF Verify
  <2> QED
    BY <2>4
<1> QED
  BY <1>4, <1>5, Zenon

\* FinalizeCommitments: whatever is lost, whoever aborts and whatever the faulty
\* members send, all final commitments of a session are on the same valid
\* members, and those that verify are on the same key, as long as two sets of
\* minSize members have a member in common.
THEOREM FinalCommitmentsAgree == Spec => []OneKey
<1>1. Init => TInv /\ KInv
  BY TypeInit, FinalInit, Zenon
<1>2. TInv /\ KInv /\ [Next]_vars => (TInv /\ KInv)'
  BY TypeStep, FinalStep, Zenon
<1>3. TInv /\ KInv => OneKey
  BY FinalsAgree, Zenon
<1> QED
  BY <1>1, <1>2, <1>3, PTL DEF Spec

-----------------------------------------------------------------------------
LEMMA ViewInit == Init => VInv
BY DEF Init, VInv, Own, ContributeInv, Agree, NewSession

LEMMA ViewsKept ==
    ASSUME VInv, phase' = phase, running' \subseteq running, lost \subseteq lost',
           \A k \in running' : Own(k)',
           \A x, y \in running' : Agree(x, y) => Agree(x, y)'
    PROVE  VInv'
<1>1. \A x \in Members : Complete(x)' => Complete(x) /\ x \in running'
  BY Zenon DEF Complete, Missed
<1> QED
  BY <1>1, Zenon DEF VInv

\* A step of i leaves alone what the others know.
LEMMA OwnKept ==
    ASSUME TInv, NEW k \in Members, Own(k), phase' = phase,
           session'[k] = session[k], seen'[k] = seen[k],
           k \in started' <=> k \in started,
           \A j \in Sent : msg'[j] = msg[j]
    PROVE  Own(k)'
<1>1. seen[k] \subseteq Sent
  BY Zenon DEF TInv
<1>2. CASE phase = "contribute"
  BY <1>2, Zenon DEF Own, ContributeInv
<1>3. CASE phase = "complain"
  BY <1>1, <1>3 DEF Own, ComplainInv
<1>4. CASE phase = "justify"
  BY <1>4, Zenon DEF Own, JustifyInv, Out
<1>5. CASE phase = "commit"
  BY <1>5, Zenon DEF Own, CommitInv, Concl
<1>6. CASE phase = "finalize"
  BY <1>6, Zenon DEF Own
<1> QED
  BY <1>2, <1>3, <1>4, <1>5, <1>6, Zenon DEF TInv

\* What a session update at i does to the function session.
LEMMA SessionAt ==
    ASSUME TInv, NEW i \in Members, NEW t, session' = [session EXCEPT ![i] = t]
    PROVE  session'[i] = t /\ \A k \in Members \ {i} : session'[k] = session[k]
BY Zenon DEF TInv

LEMMA SeenAt ==
    ASSUME TInv, NEW i \in Members, NEW S, seen' = [seen EXCEPT ![i] = @ \cup S]
    PROVE  seen'[i] = seen[i] \cup S /\ \A k \in Members \ {i} : seen'[k] = seen[k]
BY Zenon DEF TInv

-----------------------------------------------------------------------------
LEMMA ViewContribute ==
    ASSUME TInv, VInv, NEW i \in Members, Contribute(i)
    PROVE  VInv'
<1>1. phase = "contribute" /\ UNCHANGED <<phase, running, seen, session, lost>>
  BY Zenon DEF Contribute, StartPhase
<1>2. \A k \in running' : Own(k)'
  BY <1>1, Zenon DEF VInv, Own, ContributeInv
<1>3. \A x, y \in running' : Agree(x, y)'
  BY <1>1, Zenon DEF Agree
<1> QED
  BY <1>1, <1>2, <1>3, ViewsKept, Zenon

LEMMA ViewReceiveContribution ==
    ASSUME TInv, VInv, NEW i \in Members, NEW j \in Members, ReceiveContribution(i, j)
    PROVE  VInv'
<1>1. /\ phase = "contribute" /\ UNCHANGED <<phase, running, started, msg, lost>>
      /\ seen' = [seen EXCEPT ![i] = @ \cup {j}]
  BY Zenon DEF ReceiveContribution, Take
<1>2. PICK t \in Sessions :
              /\ session' = [session EXCEPT ![i] = t]
              /\ t.vvec = session[i].vvec \cup {j}
              /\ t.bad = session[i].bad /\ t.votes = session[i].votes
              /\ t.open = session[i].open
  BY ContributionEffect
<1>3. session'[i] = t /\ \A k \in Members \ {i} : session'[k] = session[k]
  BY <1>2, SessionAt, Zenon
<1>4. seen'[i] = seen[i] \cup {j} /\ \A k \in Members \ {i} : seen'[k] = seen[k]
  BY <1>1, SeenAt, Zenon
<1>5. \A k \in running' : Own(k)'
  <2> SUFFICES ASSUME NEW k \in running PROVE Own(k)'
    BY <1>1, Zenon
  <2>1. Own(k) /\ k \in Members
    BY Zenon DEF VInv, TInv
  <2>2. CASE k = i
    <3>1. ContributeInv(i)
      BY <1>1, <2>1, <2>2, Zenon DEF Own
    <3>2. session'[i].vvec = seen'[i] /\ session'[i].bad = {}
      BY <1>2, <1>3, <1>4, <3>1, Zenon DEF ContributeInv
    <3>3. \A m \in Members : session'[i].votes[m] = {} /\ session'[i].open[m] = {}
      BY <1>2, <1>3, <3>1, Zenon DEF ContributeInv
    <3> QED
      BY <1>1, <2>2, <3>2, <3>3, Zenon DEF Own, ContributeInv
  <2>3. CASE k # i
    BY <1>1, <1>3, <1>4, <2>1, <2>3, OwnKept, Zenon
  <2> QED
    BY <2>2, <2>3, Zenon
<1>6. \A x, y \in running' : Agree(x, y)'
  BY <1>1, Zenon DEF Agree
<1> QED
  BY <1>1, <1>5, <1>6, ViewsKept, Zenon

LEMMA ViewComplain ==
    ASSUME TInv, VInv, NEW i \in Members, VerifyAndComplain(i)
    PROVE  VInv'
<1>1. /\ phase = "complain" /\ UNCHANGED <<phase, running, seen, lost>>
      /\ i \in running \ started /\ started' = started \cup {i}
      /\ msg' = msg \/ \E r : msg' = [msg EXCEPT ![i] = r]
  BY Zenon DEF VerifyAndComplain, StartPhase, Send
<1>2. PICK t \in Sessions :
              /\ session' = [session EXCEPT ![i] = t]
              /\ t.bad = session[i].bad \cup (Members \ session[i].vvec)
              /\ t.vvec = session[i].vvec /\ t.votes = session[i].votes
              /\ t.open = session[i].open
  BY ComplainEffect, Zenon
<1>3. session'[i] = t /\ \A k \in Members \ {i} : session'[k] = session[k]
  BY <1>2, SessionAt, Zenon
<1>4. i \notin Sent /\ \A j \in Members \ {i} : msg'[j] = msg[j]
  BY <1>1, StartFacts, Zenon
<1>5. \A j \in Sent : msg'[j] = msg[j]
  BY <1>4, Zenon DEF Sent
<1>6. \A k \in running' : Own(k)'
  <2> SUFFICES ASSUME NEW k \in running PROVE Own(k)'
    BY <1>1, Zenon
  <2>1. Own(k) /\ k \in Members /\ seen[k] \subseteq Sent
    BY Zenon DEF VInv, TInv
  <2>2. CASE k = i
    BY <1>1, <1>2, <1>3, <1>5, <2>1, <2>2 DEF Own, ComplainInv
  <2>3. CASE k # i
    BY <1>1, <1>3, <1>5, <2>1, <2>3, OwnKept, Zenon
  <2> QED
    BY <2>2, <2>3, Zenon
<1>7. \A x \in running : session'[x].vvec = session[x].vvec
  BY <1>2, <1>3, Zenon DEF TInv
<1>8. \A x, y \in running' : Agree(x, y) => Agree(x, y)'
  BY <1>1, <1>7, Zenon DEF Agree
<1> QED
  BY <1>1, <1>6, <1>8, ViewsKept, Zenon

LEMMA ViewReceiveComplaint ==
    ASSUME TInv, VInv, NEW i \in Members, NEW j \in Members, ReceiveComplaint(i, j)
    PROVE  VInv'
<1>1. /\ phase = "complain" /\ UNCHANGED <<phase, running, started, msg, lost>>
      /\ seen' = [seen EXCEPT ![i] = @ \cup {j}]
  BY Zenon DEF ReceiveComplaint, Take
<1>2. PICK t \in Sessions : /\ session' = [session EXCEPT ![i] = t]
                            /\ ComplaintResult(session[i], t, j, msg[j])
  BY ComplaintEffect, Zenon
<1>3. session'[i] = t /\ \A k \in Members \ {i} : session'[k] = session[k]
  BY <1>2, SessionAt, Zenon
<1>4. seen'[i] = seen[i] \cup {j} /\ \A k \in Members \ {i} : seen'[k] = seen[k]
  BY <1>1, SeenAt, Zenon
<1>5. /\ t.bad = session[i].bad /\ t.vvec = session[i].vvec
      /\ \A x \in Members :
            /\ t.votes[x] = IF x \in msg[j].bad THEN session[i].votes[x] \cup {j}
                            ELSE session[i].votes[x]
            /\ t.open[x] = IF x \in msg[j].complain THEN session[i].open[x] \cup {j}
                           ELSE session[i].open[x]
  BY <1>2, Zenon DEF ComplaintResult
<1>6. \A k \in running' : Own(k)'
  <2> SUFFICES ASSUME NEW k \in running PROVE Own(k)'
    BY <1>1, Zenon
  <2>1. Own(k) /\ k \in Members
    BY Zenon DEF VInv, TInv
  <2>2. CASE k = i
    <3>1. ComplainInv(i)
      BY <1>1, <2>1, <2>2, Zenon DEF Own
    <3>2. session'[i].bad = IF i \in started THEN Members \ session'[i].vvec ELSE {}
      BY <1>3, <1>5, <3>1, Zenon DEF ComplainInv
    <3>3. \A m \in Members :
             /\ session'[i].votes[m] = {l \in seen'[i] : m \in msg[l].bad}
             /\ session'[i].open[m] = {l \in seen'[i] : m \in msg[l].complain}
      <4> SUFFICES ASSUME NEW m \in Members
                   PROVE  /\ t.votes[m] = {l \in seen'[i] : m \in msg[l].bad}
                          /\ t.open[m] = {l \in seen'[i] : m \in msg[l].complain}
        BY <1>3, Zenon
      <4>1. /\ session[i].votes[m] = {l \in seen[i] : m \in msg[l].bad}
            /\ session[i].open[m] = {l \in seen[i] : m \in msg[l].complain}
        BY <3>1, Zenon DEF ComplainInv
      <4>2. t.votes[m] = {l \in seen'[i] : m \in msg[l].bad}
        <5>1. t.votes[m] = IF m \in msg[j].bad THEN session[i].votes[m] \cup {j}
                       ELSE session[i].votes[m]
          BY <1>5, Zenon
        <5>2. seen'[i] = seen[i] \cup {j}
          BY <1>4, Zenon
        <5>3. CASE m \in msg[j].bad
          <6>1. t.votes[m] = {l \in seen[i] : m \in msg[l].bad} \cup {j}
            BY <4>1, <5>1, <5>3, Zenon
          <6> QED
            BY <5>2, <5>3, <6>1, Zenon
        <5>4. CASE m \notin msg[j].bad
          <6>1. t.votes[m] = {l \in seen[i] : m \in msg[l].bad}
            BY <4>1, <5>1, <5>4, Zenon
          <6> QED
            BY <5>2, <5>4, <6>1, Zenon
        <5> QED
          BY <5>3, <5>4, Zenon
      <4>3. t.open[m] = {l \in seen'[i] : m \in msg[l].complain}
        <5>1. t.open[m] = IF m \in msg[j].complain THEN session[i].open[m] \cup {j}
                       ELSE session[i].open[m]
          BY <1>5, Zenon
        <5>2. seen'[i] = seen[i] \cup {j}
          BY <1>4, Zenon
        <5>3. CASE m \in msg[j].complain
          <6>1. t.open[m] = {l \in seen[i] : m \in msg[l].complain} \cup {j}
            BY <4>1, <5>1, <5>3, Zenon
          <6> QED
            BY <5>2, <5>3, <6>1, Zenon
        <5>4. CASE m \notin msg[j].complain
          <6>1. t.open[m] = {l \in seen[i] : m \in msg[l].complain}
            BY <4>1, <5>1, <5>4, Zenon
          <6> QED
            BY <5>2, <5>4, <6>1, Zenon
        <5> QED
          BY <5>3, <5>4, Zenon
      <4> QED
        BY <4>2, <4>3, Zenon
    <3> QED
      BY <1>1, <2>2, <3>2, <3>3, Zenon DEF Own, ComplainInv
  <2>3. CASE k # i
    BY <1>1, <1>3, <1>4, <2>1, <2>3, OwnKept, Zenon
  <2> QED
    BY <2>2, <2>3, Zenon
<1>7. \A x \in running : session'[x].vvec = session[x].vvec
  BY <1>3, <1>5, Zenon DEF TInv
<1>8. \A x, y \in running' : Agree(x, y) => Agree(x, y)'
  BY <1>1, <1>7, Zenon DEF Agree
<1> QED
  BY <1>1, <1>6, <1>8, ViewsKept, Zenon

LEMMA ViewAbort ==
    ASSUME TInv, VInv, NEW i \in Members, Abort(i)
    PROVE  VInv'
<1>1. /\ UNCHANGED <<phase, started, msg, seen, lost>> /\ i \in running
      /\ running' = running \ {i}
  BY Zenon DEF Abort
<1>2. PICK t \in Sessions : session' = [session EXCEPT ![i] = t]
  BY AbortEffect, Zenon
<1>3. \A k \in running' : session'[k] = session[k] /\ k \in Members
  BY <1>1, <1>2, SessionAt, Zenon DEF TInv
<1>4. \A k \in running' : Own(k)'
  <2> SUFFICES ASSUME NEW k \in running' PROVE Own(k)'
    BY Zenon
  <2>1. Own(k)
    BY <1>1, Zenon DEF VInv
  <2> QED
    BY <1>1, <1>3, <2>1, OwnKept, Zenon
<1>5. \A x, y \in running' : Agree(x, y) => Agree(x, y)'
  <2>1. \A k \in running' : Out(k)' = Out(k) /\ Concl(k)' = Concl(k)
    BY <1>3, Zenon DEF Out, Concl
  <2>2. \A k \in running', j \in Members : /\ WillBeBad(k, j)' <=> WillBeBad(k, j)
                                          /\ WillBeOpen(k, j)' = WillBeOpen(k, j)
    BY <1>1, <1>3, ZenonT(30) DEF WillBeBad, WillBeOpen
  <2> QED
    BY <1>1, <1>3, <2>1, <2>2 DEF Agree
<1> QED
  BY <1>1, <1>4, <1>5, ViewsKept, Zenon

-----------------------------------------------------------------------------
\* In the justify phase a member is judged by what will become of it.
LEMMA JustifyKept ==
    ASSUME phase = "justify", phase' = phase, NEW x, NEW y,
           Out(x)' = Out(x), Out(y)' = Out(y),
           \A j \in Members \ Out(x) :
              \/ /\ WillBeBad(x, j)' <=> WillBeBad(x, j)
                 /\ WillBeBad(y, j)' <=> WillBeBad(y, j)
                 /\ WillBeOpen(x, j)' = WillBeOpen(x, j)
                 /\ WillBeOpen(y, j)' = WillBeOpen(y, j)
              \/ /\ WillBeBad(x, j)' <=> WillBeBad(y, j)'
                 /\ WillBeOpen(x, j)' = WillBeOpen(y, j)',
           Agree(x, y)
    PROVE  Agree(x, y)'
<1>1. /\ Out(x) = Out(y)
      /\ \A j \in Members \ Out(x) : /\ WillBeBad(x, j) <=> WillBeBad(y, j)
                                     /\ WillBeOpen(x, j) = WillBeOpen(y, j)
  BY Zenon DEF Agree
<1>2. Out(x)' = Out(y)'
  BY <1>1, Zenon
<1>3. \A j \in Members \ Out(x) : /\ WillBeBad(x, j)' <=> WillBeBad(y, j)'
                                  /\ WillBeOpen(x, j)' = WillBeOpen(y, j)'
  BY <1>1, Zenon
<1> QED
  BY <1>2, <1>3, Zenon DEF Agree

LEMMA ViewJustify ==
    ASSUME TInv, VInv, NEW i \in Members, VerifyAndJustify(i)
    PROVE  VInv'
<1>1. /\ phase = "justify" /\ UNCHANGED <<phase, running, seen, lost>>
      /\ i \in running \ started /\ started' = started \cup {i}
      /\ msg' = msg \/ \E r : msg' = [msg EXCEPT ![i] = r]
  BY Zenon DEF VerifyAndJustify, StartPhase, Send
<1>2. PICK t \in Sessions :
              /\ session' = [session EXCEPT ![i] = t]
              /\ t.bad = session[i].bad \cup
                    {m \in Members : Cardinality(session[i].votes[m]) >= BadVotes}
              /\ t.vvec = session[i].vvec /\ t.votes = session[i].votes
              /\ t.open = session[i].open
  BY JustifyEffect, Zenon
<1>3. session'[i] = t /\ \A k \in Members \ {i} : session'[k] = session[k]
  BY <1>2, SessionAt, Zenon
<1>4. i \notin Sent /\ \A j \in Members \ {i} : msg'[j] = msg[j]
  BY <1>1, StartFacts, Zenon
<1>5. \A j \in Sent : msg'[j] = msg[j]
  BY <1>4, Zenon DEF Sent
<1>6. \A k \in Members : /\ session'[k].vvec = session[k].vvec
                         /\ session'[k].votes = session[k].votes
                         /\ session'[k].open = session[k].open
  BY <1>2, <1>3, Zenon
<1>7. \A k \in Members : Out(k)' = Out(k)
  BY <1>6, Zenon DEF Out
<1>8. JustifyInv(i)
  BY <1>1, Zenon DEF VInv, Own
<1>9. \A k \in Members : \A j \in Members \ Out(k) :
          j \in session'[k].bad <=> j \in session[k].bad
  BY <1>2, <1>3, Zenon DEF Out
<1>10. \A k \in running' : Own(k)'
  <2> SUFFICES ASSUME NEW k \in running PROVE Own(k)'
    BY <1>1, Zenon
  <2>1. Own(k) /\ k \in Members
    BY Zenon DEF VInv, TInv
  <2>2. CASE k = i
    <3>1. Members \ session'[i].vvec \subseteq session'[i].bad
      BY <1>2, <1>3, <1>8, Zenon DEF JustifyInv
    <3>2. Out(i)' \subseteq session'[i].bad
      BY <1>2, <1>3, <1>7, <1>8, Zenon DEF JustifyInv, Out
    <3>3. \A j \in Members \ Out(i)' : j \notin seen'[i] => j \notin session'[i].bad
      BY <1>1, <1>7, <1>8, <1>9, Zenon DEF JustifyInv
    <3> QED
      BY <1>1, <2>2, <3>1, <3>2, <3>3, Zenon DEF Own, JustifyInv
  <2>3. CASE k # i
    BY <1>1, <1>3, <1>5, <2>1, <2>3, OwnKept, Zenon
  <2> QED
    BY <2>2, <2>3, Zenon
<1>11. \A k \in Members : \A j \in Members \ Out(k) : j # i =>
          /\ WillBeBad(k, j)' <=> WillBeBad(k, j)
          /\ WillBeOpen(k, j)' = WillBeOpen(k, j)
  BY <1>1, <1>4, <1>6, <1>9, ZenonT(30) DEF WillBeBad, WillBeOpen
<1>12. ASSUME NEW x \in running, NEW y \in running, Agree(x, y)
       PROVE  Agree(x, y)'
  <2>1. x \in Members /\ y \in Members
    BY Zenon DEF TInv
  <2>2. Out(x) = Out(y)
    BY <1>1, <1>12, Zenon DEF Agree
  <2>3. ASSUME i \notin Out(x)
        PROVE  /\ WillBeBad(x, i)' <=> WillBeBad(y, i)'
               /\ WillBeOpen(x, i)' = WillBeOpen(y, i)'
    <3>1. msg[i] = NoMessage /\ i \notin seen[x] /\ i \notin seen[y]
      BY <1>4, <2>1, Zenon DEF Sent, TInv
    <3>2. WillBeOpen(x, i) = WillBeOpen(y, i)
      BY <1>1, <1>12, <2>3, Zenon DEF Agree
    <3>3. session[x].open[i] = session[y].open[i]
      BY <3>1, <3>2, Zenon DEF WillBeOpen
    <3>4. session'[x].open[i] = session'[y].open[i]
      BY <1>6, <2>1, <3>3, Zenon
    <3> QED
      BY <1>1, <3>1, <3>4, Zenon DEF WillBeBad, WillBeOpen
  <2> QED
    BY <1>1, <1>7, <1>11, <1>12, <2>1, <2>2, <2>3, JustifyKept, Zenon
<1> QED
  BY <1>1, <1>10, <1>12, ViewsKept, Zenon

\* Taking a justification does not change what will become of anybody.
LEMMA JudgementKept ==
    ASSUME TInv, VInv, NEW i \in Members, NEW j \in Members, ReceiveJustification(i, j),
           NEW k \in Members
    PROVE  /\ Out(k)' = Out(k)
           /\ \A x \in Members \ Out(k) : /\ WillBeBad(k, x)' <=> WillBeBad(k, x)
                                          /\ WillBeOpen(k, x)' = WillBeOpen(k, x)
<1>1. /\ phase = "justify" /\ UNCHANGED <<phase, running, started, msg, lost>>
      /\ i \in running /\ j \in Sent \ seen[i]
      /\ seen' = [seen EXCEPT ![i] = @ \cup {j}]
  BY Zenon DEF ReceiveJustification, Take
<1>2. PICK t \in Sessions : /\ session' = [session EXCEPT ![i] = t]
                            /\ JustificationResult(session[i], t, j, msg[j])
  BY JustificationEffect, Zenon
<1>3. session'[i] = t /\ \A l \in Members \ {i} : session'[l] = session[l]
  BY <1>2, SessionAt, Zenon
<1>4. seen'[i] = seen[i] \cup {j} /\ \A l \in Members \ {i} : seen'[l] = seen[l]
  BY <1>1, SeenAt, Zenon
<1>5. /\ t.vvec = session[i].vvec /\ t.votes = session[i].votes
      /\ session[i].bad \subseteq t.bad /\ t.bad \subseteq session[i].bad \cup {j}
      /\ \A x \in Members \ {j} : t.open[x] = session[i].open[x]
  BY <1>2, Zenon DEF JustificationResult
<1>6. j \notin session[i].bad =>
         /\ j \in t.bad <=> (~(msg[j].for \subseteq session[i].open[j]) \/ msg[j].lies # {})
         /\ t.open[j] = IF msg[j].for \subseteq session[i].open[j]
                        THEN session[i].open[j] \ (msg[j].for \ msg[j].lies)
                        ELSE session[i].open[j]
  BY <1>2, Zenon DEF JustificationResult
<1>7. Out(k)' = Out(k)
  BY <1>3, <1>5, Zenon DEF Out
<1>8. JustifyInv(i)
  BY <1>1, Zenon DEF VInv, Own
<1>9. ASSUME NEW x \in Members \ Out(k)
      PROVE  /\ WillBeBad(k, x)' <=> WillBeBad(k, x)
             /\ WillBeOpen(k, x)' = WillBeOpen(k, x)
  <2>1. CASE k # i
    BY <1>1, <1>3, <1>4, <2>1, Zenon DEF WillBeBad, WillBeOpen
  <2>2. CASE k = i /\ x # j
    BY <1>1, <1>3, <1>4, <1>5, <2>2, Zenon DEF WillBeBad, WillBeOpen
  <2>3. CASE k = i /\ x = j
    <3>1. j \notin session[i].bad /\ msg[j] # NoMessage /\ j \notin seen[i]
      BY <1>1, <1>8, <1>9, <2>3, Zenon DEF JustifyInv, Sent
    <3>2. WillBeBad(i, j)' <=> WillBeBad(i, j)
      BY <1>1, <1>3, <1>4, <1>6, <3>1, Zenon DEF WillBeBad
    <3>3. WillBeOpen(i, j)' = WillBeOpen(i, j)
      BY <1>1, <1>3, <1>4, <1>6, <3>1, Zenon DEF WillBeOpen
    <3> QED
      BY <2>3, <3>2, <3>3, Zenon
  <2> QED
    BY <2>1, <2>2, <2>3, Zenon
<1> QED
  BY <1>7, <1>9, Zenon

LEMMA ViewReceiveJustification ==
    ASSUME TInv, VInv, NEW i \in Members, NEW j \in Members, ReceiveJustification(i, j)
    PROVE  VInv'
<1>1. /\ phase = "justify" /\ UNCHANGED <<phase, running, started, msg, lost>>
      /\ i \in running /\ seen' = [seen EXCEPT ![i] = @ \cup {j}]
  BY Zenon DEF ReceiveJustification, Take
<1>2. PICK t \in Sessions : /\ session' = [session EXCEPT ![i] = t]
                            /\ JustificationResult(session[i], t, j, msg[j])
  BY JustificationEffect, Zenon
<1>3. session'[i] = t /\ \A k \in Members \ {i} : session'[k] = session[k]
  BY <1>2, SessionAt, Zenon
<1>4. seen'[i] = seen[i] \cup {j} /\ \A k \in Members \ {i} : seen'[k] = seen[k]
  BY <1>1, SeenAt, Zenon
<1>5. /\ t.vvec = session[i].vvec
      /\ session[i].bad \subseteq t.bad /\ t.bad \subseteq session[i].bad \cup {j}
  BY <1>2, Zenon DEF JustificationResult
<1>6. \A k \in Members : Out(k)' = Out(k)
  BY JudgementKept, Zenon
<1>7. JustifyInv(i)
  BY <1>1, Zenon DEF VInv, Own
<1>8. \A k \in running' : Own(k)'
  <2> SUFFICES ASSUME NEW k \in running PROVE Own(k)'
    BY <1>1, Zenon
  <2>1. Own(k) /\ k \in Members
    BY Zenon DEF VInv, TInv
  <2>2. CASE k = i
    <3>1. Members \ session'[i].vvec \subseteq session'[i].bad
      BY <1>3, <1>5, <1>7, Zenon DEF JustifyInv
    <3>2. i \in started => Out(i)' \subseteq session'[i].bad
      BY <1>3, <1>5, <1>6, <1>7, Zenon DEF JustifyInv
    <3>3. \A x \in Members \ Out(i)' : x \notin seen'[i] => x \notin session'[i].bad
      BY <1>3, <1>4, <1>5, <1>6, <1>7, Zenon DEF JustifyInv
    <3> QED
      BY <1>1, <2>2, <3>1, <3>2, <3>3, Zenon DEF Own, JustifyInv
  <2>3. CASE k # i
    BY <1>1, <1>3, <1>4, <2>1, <2>3, OwnKept, Zenon
  <2> QED
    BY <2>2, <2>3, Zenon
<1>9. ASSUME NEW x \in running, NEW y \in running, Agree(x, y)
      PROVE  Agree(x, y)'
  <2>1. x \in Members /\ y \in Members
    BY Zenon DEF TInv
  <2>2. Out(x) = Out(y)
    BY <1>1, <1>9, Zenon DEF Agree
  <2>3. \A k \in {x, y} : \A z \in Members \ Out(k) :
           /\ WillBeBad(k, z)' <=> WillBeBad(k, z)
           /\ WillBeOpen(k, z)' = WillBeOpen(k, z)
    BY <2>1, JudgementKept, Zenon
  <2> QED
    BY <1>1, <1>6, <1>9, <2>1, <2>2, <2>3, JustifyKept, Zenon
<1> QED
  BY <1>1, <1>8, <1>9, ViewsKept, Zenon

-----------------------------------------------------------------------------
LEMMA ViewCommit ==
    ASSUME TInv, VInv, NEW i \in Members, VerifyAndCommit(i)
    PROVE  VInv'
<1>1. /\ phase = "commit" /\ UNCHANGED <<phase, running, seen, lost>>
      /\ started' = started \cup {i}
  BY Zenon DEF VerifyAndCommit, StartPhase
<1>2. PICK t \in Sessions : /\ session' = [session EXCEPT ![i] = t]
                            /\ t.bad = Concl(i) /\ t.open = session[i].open
  BY CommitEffect, Zenon
<1>3. session'[i] = t /\ \A k \in Members \ {i} : session'[k] = session[k]
  BY <1>2, SessionAt, Zenon
<1>4. \A k \in Members : Concl(k)' = Concl(k)
  BY <1>2, <1>3 DEF Concl
<1>5. ASSUME NEW k \in running
      PROVE  Own(k)'
  <2>1. Own(k) /\ k \in Members
    BY Zenon DEF VInv, TInv
  <2>2. k \in started' => session'[k].bad = Concl(k)'
    BY <1>1, <1>2, <1>3, <1>4, <2>1, Zenon DEF Own, CommitInv
  <2> QED
    BY <1>1, <2>2, Zenon DEF Own, CommitInv
<1>6. \A x, y \in running' : Agree(x, y) => Agree(x, y)'
  BY <1>1, <1>4 DEF Agree, TInv
<1> QED
  BY <1>1, <1>5, <1>6, ViewsKept, Zenon

LEMMA ViewReceiveCommitments ==
    ASSUME TInv, VInv, NEW i \in Members, NEW S \in SUBSET Members,
           ReceiveCommitments(i, S)
    PROVE  VInv'
<1>1. phase = "commit" /\ UNCHANGED <<phase, running, started>> /\ lost \subseteq lost'
  BY Zenon DEF ReceiveCommitments
<1>2. PICK t \in Sessions : /\ session' = [session EXCEPT ![i] = t]
                            /\ t.bad = session[i].bad /\ t.open = session[i].open
  BY CommitmentsEffect, Zenon
<1>3. \A k \in Members : /\ session'[k].bad = session[k].bad
                         /\ session'[k].open = session[k].open
  BY <1>2, SessionAt
<1>4. \A k \in Members : Concl(k)' = Concl(k)
  BY <1>3, Zenon DEF Concl
<1>5. \A k \in running' : Own(k)'
  BY <1>1, <1>3, <1>4, Zenon DEF VInv, TInv, Own, CommitInv
<1>6. \A x, y \in running' : Agree(x, y) => Agree(x, y)'
  BY <1>1, <1>4 DEF Agree, TInv
<1> QED
  BY <1>1, <1>5, <1>6, ViewsKept, Zenon

LEMMA ViewFinalize ==
    ASSUME TInv, VInv, NEW i \in Members, FinalizeCommitments(i)
    PROVE  VInv'
<1>1. phase = "finalize" /\ UNCHANGED <<phase, running, lost>>
  BY Zenon DEF FinalizeCommitments, StartPhase
<1>2. PICK t \in Sessions : session' = [session EXCEPT ![i] = t] /\ t.bad = session[i].bad
  BY FinalizeEffect, Zenon
<1>3. \A k \in Members : session'[k].bad = session[k].bad
  BY <1>2, SessionAt, Zenon
<1>4. \A k \in running' : Own(k)'
  BY <1>1, Zenon DEF Own
<1>5. \A x, y \in running' : Agree(x, y) => Agree(x, y)'
  BY <1>1, <1>3 DEF Agree, TInv
<1> QED
  BY <1>1, <1>4, <1>5, ViewsKept, Zenon

-----------------------------------------------------------------------------
\* A member that missed nothing has taken everything when the phase ends.
LEMMA PhaseEnd ==
    ASSUME TInv, NextPhase, NEW i \in Members, Complete(i)'
    PROVE  Complete(i) /\ seen[i] = Sent /\ i \in started
<1>1. running' = running /\ i \in running /\ running \subseteq started
  BY DEF NextPhase, Complete
<1>2. lost \subseteq lost' /\ \A j \in Members : <<i, j>> \notin lost'
  BY DEF NextPhase, Complete, Missed
<1>3. ASSUME NEW j \in Sent, j \notin seen[i]
      PROVE  FALSE
  <2> DEFINE missed == {<<x, y>> : x \in running, y \in Sent}
             left == {p \in missed : p[2] \notin seen[p[1]]}
  <2>1. lost' = lost \cup left
    BY DEF NextPhase
  <2>2. <<i, j>> \in missed
    BY <1>1
  <2>3. <<i, j>> \in left
    BY <1>3, <2>2
  <2>4. j \in Members
    BY Zenon DEF Sent
  <2> QED
    BY <1>2, <2>1, <2>3, <2>4
<1>4. seen[i] \subseteq Sent
  BY Zenon DEF TInv
<1> QED
  BY <1>1, <1>2, <1>3, <1>4, Zenon DEF Complete, Missed

LEMMA ViewFromContribute ==
    ASSUME TInv, VInv, NextPhase, phase = "contribute"
    PROVE  VInv'
<1>1. /\ phase' = "complain" /\ started' = {} /\ seen' = [k \in Members |-> {}]
      /\ UNCHANGED <<running, session>>
  BY Zenon DEF NextPhase, NextQueue
<1>2. \A k \in running : k \in Members /\ ContributeInv(k)
  BY Zenon DEF TInv, VInv, Own
<1>3. \A k \in running' : Own(k)'
  BY <1>1, <1>2, Zenon DEF Own, ComplainInv, ContributeInv
<1>4. \A k \in Members : Complete(k)' => session[k].vvec = Sent
  BY <1>2, PhaseEnd, Zenon DEF ContributeInv, Complete
<1>5. \A x, y \in Members : Complete(x)' /\ Complete(y)' => Agree(x, y)'
  BY <1>1, <1>4, Zenon DEF Agree
<1> QED
  BY <1>3, <1>5, Zenon DEF VInv

LEMMA ViewFromComplain ==
    ASSUME TInv, VInv, NextPhase, phase = "complain"
    PROVE  VInv'
<1>1. /\ phase' = "justify" /\ started' = {} /\ seen' = [k \in Members |-> {}]
      /\ msg' = Silence /\ UNCHANGED <<running, session>> /\ running \subseteq started
  BY DEF NextPhase, NextQueue
<1>2. \A k \in running : k \in Members /\ ComplainInv(k)
  BY Zenon DEF TInv, VInv, Own
<1>3. \A k \in running : session[k].bad = Members \ session[k].vvec
  BY <1>1, <1>2, Zenon DEF ComplainInv
<1>4. \A k \in Members : Out(k)' = Out(k)
  BY <1>1, Zenon DEF Out
<1>5. \A k \in running' : Own(k)'
  <2> SUFFICES ASSUME NEW k \in running PROVE JustifyInv(k)'
    BY <1>1, Zenon DEF Own
  <2>1. Members \ session[k].vvec \subseteq Out(k)
    BY Zenon DEF Out
  <2> QED
    BY <1>1, <1>2, <1>3, <1>4, <2>1, Zenon DEF JustifyInv
<1>6. ASSUME NEW x \in Members, NEW y \in Members, Complete(x)', Complete(y)'
      PROVE  Agree(x, y)'
  <2>1. /\ Complete(x) /\ Complete(y) /\ seen[x] = Sent /\ seen[y] = Sent
        /\ x \in running /\ y \in running
    BY <1>6, PhaseEnd, Zenon DEF Complete
  <2>2. session[x].vvec = session[y].vvec
    BY <2>1, Zenon DEF VInv, Agree
  <2>3. ASSUME NEW k \in {x, y}, NEW m \in Members
        PROVE  /\ session[k].votes[m] = {j \in Sent : m \in msg[j].bad}
               /\ session[k].open[m] = {j \in Sent : m \in msg[j].complain}
    <3>1. ComplainInv(k) /\ seen[k] = Sent
      BY <1>2, <2>1, Zenon
    <3>2. /\ session[k].votes[m] = {j \in seen[k] : m \in msg[j].bad}
          /\ session[k].open[m] = {j \in seen[k] : m \in msg[j].complain}
      BY <3>1, Zenon DEF ComplainInv
    <3> QED
      BY <3>1, <3>2, Zenon
  <2>4. \A m \in Members : /\ session[x].votes[m] = session[y].votes[m]
                           /\ session[x].open[m] = session[y].open[m]
    BY <2>3, Zenon
  <2>5. Out(x)' = Out(y)'
    BY <1>4, <2>2, <2>4 DEF Out
  <2>6. \A j \in Members : msg'[j] = NoMessage /\ j \notin seen'[x] /\ j \notin seen'[y]
    BY <1>1, Zenon DEF Silence
  <2>7. \A j \in Members : WillBeBad(x, j)' <=> WillBeBad(y, j)'
    BY <2>6, Zenon DEF WillBeBad
  <2>8. \A j \in Members : WillBeOpen(x, j)' = WillBeOpen(y, j)'
    BY <1>1, <2>4, <2>6, Zenon DEF WillBeOpen
  <2> QED
    BY <1>1, <2>5, <2>7, <2>8, Zenon DEF Agree
<1> QED
  BY <1>5, <1>6, Zenon DEF VInv

\* When the justify phase ends, what was to become of everybody has happened.
LEMMA JudgementPassed ==
    ASSUME TInv, VInv, NextPhase, phase = "justify", NEW k \in Members, Complete(k)'
    PROVE  /\ Complete(k) /\ Out(k) \subseteq session[k].bad
           /\ \A j \in Members \ Out(k) : /\ j \in session[k].bad <=> WillBeBad(k, j)
                                          /\ session[k].open[j] = WillBeOpen(k, j)
<1>1. Complete(k) /\ seen[k] = Sent /\ k \in started /\ k \in running
  BY PhaseEnd, Zenon DEF Complete
<1>2. JustifyInv(k)
  BY <1>1, Zenon DEF VInv, Own
<1>3. ASSUME NEW j \in Members \ Out(k)
      PROVE  /\ j \in session[k].bad <=> WillBeBad(k, j)
             /\ session[k].open[j] = WillBeOpen(k, j)
  <2>1. CASE j \in Sent
    BY <1>1, <2>1, Zenon DEF WillBeBad, WillBeOpen
  <2>2. CASE j \notin Sent
    <3>1. msg[j] = NoMessage /\ j \notin seen[k] /\ j \notin session[k].bad
      BY <1>1, <1>2, <1>3, <2>2, Zenon DEF Sent, JustifyInv
    <3> QED
      BY <3>1, Zenon DEF WillBeBad, WillBeOpen
  <2> QED
    BY <2>1, <2>2, Zenon
<1> QED
  BY <1>1, <1>2, <1>3, Zenon DEF JustifyInv

LEMMA ViewFromJustify ==
    ASSUME TInv, VInv, NextPhase, phase = "justify"
    PROVE  VInv'
<1>1. phase' = "commit" /\ started' = {} /\ UNCHANGED <<running, session>>
  BY Zenon DEF NextPhase
<1>2. \A k \in running' : Own(k)'
  BY <1>1, Zenon DEF Own, CommitInv
<1>3. \A k \in Members : Concl(k)' = Concl(k)
  BY <1>1, Zenon DEF Concl
<1>4. ASSUME NEW k \in Members, Complete(k)'
      PROVE  /\ Complete(k) /\ Out(k) \subseteq session[k].bad
             /\ \A j \in Members \ Out(k) : /\ j \in session[k].bad <=> WillBeBad(k, j)
                                            /\ session[k].open[j] = WillBeOpen(k, j)
  BY <1>4, JudgementPassed, Zenon
<1>5. ASSUME NEW x \in Members, NEW y \in Members, Complete(x)', Complete(y)'
      PROVE  Agree(x, y)'
  <2>1. Complete(x) /\ Complete(y)
    BY <1>4, <1>5, Zenon
  <2>2. /\ Out(x) = Out(y)
        /\ \A j \in Members \ Out(x) : /\ WillBeBad(x, j) <=> WillBeBad(y, j)
                                       /\ WillBeOpen(x, j) = WillBeOpen(y, j)
    BY <2>1, Zenon DEF VInv, Agree
  <2>3. \A j \in Members : j \in Concl(x) <=> j \in Concl(y)
    <3> SUFFICES ASSUME NEW j \in Members PROVE j \in Concl(x) <=> j \in Concl(y)
      BY Zenon
    <3>1. CASE j \in Out(x)
      BY <1>4, <1>5, <2>2, <3>1, Zenon DEF Concl
    <3>2. CASE j \notin Out(x)
      <4>1. /\ j \in session[x].bad <=> j \in session[y].bad
            /\ session[x].open[j] = session[y].open[j]
        BY <1>4, <1>5, <2>2, <3>2, Zenon
      <4> QED
        BY <4>1, Zenon DEF Concl
    <3> QED
      BY <3>1, <3>2, Zenon
  <2>4. Concl(x) \subseteq Members /\ Concl(y) \subseteq Members
    BY Zenon DEF Concl, TInv, Sessions
  <2>5. Concl(x) = Concl(y)
    BY <2>3, <2>4, Zenon
  <2> QED
    BY <1>1, <1>3, <2>5, Zenon DEF Agree
<1> QED
  BY <1>2, <1>5, Zenon DEF VInv

LEMMA ViewFromCommit ==
    ASSUME TInv, VInv, NextPhase, phase = "commit"
    PROVE  VInv'
<1>1. phase' = "finalize" /\ UNCHANGED <<running, session>>
  BY Zenon DEF NextPhase
<1>2. \A k \in running' : Own(k)'
  BY <1>1, Zenon DEF Own
<1>3. \A k \in Members : Complete(k)' => Complete(k) /\ session[k].bad = Concl(k)
  BY PhaseEnd, Zenon DEF VInv, Own, CommitInv, Complete
<1>4. \A x, y \in Members : Complete(x)' /\ Complete(y)' => Agree(x, y)'
  BY <1>1, <1>3 DEF VInv, Agree
<1> QED
  BY <1>2, <1>4, Zenon DEF VInv

LEMMA ViewStep == TInv /\ VInv /\ [Next]_vars => VInv'
<1> SUFFICES ASSUME TInv, VInv, [Next]_vars PROVE VInv'
  BY Zenon
<1>1. CASE UNCHANGED vars
  <2>1. UNCHANGED <<phase, running, started, msg, seen, session, lost>>
    BY <1>1, Zenon DEF vars
  <2>2. ASSUME NEW k \in running
        PROVE  Own(k)'
    <3>1. k \in Members /\ Own(k)
      BY Zenon DEF TInv, VInv
    <3> QED
      BY <2>1, <3>1, OwnKept, Zenon
  <2>3. \A k \in Members : /\ Out(k)' = Out(k) /\ Concl(k)' = Concl(k)
                           /\ session'[k] = session[k]
    BY <2>1, Zenon DEF Out, Concl
  <2>4. \A k, j \in Members : /\ WillBeBad(k, j)' <=> WillBeBad(k, j)
                              /\ WillBeOpen(k, j)' = WillBeOpen(k, j)
    BY <2>1 DEF WillBeBad, WillBeOpen
  <2>5. \A x, y \in running : Agree(x, y) => Agree(x, y)'
    BY <2>1, <2>3, <2>4 DEF Agree, TInv
  <2> QED
    BY <2>1, <2>2, <2>5, ViewsKept, Zenon
<1>2. CASE NextPhase
  <2>1. phase \in {"contribute", "complain", "justify", "commit"}
    BY <1>2 DEF NextPhase, TInv
  <2> QED
    BY <1>2, <2>1, ViewFromContribute, ViewFromComplain, ViewFromJustify,
       ViewFromCommit, Zenon
<1>3. ASSUME NEW i \in Members, \/ Contribute(i) \/ VerifyAndComplain(i)
                                \/ VerifyAndJustify(i) \/ VerifyAndCommit(i)
                                \/ FinalizeCommitments(i) \/ Abort(i)
      PROVE  VInv'
  BY <1>3, ViewContribute, ViewComplain, ViewJustify, ViewCommit, ViewFinalize,
     ViewAbort, Zenon
<1>4. ASSUME NEW i \in Members, NEW j \in Members,
             \/ ReceiveContribution(i, j) \/ ReceiveComplaint(i, j)
             \/ ReceiveJustification(i, j)
      PROVE  VInv'
  BY <1>4, ViewReceiveContribution, ViewReceiveComplaint, ViewReceiveJustification, Zenon
<1>5. ASSUME NEW i \in Members, NEW S \in SUBSET Members, ReceiveCommitments(i, S)
      PROVE  VInv'
  BY <1>5, ViewReceiveCommitments, Zenon
<1> QED
  BY <1>1, <1>2, <1>3, <1>4, <1>5, Zenon DEF Next

LEMMA ViewsEqual == TInv /\ VInv => ViewsAgree
<1> SUFFICES ASSUME TInv, VInv, NEW i \in Members, NEW k \in Members,
                    Concluded(i), Concluded(k), Missed(i) = {}, Missed(k) = {}
             PROVE  session[i].bad = session[k].bad
  BY Zenon DEF ViewsAgree
<1>1. Complete(i) /\ Complete(k) /\ Agree(i, k) /\ Own(i) /\ Own(k)
  BY Zenon DEF VInv, Complete, Concluded
<1>2. CASE phase = "finalize"
  BY <1>1, <1>2, Zenon DEF Agree
<1>3. CASE phase = "commit"
  BY <1>1, <1>3, Zenon DEF Agree, Own, CommitInv, Concluded
<1> QED
  BY <1>2, <1>3, Zenon DEF Concluded

\* The comments on propagation in VerifyAndComplain and VerifyAndJustify:
\* members that missed no message agree about the bad members, for any size of
\* the quorum, any order of arrival, any faulty members and any messages the
\* others lose.
THEOREM CompleteViewsAgree == Spec => []ViewsAgree
<1>1. Init => TInv /\ VInv
  BY TypeInit, ViewInit, Zenon
<1>2. TInv /\ VInv /\ [Next]_vars => (TInv /\ VInv)'
  BY TypeStep, ViewStep, Zenon
<1>3. TInv /\ VInv => ViewsAgree
  BY ViewsEqual, Zenon
<1> QED
  BY <1>1, <1>2, <1>3, PTL DEF Spec

-----------------------------------------------------------------------------
\* A share in the database, or one still to be verified, belongs to a
\* verification vector that was received.
Database(s) == s.sk \subseteq s.vvec /\ s.pend \subseteq s.vvec \X BOOLEAN

\* The share of every contribution is verified, complained about or pending.
Accounted(s) == \A j \in s.vvec \ s.bad :
    \/ j \in s.sk \cup s.weComplain
    \/ \E fits \in BOOLEAN : <<j, fits>> \in s.pend

LEMMA VerifyPendingShares ==
    ASSUME NEW s \in Sessions, Database(s)
    PROVE  LET t == VerifyPendingContributions(s)
           IN Database(t) /\ t.pend = {} /\ (Accounted(s) => Accounted(t))
<1> DEFINE skip == s.bad \cup s.weComplain
           fit == {j \in Members \ skip : <<j, TRUE>> \in s.pend}
           unfit == {j \in Members \ skip : <<j, FALSE>> \in s.pend}
           t == VerifyPendingContributions(s)
<1>1. /\ t.pend = {} /\ t.vvec = s.vvec /\ t.bad = s.bad
      /\ t.weComplain = s.weComplain \cup unfit
      /\ t.sk = s.sk \cup fit
  BY Zenon DEF VerifyPendingContributions, Sessions
<1> HIDE DEF t
<1>2. fit \subseteq s.vvec
  BY Zenon DEF Database
<1>3. Database(t)
  BY <1>1, <1>2, Zenon DEF Database
<1>4. ASSUME Accounted(s)
      PROVE  Accounted(t)
  <2> SUFFICES ASSUME NEW j \in s.vvec \ s.bad
               PROVE  j \in t.sk \cup t.weComplain
    BY <1>1, Zenon DEF Accounted
  <2>1. j \in Members
    BY Zenon DEF Sessions
  <2>2. CASE j \in s.sk \cup s.weComplain
    BY <1>1, <2>2, Zenon
  <2>3. CASE j \notin s.weComplain /\ \E fits \in BOOLEAN : <<j, fits>> \in s.pend
    <3>1. PICK fits \in BOOLEAN : <<j, fits>> \in s.pend
      BY <2>3, Zenon
    <3>2. <<j, TRUE>> \in s.pend \/ <<j, FALSE>> \in s.pend
      BY <3>1, Zenon
    <3> QED
      BY <1>1, <2>1, <2>3, <3>2, Zenon
  <2> QED
    BY <1>4, <2>2, <2>3, Zenon DEF Accounted
<1> QED
  BY <1>1, <1>3, <1>4, Zenon DEF t

\* ReceiveMessage of a contribution.
LEMMA ContributionShares ==
    ASSUME TInv, NEW i \in Members, NEW j \in Members, ReceiveContribution(i, j),
           Database(session[i])
    PROVE  /\ Database(session'[i])
           /\ Accounted(session[i]) => Accounted(session'[i])
<1>1. session[i] \in Sessions
  BY Zenon DEF TInv
<1>2. PICK C \in Lies(i, {j}) :
        LET s == [session[i] EXCEPT !.vvec = @ \cup {j}, !.weComplain = @ \cup C]
            t == [s EXCEPT !.pend = @ \cup {<<j, i \notin msg[j].lies>>}]
        IN session' = [session EXCEPT ![i] =
               IF C # {} THEN s
               ELSE IF Cardinality(t.pend) < VerifyBatch THEN t
               ELSE VerifyPendingContributions(t)]
  BY Zenon DEF ReceiveContribution
<1> DEFINE fits == i \notin msg[j].lies
           s == [session[i] EXCEPT !.vvec = @ \cup {j}, !.weComplain = @ \cup C]
           t == [s EXCEPT !.pend = @ \cup {<<j, fits>>}]
           u == VerifyPendingContributions(t)
<1>3. C = {} \/ C = {j}
  BY <1>2, Zenon DEF Lies
<1>4. fits \in BOOLEAN
  BY Zenon
<1>5. \/ C = {j} /\ session' = [session EXCEPT ![i] = s]
      \/ session' = [session EXCEPT ![i] = t]
      \/ session' = [session EXCEPT ![i] = u]
  BY <1>2, <1>3, Zenon DEF s, t, u
<1> HIDE DEF fits
<1>6. /\ s \in Sessions /\ s.vvec = session[i].vvec \cup {j}
      /\ s.weComplain = session[i].weComplain \cup C
      /\ s.bad = session[i].bad /\ s.sk = session[i].sk /\ s.pend = session[i].pend
  BY <1>1, <1>3, Zenon DEF Sessions
<1> HIDE DEF s
<1>7. /\ Database(s)
      /\ C = {j} /\ Accounted(session[i]) => Accounted(s)
  BY <1>6 DEF Database, Accounted
<1>8. s.pend \cup {<<j, fits>>} \in SUBSET (Members \X BOOLEAN)
  BY <1>4, <1>6 DEF Sessions
<1>9. /\ t \in Sessions /\ t.vvec = s.vvec /\ t.weComplain = s.weComplain
      /\ t.bad = s.bad /\ t.sk = s.sk /\ t.pend = s.pend \cup {<<j, fits>>}
  BY <1>6, <1>8, Zenon DEF Sessions
<1> HIDE DEF t
<1>10. Database(t)
  BY <1>4, <1>6, <1>7, <1>9 DEF Database
<1>11. Accounted(session[i]) => Accounted(t)
  BY <1>4, <1>6, <1>9, Zenon DEF Accounted
<1>12. Database(u) /\ (Accounted(t) => Accounted(u))
  BY <1>9, <1>10, VerifyPendingShares, Zenon DEF u
<1>13. CASE C = {j} /\ session' = [session EXCEPT ![i] = s]
  BY <1>7, <1>13, SessionAt, Zenon
<1>14. CASE session' = [session EXCEPT ![i] = t]
  BY <1>10, <1>11, <1>14, SessionAt, Zenon
<1>15. CASE session' = [session EXCEPT ![i] = u]
  <2>1. session'[i] = u
    BY <1>15, SessionAt, Zenon
  <2> QED
    BY <1>11, <1>12, <2>1, Zenon
<1> QED
  BY <1>5, <1>13, <1>14, <1>15, Zenon

\* VerifyAndComplain leaves nothing pending, and sends what it has found.
LEMMA ComplainShares ==
    ASSUME TInv, NEW i \in Members, VerifyAndComplain(i), Database(session[i])
    PROVE  LET t == session'[i]
               complain == t.weComplain \ t.bad
           IN /\ Database(t) /\ t.pend = {}
              /\ Accounted(session[i]) => Accounted(t)
              /\ \/ msg' = msg /\ t.bad = {} /\ complain = {}
                 \/ msg' = [msg EXCEPT ![i] = [bad |-> t.bad, complain |-> complain]]
<1> DEFINE s == VerifyPendingContributions(session[i])
           bad == s.bad \cup (Members \ s.vvec)
           t == [s EXCEPT !.bad = bad]
<1>1. session[i] \in Sessions
  BY Zenon DEF TInv
<1>2. /\ session' = [session EXCEPT ![i] = t]
      /\ \/ msg' = msg /\ bad = {} /\ s.weComplain \ bad = {}
         \/ msg' = [msg EXCEPT ![i] = [bad |-> bad, complain |-> s.weComplain \ bad]]
  BY Zenon DEF VerifyAndComplain, Send
<1>3. session'[i] = t
  BY <1>2, SessionAt, Zenon
<1>4. /\ s \in Sessions /\ Database(s) /\ s.pend = {}
      /\ Accounted(session[i]) => Accounted(s)
  BY <1>1, VerifyPendingFacts, VerifyPendingShares, Zenon
<1> HIDE DEF s
<1>5. bad \subseteq Members
  BY <1>4, Zenon DEF Sessions
<1> HIDE DEF bad
<1>6. /\ t.bad = bad /\ t.vvec = s.vvec /\ t.sk = s.sk /\ t.pend = s.pend
      /\ t.weComplain = s.weComplain
  BY <1>4, Zenon DEF Sessions
<1>7. s.bad \subseteq t.bad
  BY <1>6, Zenon DEF bad
<1> HIDE DEF t
<1>8. Database(t) /\ t.pend = {} /\ (Accounted(s) => Accounted(t))
  BY <1>4, <1>6, <1>7, Zenon DEF Database, Accounted
<1> QED
  BY <1>2, <1>3, <1>4, <1>6, <1>8, Zenon

\* t is s after i has taken the justification m of j.
ShareResult(i, s, t, j) ==
    /\ t.pend = s.pend /\ t.vvec = s.vvec
    /\ s.sk \subseteq t.sk /\ t.sk \subseteq s.sk \cup {j}
    /\ j \in s.bad => t.sk = s.sk
    /\ i \in s.open[j] => i \in t.open[j] \/ j \in t.sk

LEMMA AfterJustificationShares ==
    ASSUME NEW s \in Sessions, NEW i \in Members, NEW j \in Members, NEW m
    PROVE  ShareResult(i, s, AfterJustification(i, s, j, m), j)
<1> DEFINE t == AfterJustification(i, s, j, m)
<1>1. CASE j \in s.bad
  BY <1>1, Zenon DEF AfterJustification, Sessions, ShareResult
<1>2. CASE j \notin s.bad /\ ~(m.for \subseteq s.open[j])
  BY <1>2, Zenon DEF AfterJustification, Sessions, ShareResult
<1>3. CASE j \notin s.bad /\ m.for \subseteq s.open[j]
  <2> DEFINE o == [s.open EXCEPT ![j] = @ \ (m.for \ m.lies)]
  <2>1. t = [s EXCEPT !.bad = IF m.lies # {} THEN @ \cup {j} ELSE @,
                      !.open = o,
                      !.weComplain = IF i \in m.for \ m.lies THEN @ \ {j} ELSE @,
                      !.sk = IF i \in m.for \ m.lies THEN @ \cup {j} ELSE @]
    BY <1>3, Zenon DEF AfterJustification
  <2> HIDE DEF t, o
  <2>2. /\ t.sk = IF i \in m.for \ m.lies THEN s.sk \cup {j} ELSE s.sk
        /\ t.open = o /\ t.vvec = s.vvec /\ t.pend = s.pend
    BY <2>1, Zenon DEF Sessions
  <2>3. o[j] = s.open[j] \ (m.for \ m.lies)
    BY Zenon DEF o, Sessions
  <2> QED
    BY <1>3, <2>2, <2>3, Zenon DEF t, ShareResult
<1> QED
  BY <1>1, <1>2, <1>3, Zenon

LEMMA JustificationShares ==
    ASSUME TInv, NEW i \in Members, NEW j \in Members, ReceiveJustification(i, j)
    PROVE  ShareResult(i, session[i], session'[i], j)
<1> DEFINE s == session[i]
           m == msg[j]
<1>1. s \in Sessions
  BY Zenon DEF TInv
<1>2. session' = [session EXCEPT ![i] = AfterJustification(i, s, j, m)]
  BY Zenon DEF ReceiveJustification
<1>3. session'[i] = AfterJustification(i, s, j, m)
  BY <1>2, SessionAt, Zenon
<1> HIDE DEF s, m
<1>4. ShareResult(i, s, AfterJustification(i, s, j, m), j)
  BY <1>1, AfterJustificationShares, Zenon
<1> QED
  BY <1>3, <1>4, Zenon DEF s

-----------------------------------------------------------------------------
\* The steps that change one field of the session of i.
LEMMA OnlyBad ==
    ASSUME TInv, NEW i \in Members, NEW B, session' = [session EXCEPT ![i].bad = B]
    PROVE  LET s == session[i]
               t == session'[i]
           IN /\ t.bad = B /\ t.open = s.open /\ t.votes = s.votes /\ t.vvec = s.vvec
              /\ t.sk = s.sk /\ t.pend = s.pend /\ t.valid = s.valid /\ t.final = s.final
BY DEF TInv, Sessions

LEMMA OnlyValid ==
    ASSUME TInv, NEW i \in Members, NEW B, session' = [session EXCEPT ![i].valid = @ \cup B]
    PROVE  LET s == session[i]
               t == session'[i]
           IN /\ t.bad = s.bad /\ t.open = s.open /\ t.votes = s.votes /\ t.vvec = s.vvec
              /\ t.sk = s.sk /\ t.pend = s.pend /\ t.valid = s.valid \cup B
              /\ t.final = s.final
BY DEF TInv, Sessions

LEMMA OnlyFinal ==
    ASSUME TInv, NEW i \in Members, NEW B, session' = [session EXCEPT ![i].final = B]
    PROVE  LET s == session[i]
               t == session'[i]
           IN /\ t.bad = s.bad /\ t.open = s.open /\ t.votes = s.votes /\ t.vvec = s.vvec
              /\ t.sk = s.sk /\ t.pend = s.pend /\ t.valid = s.valid /\ t.final = B
BY DEF TInv, Sessions

LEMMA SessionElsewhere ==
    ASSUME TInv, NEW i \in Members,
           \/ Contribute(i) \/ VerifyAndComplain(i) \/ VerifyAndJustify(i)
           \/ VerifyAndCommit(i) \/ FinalizeCommitments(i) \/ Abort(i)
           \/ \E j \in Members : \/ ReceiveContribution(i, j)
                                 \/ ReceiveComplaint(i, j)
                                 \/ ReceiveJustification(i, j)
           \/ \E S \in SUBSET Members : ReceiveCommitments(i, S)
    PROVE  \A k \in Members \ {i} : session'[k] = session[k]
BY Zenon DEF TInv, Contribute, VerifyAndComplain, VerifyAndJustify, VerifyAndCommit,
       FinalizeCommitments, Abort, ReceiveContribution, ReceiveComplaint,
       ReceiveJustification, ReceiveCommitments

-----------------------------------------------------------------------------
\* What TypeOK adds to TInv.
DInv ==
    /\ started \subseteq Members
    /\ \A j \in Sent : msg[j] \in Message
    /\ lost \subseteq Members \X Members
    /\ \A i \in Members : Database(session[i])

LEMMA MessageOf ==
    /\ phase = "contribute" => Message = Contributions
    /\ phase = "complain" => Message = Complaints
    /\ phase = "justify" => Message = Justifications
    /\ phase \in {"commit", "finalize"} => Message = Commitments
BY Zenon DEF Message

LEMMA DatabaseKept ==
    ASSUME TInv, DInv, phase' = phase, started' \subseteq Members,
           lost' \subseteq Members \X Members, NEW i \in Members,
           msg' = msg \/ \E r \in Message : msg' = [msg EXCEPT ![i] = r],
           \A k \in Members \ {i} : session'[k] = session[k],
           Database(session'[i])
    PROVE  DInv'
<1>1. Message' = Message
  BY Zenon DEF Message
<1>2. \A j \in Sent' : msg'[j] \in Message
  BY Zenon DEF TInv, DInv, Sent
<1> QED
  BY <1>1, <1>2, Zenon DEF DInv

LEMMA LiesWithin ==
    ASSUME NEW i, NEW S \in SUBSET Members, NEW L \in Lies(i, S)
    PROVE  L \in SUBSET Members /\ (i \notin Faulty => L = {})
BY Zenon DEF Lies

LEMMA DatabaseStart ==
    ASSUME TInv, DInv, NEW i \in Members,
           Contribute(i) \/ VerifyAndComplain(i) \/ VerifyAndJustify(i) \/ VerifyAndCommit(i)
    PROVE  DInv'
<1>1. /\ phase' = phase /\ lost' = lost /\ lost' \subseteq Members \X Members
      /\ started' \subseteq Members /\ Database(session[i])
  BY Zenon DEF Contribute, VerifyAndComplain, VerifyAndJustify, VerifyAndCommit, StartPhase,
     DInv
<1>2. \A k \in Members \ {i} : session'[k] = session[k]
  BY SessionElsewhere, Zenon
<1>3. CASE Contribute(i)
  <2>1. phase = "contribute" /\ session' = session
    BY <1>3, Zenon DEF Contribute, StartPhase
  <2>2. msg' = msg \/ \E r \in Contributions : msg' = [msg EXCEPT ![i] = r]
    <3>1. msg' = msg \/ \E L \in Lies(i, Members) : msg' = [msg EXCEPT ![i] = [lies |-> L]]
      BY <1>3, Zenon DEF Contribute, Send
    <3>2. \A L \in Lies(i, Members) : [lies |-> L] \in Contributions
      BY LiesWithin, Zenon DEF Contributions
    <3> QED
      BY <3>1, <3>2, Zenon
  <2> QED
    BY <1>1, <1>2, <2>1, <2>2, MessageOf, DatabaseKept, Zenon
<1>4. CASE VerifyAndComplain(i)
  <2>1. phase = "complain"
    BY <1>4, Zenon DEF VerifyAndComplain, StartPhase
  <2> DEFINE t == session'[i]
             r == [bad |-> t.bad, complain |-> t.weComplain \ t.bad]
  <2>2. /\ Database(t)
        /\ msg' = msg \/ msg' = [msg EXCEPT ![i] = r]
    BY <1>1, <1>4, ComplainShares, Zenon
  <2>3. t \in Sessions
    BY <1>4, TypeStart, Zenon DEF TInv
  <2> HIDE DEF t
  <2>4. r \in Complaints
    BY <2>3, Zenon DEF Complaints, Sessions
  <2> QED
    BY <1>1, <1>2, <2>1, <2>2, <2>4, MessageOf, DatabaseKept, Zenon DEF t
<1>5. CASE VerifyAndJustify(i)
  <2>1. phase = "justify"
    BY <1>5, Zenon DEF VerifyAndJustify, StartPhase
  <2> DEFINE bad == session[i].bad \cup
                       {m \in Members : Cardinality(session[i].votes[m]) >= BadVotes}
             justifyFor == session[i].open[i] \ bad
  <2>2. /\ session' = [session EXCEPT ![i].bad = bad]
        /\ \/ msg' = msg
           \/ \E L \in Lies(i, justifyFor) :
                 msg' = [msg EXCEPT ![i] = [for |-> justifyFor, lies |-> L]]
    BY <1>5, Zenon DEF VerifyAndJustify, Send
  <2>3. justifyFor \in SUBSET Members
    BY DEF TInv, Sessions
  <2> HIDE DEF justifyFor, bad
  <2>4. \A L \in Lies(i, justifyFor) : [for |-> justifyFor, lies |-> L] \in Justifications
    BY <2>3, LiesWithin, Zenon DEF Justifications
  <2>5. Database(session'[i])
    BY <1>1, <2>2, OnlyBad, Zenon DEF Database
  <2> QED
    BY <1>1, <1>2, <2>1, <2>2, <2>4, <2>5, MessageOf, DatabaseKept, Zenon
<1>6. CASE VerifyAndCommit(i)
  <2>1. phase = "commit"
    BY <1>6, Zenon DEF VerifyAndCommit, StartPhase
  <2> DEFINE V == Members \ Concl(i)
  <2>2. /\ session' = [session EXCEPT ![i].bad = Concl(i)]
        /\ \/ msg' = msg
           \/ \E l \in {"none"} \cup CommitLies :
                 msg' = [msg EXCEPT ![i] = [valid |-> V, lie |-> l]]
    BY <1>6, Zenon DEF VerifyAndCommit, Concl, Send
  <2>3. V \in SUBSET Members
    BY Zenon
  <2> HIDE DEF V
  <2>4. \A l \in {"none"} \cup CommitLies : [valid |-> V, lie |-> l] \in Commitments
    BY <2>3, Zenon DEF Commitments
  <2>5. Database(session'[i])
    BY <1>1, <2>2, OnlyBad, Zenon DEF Database
  <2> QED
    BY <1>1, <1>2, <2>1, <2>2, <2>4, <2>5, MessageOf, DatabaseKept, Zenon
<1> QED
  BY <1>3, <1>4, <1>5, <1>6, Zenon

\* A justified share is that of a member whose contribution was received.
LEMMA DatabaseReceive ==
    ASSUME TInv, VInv, DInv, NEW i \in Members, NEW j \in Members,
           \/ ReceiveContribution(i, j) \/ ReceiveComplaint(i, j)
           \/ ReceiveJustification(i, j)
    PROVE  DInv'
<1>1. /\ phase' = phase /\ lost' = lost /\ lost' \subseteq Members \X Members
      /\ started' \subseteq Members /\ Database(session[i]) /\ msg' = msg
  BY Zenon DEF ReceiveContribution, ReceiveComplaint, ReceiveJustification, DInv
<1>2. \A k \in Members \ {i} : session'[k] = session[k]
  BY SessionElsewhere, Zenon
<1>3. CASE ReceiveContribution(i, j)
  BY <1>1, <1>2, <1>3, ContributionShares, DatabaseKept, Zenon
<1>4. CASE ReceiveComplaint(i, j)
  <2>1. session' = [session EXCEPT ![i] = AfterComplaint(session[i], j, msg[j])]
    BY <1>4, Zenon DEF ReceiveComplaint
  <2>2. session'[i] = AfterComplaint(session[i], j, msg[j])
    BY <2>1, SessionAt, Zenon
  <2>3. /\ session'[i].sk = session[i].sk /\ session'[i].vvec = session[i].vvec
        /\ session'[i].pend = session[i].pend
    BY <2>2 DEF AfterComplaint, TInv, Sessions
  <2> QED
    BY <1>1, <1>2, <2>3, DatabaseKept, Zenon DEF Database
<1>5. CASE ReceiveJustification(i, j)
  <2>1. JustifyInv(i)
    BY <1>5, Zenon DEF ReceiveJustification, Take, VInv, Own
  <2>2. ShareResult(i, session[i], session'[i], j)
    BY <1>5, JustificationShares, Zenon
  <2>3. Database(session'[i])
    BY <1>1, <2>1, <2>2, Zenon DEF ShareResult, JustifyInv, Database
  <2> QED
    BY <1>1, <1>2, <2>3, DatabaseKept, Zenon
<1> QED
  BY <1>3, <1>4, <1>5, Zenon

LEMMA DatabaseRest ==
    ASSUME TInv, DInv, NEW i \in Members,
           \/ \E S \in SUBSET Members : ReceiveCommitments(i, S)
           \/ FinalizeCommitments(i) \/ Abort(i)
    PROVE  DInv'
<1>1. /\ phase' = phase /\ Database(session[i]) /\ msg' = msg /\ started' \subseteq Members
  BY Zenon DEF ReceiveCommitments, FinalizeCommitments, StartPhase, Abort, DInv
<1>2. \A k \in Members \ {i} : session'[k] = session[k]
  BY SessionElsewhere, Zenon
<1>3. ASSUME NEW S \in SUBSET Members, ReceiveCommitments(i, S)
      PROVE  DInv'
  <2>1. PICK D \in SUBSET S :
           /\ session' = [session EXCEPT ![i].valid = @ \cup {j \in S \ D : Plausible(i, j)}]
           /\ lost' = lost \cup {<<i, j>> : j \in {k \in D : Signed(k)}}
    BY <1>3, Zenon DEF ReceiveCommitments
  <2>2. Database(session'[i])
    BY <1>1, <2>1, OnlyValid, Zenon DEF Database
  <2>3. lost' \subseteq Members \X Members
    BY <2>1 DEF DInv
  <2> QED
    BY <1>1, <1>2, <2>2, <2>3, DatabaseKept, Zenon
<1>4. CASE FinalizeCommitments(i)
  <2>1. \E B : session' = [session EXCEPT ![i].final = B]
    BY <1>4, Zenon DEF FinalizeCommitments
  <2>2. Database(session'[i])
    BY <1>1, <2>1, OnlyFinal DEF Database
  <2>3. lost' \subseteq Members \X Members
    BY <1>4, Zenon DEF FinalizeCommitments, DInv
  <2> QED
    BY <1>1, <1>2, <2>2, <2>3, DatabaseKept, Zenon
<1>5. CASE Abort(i)
  <2>1. session'[i] = [NewSession EXCEPT !.vvec = session[i].vvec, !.sk = session[i].sk,
                                         !.final = session[i].final]
    BY <1>5, Zenon DEF Abort, TInv
  <2>2. /\ session'[i].sk = session[i].sk /\ session'[i].vvec = session[i].vvec
        /\ session'[i].pend = {}
    BY <2>1, Zenon DEF NewSession
  <2>3. lost' \subseteq Members \X Members
    BY <1>5, Zenon DEF Abort, DInv
  <2>4. Database(session'[i])
    BY <1>1, <2>2, Zenon DEF Database
  <2> QED
    BY <1>1, <1>2, <2>3, <2>4, DatabaseKept, Zenon
<1> QED
  BY <1>3, <1>4, <1>5, Zenon

LEMMA DatabaseNextPhase ==
    ASSUME TInv, DInv, NextPhase
    PROVE  DInv'
<1>1. /\ session' = session /\ started' = {}
      /\ lost' = lost \cup {p \in {<<i, j>> : i \in running, j \in Sent} :
                                p[2] \notin seen[p[1]]}
      /\ phase = "commit" => phase' = "finalize" /\ msg' = msg
      /\ phase # "commit" => msg' = Silence
  BY DEF NextPhase
<1>2. lost' \subseteq Members \X Members
  BY <1>1 DEF TInv, DInv, Sent
<1>3. \A j \in Sent' : msg'[j] \in Message'
  <2>1. CASE phase = "commit"
    BY <1>1, <2>1, Zenon DEF DInv, Sent, Message
  <2>2. CASE phase # "commit"
    BY <1>1, <2>2, Zenon DEF Sent, Silence
  <2> QED
    BY <2>1, <2>2, Zenon
<1> QED
  BY <1>1, <1>2, <1>3, Zenon DEF DInv

LEMMA DatabaseInit == Init => DInv
BY DEF Init, DInv, Sent, Silence, Database, NewSession

LEMMA DatabaseStep == TInv /\ VInv /\ DInv /\ [Next]_vars => DInv'
<1> SUFFICES ASSUME TInv, VInv, DInv, [Next]_vars PROVE DInv'
  BY Zenon
<1>1. CASE UNCHANGED vars
  BY <1>1, Zenon DEF vars, DInv, Sent, Message
<1> QED
  BY <1>1, DatabaseStart, DatabaseReceive, DatabaseRest, DatabaseNextPhase, Zenon DEF Next

LEMMA TypesFollow == TInv /\ DInv => TypeOK
<1> SUFFICES ASSUME TInv, DInv PROVE TypeOK
  BY Zenon
<1>1. msg \in [Members -> Message \cup {NoMessage}]
  BY Zenon DEF TInv, DInv, Sent
<1>2. ASSUME NEW i \in Members
      PROVE  /\ seen[i] \subseteq Sent
             /\ session[i].bad \cup session[i].weComplain \subseteq Members
             /\ session[i].pend \subseteq session[i].vvec \X BOOLEAN
             /\ session[i].sk \subseteq session[i].vvec
             /\ session[i].vvec \subseteq Members
             /\ session[i].votes \in [Members -> SUBSET Members]
             /\ session[i].open \in [Members -> SUBSET Members]
             /\ session[i].valid \subseteq Sent
  BY Zenon DEF TInv, DInv, Sessions, Database
<1> QED
  BY <1>1, <1>2, Zenon DEF TInv, DInv, TypeOK

\* The types.  VerifyPendingContributions and ReceiveMessage of a justification
\* write a share only for a member whose verification vector is in the database.
THEOREM TypeCorrect == Spec => []TypeOK
<1>1. Init => TInv /\ VInv /\ DInv
  BY TypeInit, ViewInit, DatabaseInit, Zenon
<1>2. TInv /\ VInv /\ DInv /\ [Next]_vars => (TInv /\ VInv /\ DInv)'
  BY TypeStep, ViewStep, DatabaseStep, Zenon
<1>3. TInv /\ VInv /\ DInv => TypeOK
  BY TypesFollow, Zenon
<1> QED
  BY <1>1, <1>2, <1>3, PTL DEF Spec

-----------------------------------------------------------------------------
\* Where the share that j owes to i is: i complains about what it could not
\* verify, and from then on j is bad, has shown the share, or the complaint
\* stays open.
SharesOf(i) ==
    /\ phase \in {"contribute", "complain"} => Accounted(session[i])
    /\ phase = "complain" /\ i \in started =>
          /\ session[i].pend = {}
          /\ \A j \in session[i].weComplain \ session[i].bad :
                i \in Sent /\ j \in msg[i].complain
    /\ phase \in {"justify", "commit", "finalize"} =>
          /\ Members \ session[i].vvec \subseteq session[i].bad
          /\ Missed(i) = {} => \A j \in Members \ session[i].bad :
                j \in session[i].sk \/ i \in session[i].open[j]

SInv == \A i \in running : SharesOf(i)

\* A step of i leaves alone what the others hold.
LEMMA SharesKept ==
    ASSUME TInv, SInv, phase' = phase, running' \subseteq running, lost \subseteq lost',
           NEW i \in Members,
           \A k \in Members \ {i} : session'[k] = session[k],
           \A k \in Members \ {i} : k \in started' <=> k \in started,
           \A k \in Members \ {i} : msg'[k] = msg[k],
           i \in running' => SharesOf(i)'
    PROVE  SInv'
<1> SUFFICES ASSUME NEW k \in running', k # i PROVE SharesOf(k)'
  BY Zenon DEF SInv
<1>1. k \in Members /\ SharesOf(k)
  BY Zenon DEF TInv, SInv
<1>2. /\ session'[k] = session[k] /\ msg'[k] = msg[k]
      /\ k \in started' <=> k \in started
      /\ Missed(k)' = {} => Missed(k) = {}
  BY <1>1, Zenon DEF Missed
<1>3. k \in Sent' <=> k \in Sent
  BY <1>1, <1>2, Zenon DEF Sent
<1> QED
  BY <1>1, <1>2, <1>3, Zenon DEF SharesOf

LEMMA SharesContribute ==
    ASSUME TInv, SInv, NEW i \in Members, Contribute(i)
    PROVE  SInv'
<1>1. /\ phase = "contribute" /\ UNCHANGED <<phase, running, session, lost>>
      /\ i \in running /\ started' = started \cup {i}
      /\ msg' = msg \/ \E r : msg' = [msg EXCEPT ![i] = r]
  BY Zenon DEF Contribute, StartPhase, Send
<1>2. SharesOf(i)'
  BY <1>1, Zenon DEF SInv, SharesOf
<1>3. \A k \in Members \ {i} : msg'[k] = msg[k]
  BY <1>1, Zenon DEF TInv
<1> QED
  BY <1>1, <1>2, <1>3, SharesKept, Zenon

LEMMA SharesReceiveContribution ==
    ASSUME TInv, DInv, SInv, NEW i \in Members, NEW j \in Members, ReceiveContribution(i, j)
    PROVE  SInv'
<1>1. /\ phase = "contribute" /\ UNCHANGED <<phase, running, started, msg, lost>>
      /\ i \in running
  BY Zenon DEF ReceiveContribution, Take
<1>2. Accounted(session'[i])
  BY <1>1, ContributionShares, Zenon DEF SInv, SharesOf, DInv
<1>3. SharesOf(i)'
  BY <1>1, <1>2, Zenon DEF SharesOf
<1>4. \A k \in Members \ {i} : session'[k] = session[k]
  BY SessionElsewhere, Zenon
<1> QED
  BY <1>1, <1>3, <1>4, SharesKept, Zenon

LEMMA SharesComplain ==
    ASSUME TInv, DInv, SInv, NEW i \in Members, VerifyAndComplain(i)
    PROVE  SInv'
<1>1. /\ phase = "complain" /\ UNCHANGED <<phase, running, lost>>
      /\ i \in running /\ started' = started \cup {i}
  BY Zenon DEF VerifyAndComplain, StartPhase
<1> DEFINE t == session'[i]
           complain == t.weComplain \ t.bad
           r == [bad |-> t.bad, complain |-> complain]
<1>2. /\ t.pend = {} /\ Accounted(t)
      /\ \/ msg' = msg /\ complain = {}
         \/ msg' = [msg EXCEPT ![i] = r]
  BY <1>1, ComplainShares, Zenon DEF SInv, SharesOf, DInv
<1>3. \A k \in Members \ {i} : session'[k] = session[k]
  BY SessionElsewhere, Zenon
<1>4. \A k \in Members \ {i} : msg'[k] = msg[k]
  BY <1>2, Zenon DEF TInv
<1>5. t \in Sessions
  BY TypeStart, Zenon DEF TInv
<1>6. \A j \in complain : i \in Sent' /\ j \in msg'[i].complain
  <2> SUFFICES ASSUME NEW j \in complain
               PROVE  i \in Sent' /\ j \in msg'[i].complain
    BY Zenon
  <2> HIDE DEF t
  <2>1. r \in Complaints
    BY <1>5, Zenon DEF Complaints, Sessions
  <2>2. r # NoMessage
    BY <2>1, NoMessageAssumption, Zenon
  <2>3. msg'[i] = r
    BY <1>2, Zenon DEF TInv
  <2> QED
    BY <2>2, <2>3 DEF Sent
<1>7. SharesOf(i)'
  BY <1>1, <1>2, <1>6, Zenon DEF SharesOf
<1> QED
  BY <1>1, <1>3, <1>4, <1>7, SharesKept, Zenon

LEMMA SharesReceiveComplaint ==
    ASSUME TInv, SInv, NEW i \in Members, NEW j \in Members, ReceiveComplaint(i, j)
    PROVE  SInv'
<1>1. /\ phase = "complain" /\ UNCHANGED <<phase, running, started, msg, lost>>
      /\ i \in running
      /\ session' = [session EXCEPT ![i] = AfterComplaint(session[i], j, msg[j])]
  BY Zenon DEF ReceiveComplaint, Take
<1>2. session'[i] = AfterComplaint(session[i], j, msg[j])
  BY <1>1, SessionAt, Zenon
<1>3. /\ session'[i].sk = session[i].sk /\ session'[i].vvec = session[i].vvec
      /\ session'[i].pend = session[i].pend /\ session'[i].bad = session[i].bad
      /\ session'[i].weComplain = session[i].weComplain
  BY <1>2 DEF AfterComplaint, TInv, Sessions
<1>4. SharesOf(i)'
  BY <1>1, <1>3, Zenon DEF SInv, SharesOf, Accounted, Sent
<1>5. \A k \in Members \ {i} : session'[k] = session[k]
  BY SessionElsewhere, Zenon
<1> QED
  BY <1>1, <1>4, <1>5, SharesKept, Zenon

LEMMA SharesAddBad ==
    ASSUME TInv, SInv, phase \in {"justify", "commit"}, NEW i \in Members,
           NEW B, session[i].bad \subseteq B, session' = [session EXCEPT ![i].bad = B],
           UNCHANGED <<phase, running, lost>>, started' = started \cup {i},
           msg' = msg \/ \E r : msg' = [msg EXCEPT ![i] = r]
    PROVE  SInv'
<1>1. \A k \in Members \ {i} : msg'[k] = msg[k] /\ session'[k] = session[k]
  BY Zenon DEF TInv
<1>2. LET s == session[i]
          t == session'[i]
      IN t.bad = B /\ t.open = s.open /\ t.vvec = s.vvec /\ t.sk = s.sk
  BY OnlyBad, ZenonT(30)
<1>3. i \in running' => SharesOf(i)'
  BY <1>2, Zenon DEF SInv, SharesOf, Missed
<1> QED
  BY <1>1, <1>3, SharesKept, Zenon

LEMMA SharesReceiveJustification ==
    ASSUME TInv, SInv, NEW i \in Members, NEW j \in Members, ReceiveJustification(i, j)
    PROVE  SInv'
<1>1. /\ phase = "justify" /\ UNCHANGED <<phase, running, started, msg, lost>>
      /\ i \in running
  BY Zenon DEF ReceiveJustification, Take
<1>2. ShareResult(i, session[i], session'[i], j)
  BY JustificationShares, Zenon
<1>3. PICK t \in Sessions : /\ session' = [session EXCEPT ![i] = t]
                            /\ JustificationResult(session[i], t, j, msg[j])
  BY JustificationEffect, Zenon
<1>4. session'[i] = t
  BY <1>3, SessionAt, Zenon
<1>5. /\ session[i].bad \subseteq session'[i].bad
      /\ \A x \in Members \ {j} : session'[i].open[x] = session[i].open[x]
  BY <1>3, <1>4, Zenon DEF JustificationResult
<1>6. SharesOf(i)
  BY <1>1, Zenon DEF SInv
<1>7. Members \ session'[i].vvec \subseteq session'[i].bad
  BY <1>1, <1>2, <1>5, <1>6, Zenon DEF SharesOf, ShareResult
<1>8. ASSUME Missed(i)' = {}, NEW x \in Members \ session'[i].bad
      PROVE  x \in session'[i].sk \/ i \in session'[i].open[x]
  <2>1. x \in session[i].sk \/ i \in session[i].open[x]
    BY <1>1, <1>5, <1>6, <1>8, Zenon DEF SharesOf, Missed
  <2> QED
    BY <1>2, <1>5, <2>1, Zenon DEF ShareResult
<1>9. SharesOf(i)'
  BY <1>1, <1>7, <1>8, Zenon DEF SharesOf
<1>10. \A k \in Members \ {i} : session'[k] = session[k]
  BY SessionElsewhere, Zenon
<1> QED
  BY <1>1, <1>9, <1>10, SharesKept, Zenon

\* The rest leaves the shares alone.
LEMMA SharesRest ==
    ASSUME TInv, SInv, NEW i \in Members,
           \/ \E S \in SUBSET Members : ReceiveCommitments(i, S)
           \/ FinalizeCommitments(i) \/ Abort(i)
    PROVE  SInv'
<1>1. \A k \in Members \ {i} : session'[k] = session[k]
  BY SessionElsewhere, Zenon
<1>2. /\ UNCHANGED <<phase, msg>> /\ running' \subseteq running /\ lost \subseteq lost'
      /\ \A k \in Members \ {i} : k \in started' <=> k \in started
  BY Zenon DEF ReceiveCommitments, FinalizeCommitments, StartPhase, Abort
<1>3. ASSUME /\ session'[i].bad = session[i].bad /\ session'[i].open = session[i].open
             /\ session'[i].vvec = session[i].vvec /\ session'[i].sk = session[i].sk,
             phase \in {"commit", "finalize"}
      PROVE  SInv'
  <2>1. i \in running' => SharesOf(i)'
    BY <1>2, <1>3, Zenon DEF SInv, SharesOf, Missed
  <2> QED
    BY <1>1, <1>2, <2>1, SharesKept, Zenon
<1>4. ASSUME NEW S \in SUBSET Members, ReceiveCommitments(i, S)
      PROVE  SInv'
  <2>1. phase = "commit" /\ \E B : session' = [session EXCEPT ![i].valid = @ \cup B]
    BY <1>4, Zenon DEF ReceiveCommitments
  <2> QED
    BY <1>3, <2>1, OnlyValid, Zenon
<1>5. CASE FinalizeCommitments(i)
  <2>1. phase = "finalize" /\ \E B : session' = [session EXCEPT ![i].final = B]
    BY <1>5, Zenon DEF FinalizeCommitments, StartPhase
  <2> QED
    BY <1>3, <2>1, OnlyFinal, Zenon
<1>6. CASE Abort(i)
  <2>1. i \notin running'
    BY <1>6, Zenon DEF Abort
  <2> QED
    BY <1>1, <1>2, <2>1, SharesKept, Zenon
<1> QED
  BY <1>4, <1>5, <1>6, Zenon

LEMMA SharesNextPhase ==
    ASSUME TInv, VInv, SInv, NextPhase
    PROVE  SInv'
<1>1. /\ UNCHANGED <<running, session>> /\ started' = {} /\ lost \subseteq lost'
      /\ running \subseteq started
      /\ phase = "contribute" => phase' = "complain"
      /\ phase = "complain" => phase' = "justify"
      /\ phase = "justify" => phase' = "commit"
      /\ phase = "commit" => phase' = "finalize"
      /\ phase # "finalize"
  BY DEF NextPhase
<1> SUFFICES ASSUME NEW i \in running PROVE SharesOf(i)'
  BY <1>1, Zenon DEF SInv
<1>2. i \in Members /\ SharesOf(i) /\ Own(i) /\ i \in started
  BY <1>1, Zenon DEF TInv, SInv, VInv
<1>3. Missed(i)' = {} => Missed(i) = {}
  BY <1>1, Zenon DEF Missed
<1>4. CASE phase = "contribute"
  BY <1>1, <1>2, <1>4, Zenon DEF SharesOf
<1>5. CASE phase = "complain"
  <2>1. ComplainInv(i) /\ session[i].bad = Members \ session[i].vvec
    BY <1>2, <1>5, Zenon DEF Own, ComplainInv
  <2>2. ASSUME Missed(i)' = {}, NEW j \in Members \ session[i].bad
        PROVE  j \in session[i].sk \/ i \in session[i].open[j]
    <3>1. j \in session[i].vvec \ session[i].bad
      BY <2>1, <2>2, Zenon
    <3>2. j \in session[i].sk \/ j \in session[i].weComplain
      BY <1>2, <1>5, <3>1, Zenon DEF SharesOf, Accounted
    <3>3. ASSUME j \in session[i].weComplain
          PROVE  i \in session[i].open[j]
      <4>1. i \in Sent /\ j \in msg[i].complain
        BY <1>2, <1>5, <2>2, <3>3, Zenon DEF SharesOf
      <4>2. seen[i] = Sent
        BY <1>1, <1>2, <2>2, PhaseEnd, Zenon DEF Complete
      <4>3. session[i].open[j] = {l \in seen[i] : j \in msg[l].complain}
        BY <2>1, <2>2, Zenon DEF ComplainInv
      <4> QED
        BY <4>1, <4>2, <4>3, Zenon
    <3> QED
      BY <3>2, <3>3, Zenon
  <2> QED
    BY <1>1, <1>5, <2>1, <2>2, Zenon DEF SharesOf
<1>6. CASE phase \in {"justify", "commit"}
  BY <1>1, <1>2, <1>3, <1>6, Zenon DEF SharesOf
<1> QED
  BY <1>1, <1>4, <1>5, <1>6, Zenon DEF TInv

LEMMA SharesInit == Init => SInv
<1>1. NewSession.vvec = {}
  BY Zenon DEF NewSession
<1> QED
  BY <1>1, Zenon DEF Init, SInv, SharesOf, Accounted

LEMMA SharesStep == TInv /\ VInv /\ DInv /\ SInv /\ [Next]_vars => SInv'
<1> SUFFICES ASSUME TInv, VInv, DInv, SInv, [Next]_vars PROVE SInv'
  BY Zenon
<1>1. CASE UNCHANGED vars
  BY <1>1 DEF vars, SInv, SharesOf, Sent, Missed
<1>2. ASSUME NEW i \in Members, VerifyAndJustify(i)
      PROVE  SInv'
  <2> DEFINE B == session[i].bad \cup
                     {m \in Members : Cardinality(session[i].votes[m]) >= BadVotes}
  <2>1. /\ phase = "justify" /\ UNCHANGED <<phase, running, lost>>
        /\ started' = started \cup {i} /\ session' = [session EXCEPT ![i].bad = B]
        /\ msg' = msg \/ \E r : msg' = [msg EXCEPT ![i] = r]
    BY <1>2, Zenon DEF VerifyAndJustify, StartPhase, Send
  <2>2. session[i].bad \subseteq B
    BY Zenon
  <2> HIDE DEF B
  <2> QED
    BY <2>1, <2>2, SharesAddBad, Zenon
<1>3. ASSUME NEW i \in Members, VerifyAndCommit(i)
      PROVE  SInv'
  <2>1. /\ session' = [session EXCEPT ![i].bad = Concl(i)]
        /\ msg' = msg \/ \E r : msg' = [msg EXCEPT ![i] = r]
    BY <1>3, Zenon DEF VerifyAndCommit, Concl, Send
  <2>2. /\ phase = "commit" /\ UNCHANGED <<phase, running, lost>>
        /\ started' = started \cup {i} /\ session[i].bad \subseteq Concl(i)
    BY <1>3, Zenon DEF VerifyAndCommit, StartPhase, Concl
  <2> QED
    BY <2>1, <2>2, SharesAddBad, Zenon
<1> QED
  BY <1>1, <1>2, <1>3, SharesContribute, SharesReceiveContribution, SharesComplain,
     SharesReceiveComplaint, SharesReceiveJustification, SharesRest, SharesNextPhase, Zenon DEF Next

-----------------------------------------------------------------------------
\* The premature commitment of m, when it could build one.
Voted(m) ==
    CanCommit(session[m], Members \ session[m].bad)
        => msg[m] = [valid |-> Members \ session[m].bad, lie |-> "none"]

\* While no message is lost, all premature commitments are on the same valid
\* members, i keeps exactly the truthful ones, and an honest member sends one.
Collected(i) ==
    /\ \A j \in Sent : msg[j].valid = Members \ Concl(i)
    /\ \A j \in Sent : msg[j].lie = "none" /\ (phase = "finalize" \/ j \in seen[i])
                       => j \in session[i].valid
    /\ \A j \in session[i].valid : msg[j].lie = "none"
    /\ phase = "finalize" \/ i \in started => session[i].bad = Concl(i)
    /\ i \in Honest /\ (phase = "finalize" \/ i \in started) => Voted(i)

CInv == lost = {} /\ phase \in {"commit", "finalize"} => \A i \in running : Collected(i)

Ready(i) == {V \in {msg[j].valid : j \in session[i].valid} :
                Enough(CommittedTo(session[i], V))}

\* What FinalizeCommitments of i has left.
Finalized(i) ==
    \E first \in [Ready(i) -> session[i].valid] :
        /\ \A V \in Ready(i) : first[V] \in CommittedTo(session[i], V)
        /\ session[i].final =
              {Aggregate(CommittedTo(session[i], V), V, first[V]) : V \in Ready(i)}

FInv == phase = "finalize" => \A i \in running \cap started : Finalized(i)

-----------------------------------------------------------------------------
LEMMA NothingLost ==
    ASSUME NEW i \in running, lost = {}
    PROVE  Complete(i)
BY Zenon DEF Complete, Missed

LEMMA CollectCommit ==
    ASSUME TInv, VInv, CInv, NEW i \in Members, VerifyAndCommit(i)
    PROVE  CInv'
<1>1. /\ phase = "commit" /\ UNCHANGED <<phase, running, lost, seen>>
      /\ i \in running \ started /\ started' = started \cup {i}
  BY Zenon DEF VerifyAndCommit, StartPhase
<1> DEFINE V == Members \ Concl(i)
           able == CanCommit(session[i], V)
<1>2. /\ session' = [session EXCEPT ![i].bad = Concl(i)]
      /\ \/ msg' = msg /\ (i \in Honest => ~able)
         \/ \E l : /\ msg' = [msg EXCEPT ![i] = [valid |-> V, lie |-> l]]
                   /\ i \in Honest => l = "none"
  BY Zenon DEF VerifyAndCommit, Concl, Send, Honest
<1>3. LET s == session[i]
          t == session'[i]
      IN /\ t.bad = Concl(i) /\ t.open = s.open /\ t.vvec = s.vvec /\ t.sk = s.sk
         /\ t.valid = s.valid
  BY <1>2, OnlyBad, Zenon
<1>4. \A k \in Members \ {i} : session'[k] = session[k]
  BY SessionElsewhere, Zenon
<1>5. \A k \in Members : Concl(k)' = Concl(k) /\ session'[k].valid = session[k].valid
  BY <1>3, <1>4 DEF Concl
<1>6. /\ i \notin Sent /\ Sent' \subseteq Sent \cup {i}
      /\ \A j \in Members \ {i} : msg'[j] = msg[j]
  BY <1>1, <1>2, StartFacts, Zenon
<1>7. \/ i \notin Sent' /\ (i \in Honest => ~able)
      \/ msg'[i].valid = V /\ (i \in Honest => msg'[i] = [valid |-> V, lie |-> "none"])
  <2>1. CASE msg' = msg /\ (i \in Honest => ~able)
    BY <1>6, <2>1, Zenon DEF Sent
  <2>2. ASSUME NEW l, msg' = [msg EXCEPT ![i] = [valid |-> V, lie |-> l]],
               i \in Honest => l = "none"
        PROVE  msg'[i].valid = V /\ (i \in Honest => msg'[i] = [valid |-> V, lie |-> "none"])
    <3>1. msg'[i] = [valid |-> V, lie |-> l]
      BY <2>2, Zenon DEF TInv
    <3> QED
      BY <2>2, <3>1
  <2> QED
    BY <1>2, <2>1, <2>2, Zenon
<1> SUFFICES ASSUME lost = {}, NEW k \in running PROVE Collected(k)'
  BY <1>1, Zenon DEF CInv
<1>8. k \in Members /\ Collected(k) /\ Concl(i) = Concl(k)
  BY <1>1, NothingLost, Zenon DEF TInv, CInv, VInv, Agree
<1>9. \A j \in Sent' : msg'[j].valid = Members \ Concl(k)'
  <2> SUFFICES ASSUME NEW j \in Sent' PROVE msg'[j].valid = Members \ Concl(k)'
    BY Zenon
  <2>1. CASE j = i
    BY <1>5, <1>7, <1>8, <2>1, Zenon
  <2>2. CASE j # i
    BY <1>5, <1>6, <1>8, <2>2, Zenon DEF Collected, Sent
  <2> QED
    BY <2>1, <2>2, Zenon
<1>10. seen[k] \subseteq Sent /\ session[k].valid \subseteq Sent /\ Sent \subseteq Members
  BY <1>8, Zenon DEF TInv, Sent
<1>11. \A j \in Sent' : msg'[j].lie = "none" /\ j \in seen'[k] => j \in session'[k].valid
  BY <1>1, <1>5, <1>6, <1>8, <1>10, Zenon DEF Collected
<1>12. \A j \in session'[k].valid : msg'[j].lie = "none"
  BY <1>5, <1>6, <1>8, <1>10, Zenon DEF Collected
<1>13. k \in started' => session'[k].bad = Concl(k)'
  BY <1>1, <1>3, <1>4, <1>5, <1>8, Zenon DEF Collected
<1>14. k \in Honest /\ k \in started' => Voted(k)'
  <2>1. CASE k = i
    <3>1. session'[i].bad = Concl(i) /\ (CanCommit(session'[i], V) => able)
      BY <1>3, Zenon DEF CanCommit
    <3>2. Members \ session'[i].bad = V
      BY <3>1, Zenon
    <3>3. CASE i \notin Sent' /\ (i \in Honest => ~able)
      BY <2>1, <3>1, <3>2, <3>3, Zenon DEF Voted
    <3>4. CASE i \in Honest => msg'[i] = [valid |-> V, lie |-> "none"]
      BY <2>1, <3>2, <3>4, Zenon DEF Voted
    <3> QED
      BY <1>7, <3>3, <3>4, Zenon
  <2>2. CASE k # i
    BY <1>1, <1>4, <1>6, <1>8, <2>2, Zenon DEF Collected, Voted
  <2> QED
    BY <2>1, <2>2, Zenon
<1> QED
  BY <1>1, <1>9, <1>11, <1>12, <1>13, <1>14, Zenon DEF Collected

\* A commitment whose signature does not verify is dropped: when two have no
\* valid one they are on the same hash and are verified one by one.
LEMMA UnsignedDropped ==
    ASSUME NEW S, NEW D, NEW i, Dropped(i, S, D), \A k \in D : ~Signed(k),
           NEW V, \A k \in S : msg[k].valid = V
    PROVE  \A j \in S : ~Signed(j) => j \in D
<1> SUFFICES ASSUME NEW j \in S, ~Signed(j) PROVE j \in D
  BY Zenon
<1>1. CASE \E x, y \in S : x # y /\ SignHash(x) = SignHash(y)
  BY <1>1, Zenon DEF Dropped
<1>2. CASE ~ \E x, y \in S : x # y /\ SignHash(x) = SignHash(y)
  <2>1. D # {} /\ D \subseteq S
    BY <1>2, Zenon DEF Dropped
  <2>2. PICK d \in D : TRUE
    BY <2>1, Zenon
  <2>3. d \in S /\ ~Signed(d)
    BY <2>1, <2>2, Zenon
  <2>4. \A x \in S : ~Signed(x) => SignHash(x) = <<V, [key |-> {}, vvec |-> TRUE]>>
    BY Zenon DEF SignHash, Signed, Stated
  <2>5. SignHash(d) = SignHash(j)
    BY <2>3, <2>4, Zenon
  <2> QED
    BY <1>2, <2>2, <2>3, <2>5, Zenon
<1> QED
  BY <1>1, <1>2, Zenon

LEMMA CollectReceive ==
    ASSUME TInv, SInv, CInv, NEW i \in Members, NEW S \in SUBSET Members,
           ReceiveCommitments(i, S)
    PROVE  CInv'
<1>1. /\ phase = "commit" /\ UNCHANGED <<phase, running, started, msg>>
      /\ i \in running /\ S \subseteq Sent /\ seen' = [seen EXCEPT ![i] = @ \cup S]
      /\ Sent' = Sent
  BY Zenon DEF ReceiveCommitments, Sent
<1> SUFFICES ASSUME lost' = {}, NEW k \in running PROVE Collected(k)'
  BY <1>1, Zenon DEF CInv
<1>2. PICK D \in SUBSET S :
         /\ Dropped(i, S, D)
         /\ session' = [session EXCEPT ![i].valid = @ \cup {j \in S \ D : Plausible(i, j)}]
         /\ lost' = lost \cup {<<i, j>> : j \in {l \in D : Signed(l)}}
  BY Zenon DEF ReceiveCommitments
<1> DEFINE P == {j \in S \ D : Plausible(i, j)}
<1>3. LET s == session[i]
          t == session'[i]
      IN /\ t.bad = s.bad /\ t.open = s.open /\ t.vvec = s.vvec /\ t.sk = s.sk
         /\ t.valid = s.valid \cup P
  BY <1>2, OnlyValid, Zenon
<1>4. \A l \in Members \ {i} : session'[l] = session[l]
  BY SessionElsewhere, Zenon
<1>5. seen'[i] = seen[i] \cup S /\ \A l \in Members \ {i} : seen'[l] = seen[l]
  BY <1>1, SeenAt, Zenon
<1>6. lost = {} /\ \A l \in D : ~Signed(l)
  BY <1>2, Zenon
<1>7. k \in Members /\ Collected(k) /\ Collected(i) /\ SharesOf(i)
  BY <1>1, <1>6, Zenon DEF TInv, CInv, SInv
<1>8. Concl(k)' = Concl(k) /\ (Voted(k) => Voted(k)') /\ session'[k].bad = session[k].bad
  BY <1>1, <1>3, <1>4, <1>7, ZenonT(30) DEF Concl, Voted, CanCommit
<1>9. CASE k # i
  BY <1>1, <1>4, <1>5, <1>7, <1>8, <1>9, Zenon DEF Collected
<1>10. CASE k = i
  <2> DEFINE V == Members \ Concl(i)
  <2>1. \A j \in S : msg[j].valid = V
    BY <1>1, <1>7, Zenon DEF Collected
  <2>2. V \subseteq session[i].vvec
    BY <1>1, <1>7, Zenon DEF SharesOf, Concl
  <2> HIDE DEF V
  <2>3. \A j \in S : ~Signed(j) => j \in D
    BY <1>2, <1>6, <2>1, UnsignedDropped, Zenon
  <2>4. \A j \in P : msg[j].lie = "none"
    <3> SUFFICES ASSUME NEW j \in P PROVE msg[j].lie = "none"
      BY Zenon
    <3>1. j \in S /\ j \notin D /\ Plausible(i, j)
      BY Zenon
    <3>2. Lie(j) \in {"none", "sig"}
      BY <2>1, <2>2, <3>1, Zenon DEF Plausible
    <3>3. Lie(j) # "sig"
      BY <2>3, <3>1, Zenon DEF Signed
    <3> QED
      BY <3>2, <3>3, Zenon DEF Lie
  <2>5. \A j \in S : msg[j].lie = "none" => j \in P
    BY <1>6, Zenon DEF Plausible, Lie, Signed
  <2> HIDE DEF P
  <2>6. \A j \in Sent' : msg'[j].lie = "none" /\ j \in seen'[i] => j \in session'[i].valid
    BY <1>1, <1>3, <1>5, <1>7, <2>5, Zenon DEF Collected
  <2>7. \A j \in session'[i].valid : msg'[j].lie = "none"
    BY <1>1, <1>3, <1>7, <2>4, Zenon DEF Collected
  <2>8. \A j \in Sent' : msg'[j].valid = Members \ Concl(i)'
    BY <1>1, <1>7, <1>8, <1>10, Zenon DEF Collected
  <2> QED
    BY <1>1, <1>7, <1>8, <1>10, <2>6, <2>7, <2>8, Zenon DEF Collected
<1> QED
  BY <1>9, <1>10, Zenon

LEMMA CollectRest ==
    ASSUME TInv, CInv, NEW i \in Members, FinalizeCommitments(i) \/ Abort(i)
    PROVE  CInv'
<1>1. /\ UNCHANGED <<phase, msg, seen, lost>> /\ Sent' = Sent
      /\ running' \subseteq running
      /\ phase # "finalize" => started' = started
  BY Zenon DEF FinalizeCommitments, StartPhase, Abort, Sent
<1>2. \A l \in Members \ {i} : session'[l] = session[l]
  BY SessionElsewhere, Zenon
<1> SUFFICES ASSUME lost = {}, phase \in {"commit", "finalize"}, NEW k \in running'
             PROVE  Collected(k)'
  BY <1>1, Zenon DEF CInv
<1>3. k \in Members /\ Collected(k)
  BY <1>1, Zenon DEF TInv, CInv
<1>4. LET s == session[k]
          t == session'[k]
      IN /\ t.bad = s.bad /\ t.open = s.open /\ t.vvec = s.vvec /\ t.sk = s.sk
         /\ t.valid = s.valid
  <2>1. CASE k # i
    BY <1>2, <1>3, <2>1, Zenon
  <2>2. CASE k = i
    <3>1. FinalizeCommitments(i)
      BY <2>2, Zenon DEF Abort
    <3>2. \E B : session' = [session EXCEPT ![i].final = B]
      BY <3>1, Zenon DEF FinalizeCommitments
    <3> QED
      BY <2>2, <3>2, OnlyFinal
  <2> QED
    BY <2>1, <2>2, Zenon
<1>5. Concl(k)' = Concl(k) /\ (Voted(k) => Voted(k)')
  BY <1>1, <1>4, Zenon DEF Concl, Voted, CanCommit
<1> QED
  BY <1>1, <1>3, <1>4, <1>5, Zenon DEF Collected

LEMMA CollectNextPhase ==
    ASSUME TInv, VInv, CInv, NextPhase
    PROVE  CInv'
<1>1. /\ UNCHANGED <<running, session>> /\ started' = {} /\ lost \subseteq lost'
      /\ running \subseteq started
      /\ phase \in {"contribute", "complain"} => phase' \in {"complain", "justify"}
      /\ phase = "justify" => phase' = "commit"
      /\ phase = "commit" => phase' = "finalize" /\ msg' = msg
      /\ phase # "commit" => msg' = Silence
      /\ phase # "finalize"
  BY DEF NextPhase
<1> SUFFICES ASSUME lost' = {}, phase \in {"justify", "commit"}, NEW k \in running
             PROVE  Collected(k)'
  BY <1>1, Zenon DEF CInv, TInv
<1>2. k \in Members /\ k \in started /\ lost = {}
  BY <1>1, Zenon DEF TInv
<1>3. seen[k] = Sent
  BY <1>1, <1>2, PhaseEnd, Zenon DEF Complete, Missed
<1>4. CASE phase = "justify"
  <2>1. Sent' = {} /\ session[k].valid = {}
    BY <1>1, <1>2, <1>4, Zenon DEF Sent, Silence, TInv
  <2> QED
    BY <1>1, <1>4, <2>1, Zenon DEF Collected
<1>5. CASE phase = "commit"
  <2>1. Collected(k) /\ Sent' = Sent
    BY <1>1, <1>2, <1>5, Zenon DEF CInv, Sent
  <2>2. Concl(k)' = Concl(k) /\ (Voted(k) => Voted(k)')
    BY <1>1, <1>5, Zenon DEF Concl, Voted
  <2> QED
    BY <1>1, <1>2, <1>3, <1>5, <2>1, <2>2, Zenon DEF Collected
<1> QED
  BY <1>4, <1>5, Zenon

LEMMA CollectInit == Init => CInv
BY Zenon DEF Init, CInv

LEMMA CollectStep == TInv /\ VInv /\ SInv /\ CInv /\ [Next]_vars => CInv'
<1> SUFFICES ASSUME TInv, VInv, SInv, CInv, [Next]_vars PROVE CInv'
  BY Zenon
<1>1. CASE UNCHANGED vars
  <2>1. UNCHANGED <<phase, running, started, msg, seen, session, lost>>
    BY <1>1, Zenon DEF vars
  <2>2. \A k \in running : Collected(k) => Collected(k)'
    BY <2>1, Zenon DEF Collected, Concl, Voted, Sent
  <2> QED
    BY <2>1, <2>2, Zenon DEF CInv
<1>2. ASSUME phase' = phase, phase \notin {"commit", "finalize"}
      PROVE  CInv'
  BY <1>2, Zenon DEF CInv
<1>3. ASSUME NEW i \in Members,
             \/ Contribute(i) \/ VerifyAndComplain(i) \/ VerifyAndJustify(i)
             \/ \E j \in Members : \/ ReceiveContribution(i, j)
                                   \/ ReceiveComplaint(i, j)
                                   \/ ReceiveJustification(i, j)
      PROVE  CInv'
  BY <1>2, <1>3, Zenon DEF Contribute, VerifyAndComplain, VerifyAndJustify, StartPhase,
                    ReceiveContribution, ReceiveComplaint, ReceiveJustification, Take
<1> QED
  BY <1>1, <1>3, CollectCommit, CollectReceive, CollectRest, CollectNextPhase, Zenon DEF Next

-----------------------------------------------------------------------------
LEMMA FinalizedInit == Init => FInv
BY Zenon DEF Init, FInv

LEMMA FinalizedStep == TInv /\ FInv /\ [Next]_vars => FInv'
<1> SUFFICES ASSUME TInv, FInv, [Next]_vars, phase' = "finalize",
                    NEW k \in running' \cap started'
             PROVE  Finalized(k)'
  BY Zenon DEF FInv
<1>1. ASSUME msg' = msg, session'[k] = session[k], Finalized(k)
      PROVE  Finalized(k)'
  <2>1. Ready(k)' = Ready(k)
    BY <1>1, Zenon DEF Ready, Enough, CommittedTo
  <2>2. \A V : CommittedTo(session[k], V)' = CommittedTo(session[k], V)
    BY <1>1, Zenon DEF CommittedTo
  <2>3. \A C, V, j : Aggregate(C, V, j)' = Aggregate(C, V, j)
    BY <1>1 DEF Aggregate, Stated, Lie
  <2> QED
    BY <1>1, <2>1, <2>2, <2>3 DEF Finalized
<1>2. k \in running => k \in Members
  BY Zenon DEF TInv
<1>3. CASE UNCHANGED vars
  <2>1. UNCHANGED <<phase, running, started, msg, session>>
    BY <1>3, Zenon DEF vars
  <2> QED
    BY <1>1, <2>1, Zenon DEF FInv
<1>4. CASE NextPhase
  BY <1>4, Zenon DEF NextPhase
<1>5. ASSUME NEW i \in Members, Abort(i)
      PROVE  Finalized(k)'
  <2>1. UNCHANGED <<phase, started, msg>> /\ running' = running \ {i}
    BY <1>5, Zenon DEF Abort
  <2>2. session'[k] = session[k]
    BY <1>2, <1>5, <2>1, SessionElsewhere, Zenon
  <2> QED
    BY <1>1, <2>1, <2>2, Zenon DEF FInv
<1>6. ASSUME NEW i \in Members, FinalizeCommitments(i)
      PROVE  Finalized(k)'
  <2>1. UNCHANGED <<phase, running, msg>> /\ started' = started \cup {i}
    BY <1>6, Zenon DEF FinalizeCommitments, StartPhase
  <2>2. CASE k # i
    <3>1. session'[k] = session[k]
      BY <1>2, <1>6, <2>1, <2>2, SessionElsewhere, Zenon
    <3> QED
      BY <1>1, <2>1, <2>2, <3>1, Zenon DEF FInv
  <2>3. CASE k = i
    <3>1. PICK first \in [Ready(i) -> session[i].valid] :
             /\ \A V \in Ready(i) : first[V] \in CommittedTo(session[i], V)
             /\ session' = [session EXCEPT ![i].final =
                   {Aggregate(CommittedTo(session[i], V), V, first[V]) : V \in Ready(i)}]
      BY <1>6, Zenon DEF FinalizeCommitments, Ready
    <3> DEFINE F == {Aggregate(CommittedTo(session[i], V), V, first[V]) : V \in Ready(i)}
    <3>2. session'[i].valid = session[i].valid /\ session'[i].final = F
      BY <3>1, OnlyFinal, Zenon
    <3>3. \A V : CommittedTo(session[i], V)' = CommittedTo(session[i], V)
      BY <2>1, <3>2, Zenon DEF CommittedTo
    <3>4. Ready(i)' = Ready(i)
      BY <2>1, <3>2, <3>3 DEF Ready, Enough
    <3>5. \A C, V, j : Aggregate(C, V, j)' = Aggregate(C, V, j)
      BY <2>1, ZenonT(30) DEF Aggregate, Stated, Lie
    <3>6. first \in [Ready(i)' -> session'[i].valid]
      BY <3>2, <3>4, Zenon
    <3>7. \A V \in Ready(i)' : first[V] \in CommittedTo(session[i], V)'
      BY <3>1, <3>3, <3>4, Zenon
    <3>8. F = {Aggregate(CommittedTo(session[i], V), V, first[V])' : V \in Ready(i)'}
      BY <3>3, <3>4, <3>5
    <3> HIDE DEF F
    <3>9. session'[i].final =
             {Aggregate(CommittedTo(session[i], V), V, first[V])' : V \in Ready(i)'}
      BY <3>2, <3>8, Zenon
    <3>10. Finalized(i)'
      BY <3>6, <3>7, <3>9, Zenon DEF Finalized
    <3> QED
      BY <2>3, <3>10, Zenon
  <2> QED
    BY <2>2, <2>3, Zenon
<1>7. ASSUME NEW i \in Members,
             \/ Contribute(i) \/ VerifyAndComplain(i) \/ VerifyAndJustify(i)
             \/ VerifyAndCommit(i)
             \/ \E j \in Members : \/ ReceiveContribution(i, j)
                                   \/ ReceiveComplaint(i, j)
                                   \/ ReceiveJustification(i, j)
             \/ \E S \in SUBSET Members : ReceiveCommitments(i, S)
      PROVE  FALSE
  BY <1>7, Zenon DEF Contribute, VerifyAndComplain, VerifyAndJustify, VerifyAndCommit,
     StartPhase,
              ReceiveContribution, ReceiveComplaint, ReceiveJustification,
              ReceiveCommitments, Take
<1> QED
  BY <1>3, <1>4, <1>5, <1>6, <1>7, Zenon DEF Next

-----------------------------------------------------------------------------
\* While no message is lost, an honest member m has contributed, nobody votes
\* it bad, and its justification answers every complaint but those of members
\* it holds to be bad itself.
Reputation(m) ==
    /\ phase = "contribute" /\ m \in started => m \in Sent
    /\ phase = "complain" => /\ \A i \in running : m \in session[i].vvec
                             /\ \A j \in Sent : m \notin msg[j].bad
    /\ phase = "justify" => /\ m \notin Out(m)
                            /\ ~WillBeBad(m, m)
                            /\ m \in started => WillBeOpen(m, m) \subseteq session[m].bad
    /\ phase \in {"commit", "finalize"} => (m \in Concl(m) => Unanswered(m))

HInv == lost = {} => \A m \in Honest \cap running : Reputation(m)

\* m keeps its reputation in a step that does not concern it.
LEMMA ReputationKept ==
    ASSUME NEW m \in Members, Reputation(m), phase' = phase,
           phase \in {"justify", "commit", "finalize"},
           session'[m] = session[m], seen'[m] = seen[m], msg'[m] = msg[m],
           m \in started' <=> m \in started
    PROVE  Reputation(m)'
<1>1. /\ Out(m)' = Out(m) /\ Concl(m)' = Concl(m)
      /\ Unanswered(m)' <=> Unanswered(m)
      /\ WillBeBad(m, m)' <=> WillBeBad(m, m)
      /\ WillBeOpen(m, m)' = WillBeOpen(m, m)
  BY Zenon DEF Out, Concl, Unanswered, WillBeBad, WillBeOpen
<1> QED
  BY <1>1, Zenon DEF Reputation

LEMMA HonestContribute ==
    ASSUME TInv, HInv, NEW i \in Members, Contribute(i)
    PROVE  HInv'
<1>1. /\ phase = "contribute" /\ UNCHANGED <<phase, running, lost>>
      /\ i \notin started /\ started' = started \cup {i}
      /\ \/ i \in Faulty /\ msg' = msg
         \/ \E L \in Lies(i, Members) : msg' = [msg EXCEPT ![i] = [lies |-> L]]
  BY Zenon DEF Contribute, StartPhase, Send
<1>2. Sent \subseteq Sent'
  BY <1>1, StartFacts, Zenon
<1>3. i \in Honest => i \in Sent'
  <2> SUFFICES ASSUME i \in Honest PROVE i \in Sent'
    BY Zenon
  <2>1. PICK L \in Lies(i, Members) : msg' = [msg EXCEPT ![i] = [lies |-> L]]
    BY <1>1, Zenon DEF Honest
  <2>2. [lies |-> L] \in Contributions
    BY LiesWithin, Zenon DEF Contributions
  <2>3. [lies |-> L] # NoMessage
    BY <2>2, NoMessageAssumption, Zenon
  <2>4. msg'[i] = [lies |-> L]
    BY <2>1, Zenon DEF TInv
  <2> QED
    BY <2>3, <2>4, Zenon DEF Sent
<1> QED
  BY <1>1, <1>2, <1>3, Zenon DEF HInv, Reputation

LEMMA HonestComplain ==
    ASSUME TInv, VInv, DInv, HInv, NEW i \in Members, VerifyAndComplain(i)
    PROVE  HInv'
<1>1. /\ phase = "complain" /\ UNCHANGED <<phase, running, lost>> /\ i \in running \ started
      /\ msg' = msg \/ \E r : msg' = [msg EXCEPT ![i] = r]
  BY Zenon DEF VerifyAndComplain, StartPhase, Send
<1>2. PICK t \in Sessions : /\ session' = [session EXCEPT ![i] = t]
                            /\ t.bad = session[i].bad \cup (Members \ session[i].vvec)
                            /\ t.vvec = session[i].vvec
  BY ComplainEffect, Zenon
<1>3. session'[i] = t /\ \A k \in Members \ {i} : session'[k] = session[k]
  BY <1>2, SessionAt, Zenon
<1>4. /\ Sent' \subseteq Sent \cup {i} /\ i \notin Sent
      /\ \A j \in Members \ {i} : msg'[j] = msg[j]
  BY <1>1, StartFacts, Zenon
<1>5. i \in Sent' => msg'[i].bad = t.bad
  <2>1. Database(session[i])
    BY Zenon DEF DInv
  <2>2. \/ msg' = msg
        \/ msg' = [msg EXCEPT ![i] = [bad |-> t.bad, complain |-> t.weComplain \ t.bad]]
    BY <1>3, <2>1, ComplainShares, Zenon
  <2> QED
    BY <1>4, <2>2 DEF TInv, Sent
<1>6. session[i].bad = {}
  BY <1>1, Zenon DEF VInv, Own, ComplainInv
<1> SUFFICES ASSUME lost = {}, NEW m \in Honest \cap running PROVE Reputation(m)'
  BY <1>1, Zenon DEF HInv
<1>7. Reputation(m) /\ m \in Members
  BY Zenon DEF HInv, Honest
<1>8. \A k \in running' : m \in session'[k].vvec
  BY <1>1, <1>2, <1>3, <1>7, Zenon DEF Reputation, TInv
<1>9. \A j \in Sent' : m \notin msg'[j].bad
  BY <1>1, <1>2, <1>4, <1>5, <1>6, <1>7, Zenon DEF Reputation, Sent
<1> QED
  BY <1>1, <1>8, <1>9, Zenon DEF Reputation

LEMMA HonestReceive ==
    ASSUME TInv, VInv, HInv, NEW i \in Members, NEW j \in Members,
           \/ ReceiveContribution(i, j) \/ ReceiveComplaint(i, j)
           \/ ReceiveJustification(i, j)
    PROVE  HInv'
<1>1. UNCHANGED <<phase, running, started, msg, lost>> /\ i \in running
  BY Zenon DEF ReceiveContribution, ReceiveComplaint, ReceiveJustification, Take
<1>2. \A k \in Members \ {i} : session'[k] = session[k]
  BY SessionElsewhere, Zenon
<1> SUFFICES ASSUME lost = {}, NEW m \in Honest \cap running PROVE Reputation(m)'
  BY <1>1, Zenon DEF HInv
<1>3. Reputation(m) /\ m \in Members
  BY Zenon DEF HInv, Honest
<1>4. CASE ReceiveContribution(i, j)
  BY <1>1, <1>3, <1>4, Zenon DEF ReceiveContribution, Take, Reputation, Sent
<1>5. CASE ReceiveComplaint(i, j)
  <2>1. phase = "complain"
    BY <1>5, Zenon DEF ReceiveComplaint, Take
  <2>2. PICK t \in Sessions : /\ session' = [session EXCEPT ![i] = t]
                              /\ ComplaintResult(session[i], t, j, msg[j])
    BY <1>5, ComplaintEffect, Zenon
  <2>3. t.vvec = session[i].vvec
    BY <2>2, Zenon DEF ComplaintResult
  <2>4. \A k \in running : session'[k].vvec = session[k].vvec
    BY <1>2, <2>2, <2>3, SessionAt, Zenon DEF TInv
  <2> QED
    BY <1>1, <1>3, <2>1, <2>4, Zenon DEF Reputation, Sent
<1>6. CASE ReceiveJustification(i, j)
  <2>1. phase = "justify" /\ seen' = [seen EXCEPT ![i] = @ \cup {j}]
    BY <1>6, Zenon DEF ReceiveJustification, Take
  <2>2. PICK t \in Sessions : /\ session' = [session EXCEPT ![i] = t]
                              /\ JustificationResult(session[i], t, j, msg[j])
    BY <1>6, JustificationEffect, Zenon
  <2>3. session[i].bad \subseteq t.bad
    BY <2>2, Zenon DEF JustificationResult
  <2>4. session[m].bad \subseteq session'[m].bad
    BY <1>2, <1>3, <2>2, <2>3, SessionAt, Zenon
  <2>5. m \notin Out(m)
    BY <1>3, <2>1, Zenon DEF Reputation
  <2>6. Out(m)' = Out(m)
    BY <1>3, <1>6, JudgementKept, Zenon
  <2>7. WillBeBad(m, m)' <=> WillBeBad(m, m)
    BY <1>3, <1>6, <2>5, JudgementKept, Zenon
  <2>8. WillBeOpen(m, m)' = WillBeOpen(m, m)
    BY <1>3, <1>6, <2>5, JudgementKept, Zenon
  <2> QED
    BY <1>1, <1>3, <2>1, <2>4, <2>5, <2>6, <2>7, <2>8, Zenon DEF Reputation
<1> QED
  BY <1>4, <1>5, <1>6, Zenon

LEMMA HonestJustify ==
    ASSUME TInv, VInv, HInv, NEW i \in Members, VerifyAndJustify(i)
    PROVE  HInv'
<1>1. /\ phase = "justify" /\ UNCHANGED <<phase, running, lost, seen>>
      /\ i \in running \ started /\ started' = started \cup {i}
      /\ msg' = msg \/ \E r : msg' = [msg EXCEPT ![i] = r]
  BY Zenon DEF VerifyAndJustify, StartPhase, Send
<1>2. /\ \A k \in Members \ {i} : session'[k] = session[k]
      /\ \A k \in Members \ {i} : msg'[k] = msg[k]
      /\ i \notin Sent
  BY <1>1, SessionElsewhere, StartFacts, Zenon
<1> SUFFICES ASSUME lost = {}, NEW m \in Honest \cap running PROVE Reputation(m)'
  BY <1>1, Zenon DEF HInv
<1>3. Reputation(m) /\ m \in Members /\ m \notin Faulty
  BY Zenon DEF HInv, Honest
<1>4. CASE m # i
  BY <1>1, <1>2, <1>3, <1>4, ReputationKept, Zenon
<1>5. CASE m = i
  <2> DEFINE s == session[i]
             bad == s.bad \cup {x \in Members : Cardinality(s.votes[x]) >= BadVotes}
             justifyFor == s.open[i] \ bad
  <2>1. /\ session' = [session EXCEPT ![i].bad = bad]
        /\ \/ msg' = msg /\ justifyFor = {}
           \/ \E L \in Lies(i, justifyFor) :
                 msg' = [msg EXCEPT ![i] = [for |-> justifyFor, lies |-> L]]
    BY <1>3, <1>5, Zenon DEF VerifyAndJustify, Send
  <2>2. justifyFor \in SUBSET Members /\ s.open[i] \ justifyFor \subseteq bad
    BY DEF TInv, Sessions
  <2>3. justifyFor \subseteq s.open[i]
    BY Zenon
  <2> HIDE DEF bad, justifyFor
  <2>4. /\ session'[i].bad = bad /\ session'[i].open = s.open
        /\ session'[i].votes = s.votes /\ session'[i].vvec = s.vvec
    <3>1. session' = [session EXCEPT ![i].bad = bad]
      BY <2>1, Zenon
    <3> QED
      BY <3>1, OnlyBad, Zenon
  <2>5. msg[i] = NoMessage /\ i \notin seen[i]
    BY <1>2, Zenon DEF Sent, TInv
  <2>6. m \notin Out(m)'
    BY <1>1, <1>3, <1>5, <2>4, Zenon DEF Reputation, Out
  <2>7. \/ msg'[i] = NoMessage /\ justifyFor = {}
        \/ msg'[i] # NoMessage /\ msg'[i].for = justifyFor /\ msg'[i].lies = {}
    <3>1. CASE msg' = msg /\ justifyFor = {}
      BY <2>5, <3>1, Zenon
    <3>2. ASSUME NEW L \in Lies(i, justifyFor),
                 msg' = [msg EXCEPT ![i] = [for |-> justifyFor, lies |-> L]]
          PROVE  msg'[i] # NoMessage /\ msg'[i].for = justifyFor /\ msg'[i].lies = {}
      <4>1. L = {}
        BY <1>3, <1>5, <2>2, LiesWithin, Zenon
      <4>2. msg'[i] = [for |-> justifyFor, lies |-> {}]
        BY <3>2, <4>1, Zenon DEF TInv
      <4>3. [for |-> justifyFor, lies |-> {}] \in Justifications
        BY <2>2, Zenon DEF Justifications
      <4>4. msg'[i] # NoMessage
        BY <4>2, <4>3, NoMessageAssumption, Zenon
      <4> QED
        BY <4>2, <4>4
    <3> QED
      BY <2>1, <3>1, <3>2, Zenon
  <2>8. ~WillBeBad(i, i)'
    BY <1>1, <2>3, <2>4, <2>5, <2>7, Zenon DEF WillBeBad
  <2>9. WillBeOpen(i, i)' \subseteq bad
    <3>1. CASE msg'[i] = NoMessage /\ justifyFor = {}
      BY <2>2, <2>4, <3>1, Zenon DEF WillBeOpen
    <3>2. CASE msg'[i] # NoMessage /\ msg'[i].for = justifyFor /\ msg'[i].lies = {}
      <4>1. WillBeOpen(i, i)' = s.open[i] \ justifyFor
        BY <1>1, <2>3, <2>4, <2>5, <3>2, Zenon DEF WillBeOpen
      <4> QED
        BY <2>2, <4>1, Zenon
    <3> QED
      BY <2>7, <3>1, <3>2, Zenon
  <2> QED
    BY <1>1, <1>5, <2>4, <2>6, <2>8, <2>9, Zenon DEF Reputation
<1> QED
  BY <1>4, <1>5, Zenon

\* From the commit phase on, bad only grows and open stays.
LEMMA HonestLater ==
    ASSUME TInv, HInv, NEW i \in Members,
           \/ VerifyAndCommit(i) \/ FinalizeCommitments(i)
           \/ \E S \in SUBSET Members : ReceiveCommitments(i, S)
    PROVE  HInv'
<1>1. /\ phase \in {"commit", "finalize"} /\ UNCHANGED <<phase, running>>
      /\ lost \subseteq lost'
  BY Zenon DEF VerifyAndCommit, FinalizeCommitments, ReceiveCommitments, StartPhase
<1>2. \A k \in Members \ {i} : session'[k] = session[k]
  BY SessionElsewhere, Zenon
<1>3. /\ session'[i].open = session[i].open /\ session[i].bad \subseteq session'[i].bad
      /\ Concl(i)' = Concl(i)
  <2>1. CASE VerifyAndCommit(i)
    <3>1. session' = [session EXCEPT ![i].bad = Concl(i)]
      BY <2>1, Zenon DEF VerifyAndCommit, Concl
    <3>2. session'[i].bad = Concl(i) /\ session'[i].open = session[i].open
      BY <3>1, OnlyBad, Zenon
    <3> QED
      BY <3>2, Zenon DEF Concl
  <2>2. CASE FinalizeCommitments(i)
    <3>1. \E B : session' = [session EXCEPT ![i].final = B]
      BY <2>2, Zenon DEF FinalizeCommitments
    <3> QED
      BY <3>1, OnlyFinal, Zenon DEF Concl
  <2>3. ASSUME NEW S \in SUBSET Members, ReceiveCommitments(i, S)
        PROVE  /\ session'[i].open = session[i].open /\ session[i].bad \subseteq session'[i].bad
               /\ Concl(i)' = Concl(i)
    <3>1. \E B : session' = [session EXCEPT ![i].valid = @ \cup B]
      BY <2>3, Zenon DEF ReceiveCommitments
    <3> QED
      BY <3>1, OnlyValid DEF Concl
  <2> QED
    BY <2>1, <2>2, <2>3, Zenon
<1> SUFFICES ASSUME lost' = {}, NEW m \in Honest \cap running PROVE Reputation(m)'
  BY <1>1, Zenon DEF HInv
<1>4. Reputation(m) /\ m \in Members
  BY <1>1, Zenon DEF HInv, Honest
<1>5. Concl(m)' = Concl(m) /\ (Unanswered(m) => Unanswered(m)')
  BY <1>2, <1>3, <1>4, Zenon DEF Concl, Unanswered
<1> QED
  BY <1>1, <1>4, <1>5, Zenon DEF Reputation

LEMMA HonestAbort ==
    ASSUME TInv, HInv, NEW i \in Members, Abort(i)
    PROVE  HInv'
<1>1. UNCHANGED <<phase, started, msg, seen, lost>> /\ running' = running \ {i}
  BY Zenon DEF Abort
<1>2. \A k \in Members \ {i} : session'[k] = session[k]
  BY SessionElsewhere, Zenon
<1> SUFFICES ASSUME lost = {}, NEW m \in Honest \cap running' PROVE Reputation(m)'
  BY <1>1, Zenon DEF HInv
<1>3. Reputation(m) /\ m \in Members /\ m # i
  BY <1>1, Zenon DEF HInv, Honest
<1>4. CASE phase \in {"contribute", "complain"}
  BY <1>1, <1>2, <1>3, <1>4, Zenon DEF Reputation, Sent, TInv
<1>5. CASE phase \in {"justify", "commit", "finalize"}
  BY <1>1, <1>2, <1>3, <1>5, ReputationKept, Zenon
<1> QED
  BY <1>4, <1>5, Zenon DEF TInv

-----------------------------------------------------------------------------
\* The last part counts members.
INSTANCE FiniteSetTheorems

LEMMA HonestNextPhase ==
    ASSUME TInv, VInv, HInv, NextPhase
    PROVE  HInv'
<1>1. /\ UNCHANGED <<running, session>> /\ started' = {} /\ lost \subseteq lost'
      /\ running \subseteq started /\ seen' = [k \in Members |-> {}]
      /\ phase = "contribute" => phase' = "complain"
      /\ phase = "complain" => phase' = "justify"
      /\ phase = "justify" => phase' = "commit"
      /\ phase = "commit" => phase' = "finalize" /\ msg' = msg
      /\ phase # "commit" => msg' = Silence
      /\ phase # "finalize"
  BY DEF NextPhase, NextQueue
<1> SUFFICES ASSUME lost' = {}, NEW m \in Honest \cap running PROVE Reputation(m)'
  BY <1>1, Zenon DEF HInv
<1>2. Reputation(m) /\ m \in Members /\ m \in started
  BY <1>1, Zenon DEF HInv, Honest
<1>3. \A k \in running : /\ Complete(k)' /\ k \in Members /\ Own(k)
                         /\ seen[k] = Sent
  BY <1>1, PhaseEnd, Zenon DEF TInv, VInv, Complete, Missed
<1>4. CASE phase = "contribute"
  <2>1. \A k \in running : m \in session[k].vvec
    BY <1>2, <1>3, <1>4, Zenon DEF Own, ContributeInv, Reputation
  <2>2. Sent' = {}
    BY <1>1, <1>4, Zenon DEF Sent, Silence
  <2> QED
    BY <1>1, <1>4, <2>1, <2>2, Zenon DEF Reputation
<1>5. CASE phase = "complain"
  <2>1. ComplainInv(m) /\ m \in session[m].vvec /\ \A j \in seen[m] : m \notin msg[j].bad
    BY <1>2, <1>3, <1>5, Zenon DEF Own, Reputation
  <2>2. session[m].votes[m] = {}
    BY <1>2, <2>1, Zenon DEF ComplainInv
  <2>3. ~(Cardinality(session[m].votes[m]) >= BadVotes)
    BY <2>2, FS_EmptySet, ParamsAssumption
  <2>4. m \notin Out(m)'
    BY <1>1, <2>1, <2>3, Zenon DEF Out
  <2>5. ~WillBeBad(m, m)'
    BY <1>1, <1>2, <1>5, Zenon DEF WillBeBad, Silence
  <2> QED
    BY <1>1, <1>5, <2>4, <2>5, Zenon DEF Reputation
<1>6. CASE phase = "justify"
  <2>1. /\ m \notin Out(m) /\ ~WillBeBad(m, m)
        /\ WillBeOpen(m, m) \subseteq session[m].bad
    BY <1>2, <1>6, Zenon DEF Reputation
  <2>2. m \notin session[m].bad /\ session[m].open[m] = WillBeOpen(m, m)
    BY <1>2, <1>3, <1>6, <2>1, JudgementPassed, Zenon
  <2>3. m \in Concl(m)' => Unanswered(m)'
    BY <1>1, <2>1, <2>2, Zenon DEF Concl, Unanswered
  <2> QED
    BY <1>1, <1>6, <2>3, Zenon DEF Reputation
<1>7. CASE phase = "commit"
  BY <1>1, <1>2, <1>7, Zenon DEF Reputation, Concl, Unanswered
<1> QED
  BY <1>1, <1>4, <1>5, <1>6, <1>7, Zenon DEF TInv

LEMMA HonestInit == Init => HInv
BY Zenon DEF Init, HInv, Reputation

LEMMA HonestStep == TInv /\ VInv /\ DInv /\ HInv /\ [Next]_vars => HInv'
<1> SUFFICES ASSUME TInv, VInv, DInv, HInv, [Next]_vars PROVE HInv'
  BY Zenon
<1>1. CASE UNCHANGED vars
  <2>1. UNCHANGED <<phase, running, started, msg, seen, session, lost>>
    BY <1>1, Zenon DEF vars
  <2>2. ASSUME NEW m \in Members, Reputation(m)
        PROVE  Reputation(m)'
    <3>1. CASE phase \in {"contribute", "complain"}
      BY <2>1, <2>2, <3>1, Zenon DEF Reputation, Sent
    <3>2. CASE phase \in {"justify", "commit", "finalize"}
      BY <2>1, <2>2, <3>2, ReputationKept, Zenon
    <3> QED
      BY <3>1, <3>2, Zenon DEF TInv
  <2> QED
    BY <2>1, <2>2, Zenon DEF HInv, Honest
<1>2. ASSUME NEW i \in Members,
             \/ Contribute(i) \/ VerifyAndComplain(i) \/ VerifyAndJustify(i)
             \/ VerifyAndCommit(i) \/ FinalizeCommitments(i) \/ Abort(i)
             \/ \E S \in SUBSET Members : ReceiveCommitments(i, S)
      PROVE  HInv'
  BY <1>2, HonestContribute, HonestComplain, HonestJustify, HonestLater, HonestAbort, Zenon
<1> QED
  BY <1>1, <1>2, HonestReceive, HonestNextPhase, Zenon DEF Next

LEMMA HonestFollows == TInv /\ VInv /\ HInv => HonestKept
<1> SUFFICES ASSUME TInv, VInv, HInv, lost = {}, NEW i \in Members,
                    NEW m \in Honest \cap running, Concluded(i), m \in session[i].bad
             PROVE  Unanswered(m)
  BY Zenon DEF HonestKept
<1>1. /\ m \in Members /\ i \in running /\ phase \in {"commit", "finalize"}
  BY Zenon DEF Honest, Concluded
<1>2. Agree(i, m) /\ Reputation(m)
  BY <1>1, NothingLost, Zenon DEF VInv, HInv
<1>3. m \in Concl(m)
  <2>1. CASE phase = "commit"
    BY <1>2, <2>1, Zenon DEF Agree, Concl
  <2>2. CASE phase = "finalize"
    BY <1>2, <2>2, Zenon DEF Agree, Concl
  <2> QED
    BY <1>1, <2>1, <2>2, Zenon
<1> QED
  BY <1>1, <1>2, <1>3, Zenon DEF Reputation

\* VerifyAndComplain, VerifyAndJustify and VerifyAndCommit: while every message
\* arrives, no number of faulty members makes a member that follows the protocol
\* bad for anybody, except by complaints it does not answer because it holds the
\* one who complains to be bad.
THEOREM HonestNotBad == Spec => []HonestKept
<1>1. Init => TInv /\ VInv /\ DInv /\ HInv
  BY TypeInit, ViewInit, DatabaseInit, HonestInit, Zenon
<1>2. TInv /\ VInv /\ DInv /\ HInv /\ [Next]_vars => (TInv /\ VInv /\ DInv /\ HInv)'
  BY TypeStep, ViewStep, DatabaseStep, HonestStep, Zenon
<1>3. TInv /\ VInv /\ HInv => HonestKept
  BY HonestFollows, Zenon
<1> QED
  BY <1>1, <1>2, <1>3, PTL DEF Spec

LEMMA QuorumFollows == TInv /\ VInv /\ SInv /\ HInv /\ CInv /\ FInv => QuorumFormed
<1> DEFINE good == Honest \cap running
<1> SUFFICES ASSUME TInv, VInv, SInv, HInv, CInv, FInv, phase = "finalize", lost = {},
                    Cardinality(good) >= MinSize, \A m \in good : ~Unanswered(m),
                    NEW i \in good \cap started
             PROVE  \E f \in session[i].final :
                       /\ session[i].final = {f}
                       /\ Verify(f)
                       /\ good \subseteq f.valid \cap f.signers
                       /\ \A m \in good : f.valid \subseteq session[m].sk
  BY Zenon DEF QuorumFormed
<1> DEFINE V == Members \ Concl(i)
           s == session[i]
<1>1. ASSUME NEW m \in good
      PROVE  /\ m \in Members /\ Collected(m) /\ SharesOf(m) /\ Reputation(m)
             /\ session[m].bad = Concl(m) /\ Concl(m) = Concl(i)
  <2>1. /\ m \in Members /\ Collected(m) /\ SharesOf(m) /\ Reputation(m)
        /\ session[m].bad = Concl(m)
    BY Zenon DEF Honest, CInv, SInv, HInv, Collected
  <2>2. i \in Members /\ session[i].bad = Concl(i)
    BY Zenon DEF Honest, CInv, Collected
  <2>3. Agree(i, m)
    BY <2>1, <2>2, NothingLost, Zenon DEF VInv
  <2> QED
    BY <2>1, <2>2, <2>3, Zenon DEF Agree
<1>2. good \subseteq V
  BY <1>1, Zenon DEF Reputation
<1>3. ASSUME NEW m \in good
      PROVE  V \subseteq session[m].vvec /\ V \subseteq session[m].sk
  <2>1. Members \ session[m].vvec \subseteq session[m].bad
    BY <1>1, Zenon DEF SharesOf
  <2>2. \A j \in Members \ session[m].bad : j \in session[m].sk \/ m \in session[m].open[j]
    BY <1>1, Zenon DEF SharesOf, Missed
  <2>3. session[m].bad = Concl(i) /\ Concl(m) = Concl(i)
    BY <1>1, Zenon
  <2>4. \A j \in V : session[m].open[j] = {}
    BY <2>3, Zenon DEF Concl
  <2> QED
    BY <2>1, <2>2, <2>3, <2>4, Zenon
<1>4. s.valid \subseteq Sent /\ Sent \subseteq Members
  BY <1>1, Zenon DEF TInv, Sent
<1>5. \A j \in s.valid : msg[j].valid = V /\ msg[j].lie = "none"
  BY <1>1, <1>4, Zenon DEF Collected
<1>6. V \in SUBSET Members
  BY Zenon
<1> HIDE DEF V
<1>7. ASSUME NEW T \in SUBSET Members, good \subseteq T
      PROVE  /\ Cardinality(T) \in Nat
             /\ Cardinality(T) >= MinSize /\ Cardinality(T) >= Threshold
  <2>1. IsFiniteSet(T)
    BY FS_Subset, ParamsAssumption, Zenon
  <2>2. IsFiniteSet(good) /\ Cardinality(good) <= Cardinality(T)
    BY <1>7, <2>1, FS_Subset, Zenon
  <2>3. Cardinality(T) \in Nat /\ Cardinality(good) \in Nat
    BY <2>1, <2>2, FS_CardinalityType, Zenon
  <2> QED
    BY <2>2, <2>3, ParamsAssumption
<1>8. good \subseteq s.valid
  <2> SUFFICES ASSUME NEW m \in good PROVE m \in s.valid
    BY Zenon
  <2>1. Members \ session[m].bad = V
    BY <1>1, Zenon DEF V
  <2>2. CanCommit(session[m], V)
    BY <1>2, <1>3, <1>6, <1>7, Zenon DEF CanCommit
  <2>3. msg[m] = [valid |-> V, lie |-> "none"]
    BY <1>1, <2>1, <2>2, Zenon DEF Collected, Voted
  <2>4. [valid |-> V, lie |-> "none"] \in Commitments
    BY <1>6, Zenon DEF Commitments
  <2>5. m \in Sent /\ msg[m].lie = "none"
    BY <1>1, <2>3, <2>4, NoMessageAssumption DEF Sent
  <2> QED
    BY <1>1, <2>5, Zenon DEF Collected
<1>9. CommittedTo(s, V) = s.valid /\ Enough(s.valid)
  BY <1>4, <1>5, <1>7, <1>8, Zenon DEF CommittedTo, Enough
<1>10. Ready(i) = {V}
  BY <1>5, <1>8, <1>9, Zenon DEF Ready
<1>11. PICK first \in [Ready(i) -> s.valid] :
          /\ \A W \in Ready(i) : first[W] \in CommittedTo(s, W)
          /\ s.final = {Aggregate(CommittedTo(s, W), W, first[W]) : W \in Ready(i)}
  BY Zenon DEF FInv, Finalized
<1> DEFINE f == Aggregate(s.valid, V, first[V])
<1>12. s.final = {f} /\ first[V] \in s.valid
  BY <1>9, <1>10, <1>11, Zenon
<1>13. \A j \in s.valid : Stated(j) = [key |-> {}, vvec |-> TRUE]
  BY <1>5, Zenon DEF Stated, Lie
<1>14. f.valid = V /\ f.signers = s.valid /\ f.stated = [key |-> {}, vvec |-> TRUE]
  BY <1>12, <1>13, Zenon DEF Aggregate
<1> HIDE DEF f
<1>15. \A j \in s.valid : SignHash(j) = <<f.valid, f.stated>> /\ Lie(j) \in {"none", "vvec"}
  BY <1>5, <1>13, <1>14, Zenon DEF SignHash, Lie
<1>16. Verify(f)
  BY <1>2, <1>4, <1>6, <1>7, <1>8, <1>14, <1>15, Zenon DEF Verify
<1> QED
  BY <1>2, <1>3, <1>8, <1>12, <1>14, <1>16, Zenon

\* The purpose of the session: while every message arrives and at least minSize
\* members follow the protocol, whatever the others do, FinalizeCommitments of
\* each of them makes one final commitment, which verifies and which all of them
\* have signed, and each has the shares that its part of the quorum key needs.
THEOREM HonestFormQuorum == Spec => []QuorumFormed
<1> DEFINE Inv == TInv /\ VInv /\ DInv /\ SInv /\ HInv /\ CInv /\ FInv
<1>1. Init => Inv
  BY TypeInit, ViewInit, DatabaseInit, SharesInit, HonestInit, CollectInit, FinalizedInit, Zenon
<1>2. Inv /\ [Next]_vars => Inv'
  BY TypeStep, ViewStep, DatabaseStep, SharesStep, HonestStep, CollectStep, FinalizedStep, Zenon
<1>3. Inv => QuorumFormed
  BY QuorumFollows, Zenon
<1> QED
  BY <1>1, <1>2, <1>3, PTL DEF Spec
=============================================================================
