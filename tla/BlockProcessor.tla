--------------------------- MODULE BlockProcessor ---------------------------
(***************************************************************************)
(* CQuorumBlockProcessor (src/llmq/quorums_blockprocessor.{h,cpp}): the    *)
(* commitments to quorums that blocks carry, as block validation           *)
(* (src/validation.cpp), the coinbase check (src/evo/cbtx.cpp) and the     *)
(* quorum manager (src/llmq/quorums.cpp) use it.                           *)
(*                                                                         *)
(* The steps that change the chain hold cs_main and are one action each.   *)
(* What they write to the EvoDB is a transaction of NestedStore, which     *)
(* EvoDB implements: evo is its committed version and evoDisk its durable  *)
(* one.  Quorum types do not interact; there is one here.                  *)
(***************************************************************************)
EXTENDS BlockTree, Sequences

CONSTANTS
    NoBlock,
    Commitments, NullQc, NoQc,
    Qc,                 \* Qc[b]: the commitment in block b, NullQc, or NoQc
    QuorumHash,         \* QuorumHash[c]: the block that names c's quorum
    CountSigners,
    ValidQc,            \* commitments that pass CFinalCommitment::Verify
    LocalQc,            \* commitments this node's own DKG sessions finalize
    BadMnList, BadRoot, \* blocks that fail for their smartnode list or their quorum root
    AssumedValid,       \* ancestors of hashAssumeValid
    DkgInterval, MiningWindowStart, MiningWindowEnd,
    ActiveCount,        \* signingActiveQuorumCount
    CrashInFirstFlush   \* whether a crash may hit the first flush of a new node

VARIABLES
    tip,            \* chainActive.Tip() and the best block of pcoinsTip
    coinsTip,       \* the best block of the coins database
    evo, evoDisk,   \* EvoDB, committed and durable
    flushing,       \* FlushStateToDisk is between the coins and the EvoDB
    hasMinedCache,  \* hasMinedCommitmentCache
    rootCache,      \* quorumsCached and qcHashesCached
    minable,        \* minableCommitments and minableCommitmentsByQuorum
    quorumsCache    \* by quorum, the block whose commitment the object is built from

chainVars == <<tip, coinsTip, evo, evoDisk, flushing>>
vars == <<chainVars, hasMinedCache, rootCache, minable, quorumsCache>>

Heights == {Height[b] : b \in Blocks}
QuorumBlocks == {b \in Blocks : Height[b] % DkgInterval = 0}

\* A commitment names the first block of a DKG interval: ProcessMessage and
\* ProcessCommitment refuse the others.
ASSUME CommitmentAssumption ==
    /\ NoBlock \notin Blocks
    /\ {NullQc, NoQc} \cap Commitments = {} /\ NullQc # NoQc
    /\ Qc \in [Blocks -> Commitments \cup {NullQc, NoQc}] /\ Qc[Genesis] = NoQc
    /\ DkgInterval \in Nat \ {0} /\ ActiveCount \in Nat \ {0}
    /\ MiningWindowStart \in Nat /\ MiningWindowEnd \in Nat
    /\ QuorumHash \in [Commitments -> QuorumBlocks] /\ CountSigners \in [Commitments -> Nat]
    /\ ValidQc \subseteq Commitments /\ LocalQc \subseteq Commitments
    /\ CrashInFirstFlush \in BOOLEAN

-----------------------------------------------------------------------------
(***************************************************************************)
(* Which commitment a block needs.                                         *)
(***************************************************************************)
IsMiningPhase(h) ==
    h % DkgInterval >= MiningWindowStart /\ h % DkgInterval <= MiningWindowEnd

\* GetBlockHash knows no block above the tip.
GetQuorumBlockHash(h) ==
    LET start == h - (h % DkgInterval) IN
    IF start > Height[tip] THEN NoBlock ELSE GetAncestor(tip, start)

HasMinedCommitment(q) ==
    IF hasMinedCache[q] # "unknown" THEN hasMinedCache[q] = "yes"
    ELSE evo.mined[q] # NoBlock

\* The cache after HasMinedCommitment: emplace keeps what is there.
Asked(q) ==
    IF q = NoBlock THEN hasMinedCache
    ELSE [hasMinedCache EXCEPT ![q] = IF HasMinedCommitment(q) THEN "yes" ELSE "no"]

IsCommitmentRequired(h) ==
    LET q == GetQuorumBlockHash(h) IN
    q # NoBlock /\ IsMiningPhase(h) /\ ~HasMinedCommitment(q)

\* ProcessBlock and ProcessCommitment succeed for the block b on the tip.
Processes(b) ==
    LET q == GetQuorumBlockHash(Height[b]) IN
    /\ Qc[b] # NoQc <=> IsCommitmentRequired(Height[b])
    /\ Qc[b] \in Commitments =>
          /\ QuorumHash[Qc[b]] = q /\ ~HasMinedCommitment(q)
          /\ IsMiningPhase(Height[b]) /\ Qc[b] \in ValidQc

CacheAfter(b) ==
    LET q == GetQuorumBlockHash(Height[b])
        asked == Asked(q) IN
    IF Processes(b) /\ Qc[b] \in Commitments
    THEN [asked EXCEPT ![q] = "unknown"] ELSE asked

\* The EvoDB after ProcessCommitment and WriteBestBlock.
EvoAfter(b) ==
    LET q == GetQuorumBlockHash(Height[b]) IN
    IF Qc[b] \in Commitments
    THEN [mined |-> [evo.mined EXCEPT ![q] = b],
          byHeight |-> [evo.byHeight EXCEPT ![Height[b]] = Height[q]],
          best |-> b]
    ELSE [evo EXCEPT !.best = b]

-----------------------------------------------------------------------------
(***************************************************************************)
(* The quorum root of the coinbase transaction (CalcCbTxMerkleRootQuorums):*)
(* the root of a sorted vector of distinct hashes is their set.            *)
(***************************************************************************)
Rank(H, h) == Cardinality({k \in H : k > h})

\* The ActiveCount largest heights of H, from the largest down.
NewestFirst(H) ==
    LET n == IF Cardinality(H) < ActiveCount THEN Cardinality(H) ELSE ActiveCount IN
    [i \in 1 .. n |-> CHOOSE h \in H : Rank(H, h) = i - 1]

\* GetMinedCommitmentsUntilBlock(b, ActiveCount): walks down from b's height.
MinedUntil(e, b) ==
    LET hs == NewestFirst({h \in 1 .. Height[b] : e.byHeight[h] >= 0}) IN
    [i \in DOMAIN hs |-> GetAncestor(b, e.byHeight[hs[i]])]

\* Mutant: lists of the same length count as the same list.
M_RootCacheForByLength(e, b) ==
    LET quorums == MinedUntil(e, b) IN
    IF Len(quorums) = Len(rootCache.quorums) THEN rootCache
    ELSE [quorums |-> quorums, hashes |-> [i \in DOMAIN quorums |-> Qc[e.mined[quorums[i]]]]]

\* The two static variables after a call for a block on top of b.
RootCacheFor(e, b) ==
    LET quorums == MinedUntil(e, b) IN
    IF quorums = rootCache.quorums THEN rootCache
    ELSE [quorums |-> quorums, hashes |-> [i \in DOMAIN quorums |-> Qc[e.mined[quorums[i]]]]]

\* The hashes below the root of block b: its own commitment takes the place of
\* the oldest one when the list is full.
QuorumRoot(e, b) ==
    LET known == RootCacheFor(e, Parent[b]).hashes
        kept == IF Qc[b] \in Commitments /\ Len(known) = ActiveCount
                THEN Len(known) - 1 ELSE Len(known)
    IN  {known[i] : i \in 1 .. kept} \cup ({Qc[b]} \cap Commitments)

-----------------------------------------------------------------------------
(***************************************************************************)
(* What the chain of a block says, for blocks as honest miners make them   *)
(* and for the properties: no database, no cache.                          *)
(***************************************************************************)
CommitmentHeights(b) == {Height[a] : a \in {x \in Anc[b] : Qc[x] \in Commitments}}

\* The root an honest miner puts in block b: its ActiveCount newest commitments.
TrueRoot(b) ==
    LET H == CommitmentHeights(b) IN
    {Qc[GetAncestor(b, h)] : h \in {k \in H : Rank(H, k) < ActiveCount}}

\* Block b obeys the rule of ProcessBlock given its ancestors.
Acceptable(b) ==
    LET h == Height[b]
        q == GetAncestor(b, h - (h % DkgInterval))
        required == /\ q # b /\ IsMiningPhase(h)
                    /\ ~\E a \in Anc[Parent[b]] :
                          Qc[a] \in Commitments /\ QuorumHash[Qc[a]] = q
    IN  /\ Qc[b] # NoQc <=> required
        /\ Qc[b] \in Commitments => QuorumHash[Qc[b]] = q /\ Qc[b] \in ValidQc
        /\ b \notin BadMnList \cup BadRoot

\* ConnectBlock succeeds for the block b on the tip.
Accepts(b) ==
    /\ Processes(b)
    /\ b \notin BadMnList
    /\ b \notin AssumedValid => b \notin BadRoot /\ QuorumRoot(EvoAfter(b), b) = TrueRoot(b)

RootCacheAfter(b) ==
    IF Processes(b) /\ b \notin BadMnList \cup AssumedValid
    THEN RootCacheFor(EvoAfter(b), Parent[b]) ELSE rootCache

-----------------------------------------------------------------------------
(***************************************************************************)
(* Commitments that can be mined.                                          *)
(***************************************************************************)
\* Mutant: insertion before erasure.
M_AddedErasesLast(c) ==
    LET old == minable.byQuorum[QuorumHash[c]] IN
    IF old = NoQc
    THEN [known |-> minable.known \cup {c},
          byQuorum |-> [minable.byQuorum EXCEPT ![QuorumHash[c]] = c]]
    ELSE IF CountSigners[c] > CountSigners[old]
    THEN [known |-> minable.known \ {c},
          byQuorum |-> [minable.byQuorum EXCEPT ![QuorumHash[c]] = c]]
    ELSE minable

\* Mutant: the last commitment wins.
M_AddedOverrides(c) ==
    [known |-> minable.known \cup {c},
     byQuorum |-> [minable.byQuorum EXCEPT ![QuorumHash[c]] = c]]

\* AddMinableCommitment erases the key it is about to insert, so the
\* commitment it replaces stays known.
Added(c) ==
    LET old == minable.byQuorum[QuorumHash[c]] IN
    IF old = NoQc \/ CountSigners[c] > CountSigners[old]
    THEN [known |-> minable.known \cup {c},
          byQuorum |-> [minable.byQuorum EXCEPT ![QuorumHash[c]] = c]]
    ELSE minable

\* Mutant: the commitment is not verified.
M_ProcessMessageUnverified(c) ==
    LET q == QuorumHash[c]
        old == minable.byQuorum[q] IN
    /\ ~flushing
    /\ q \in Anc[tip]
    /\ IF old \in minable.known /\ CountSigners[old] <= CountSigners[c]
       THEN UNCHANGED minable ELSE minable' = Added(c)
    /\ UNCHANGED <<chainVars, hasMinedCache, rootCache, quorumsCache>>

\* ProcessMessage(QFCOMMITMENT).  What happens between its locks does not
\* matter: AddMinableCommitment looks again.
ProcessMessage(c) ==
    LET q == QuorumHash[c]
        old == minable.byQuorum[q] IN
    /\ ~flushing
    /\ q \in Anc[tip]
    /\ IF \/ old \in minable.known /\ CountSigners[old] <= CountSigners[c]
          \/ c \notin ValidQc
       THEN UNCHANGED minable ELSE minable' = Added(c)
    /\ UNCHANGED <<chainVars, hasMinedCache, rootCache, quorumsCache>>

\* HandleDKGRound ends with the commitments of this node's own session.
FinalizeCommitments(c) ==
    /\ QuorumHash[c] \in Anc[tip]
    /\ minable' = Added(c)
    /\ UNCHANGED <<chainVars, hasMinedCache, rootCache, quorumsCache>>

\* GetMinableCommitment: NoQc stands for its answer false.
GetMinableCommitment(h) ==
    IF ~IsCommitmentRequired(h) THEN NoQc
    ELSE LET c == minable.byQuorum[GetQuorumBlockHash(h)] IN
         IF c = NoQc THEN NullQc ELSE c

-----------------------------------------------------------------------------
(***************************************************************************)
(* Block validation.                                                       *)
(***************************************************************************)
NothingMined ==
    [mined |-> [q \in QuorumBlocks |-> NoBlock],
     byHeight |-> [h \in Heights |-> -1],
     best |-> NoBlock]

NothingAsked == [q \in QuorumBlocks |-> "unknown"]
NoRoot == [quorums |-> <<>>, hashes |-> <<>>]
NothingMinable == [known |-> {}, byQuorum |-> [q \in QuorumBlocks |-> NoQc]]
NoQuorums == [q \in QuorumBlocks |-> NoBlock]

Init ==
    /\ tip = Genesis /\ coinsTip = Genesis
    /\ evo = NothingMined /\ evoDisk = NothingMined
    /\ flushing = FALSE
    /\ hasMinedCache = NothingAsked /\ rootCache = NoRoot
    /\ minable = NothingMinable /\ quorumsCache = NoQuorums

\* An EvoDB without a best block passes; another one than the tip is an
\* assertion failure, so nothing but Crash follows.
VerifyBestBlock == evo.best \in {NoBlock, tip}

\* A block that fails is rolled back and may be tried again (reconsiderblock).
ConnectTip(b) ==
    /\ b # Genesis /\ Parent[b] = tip
    /\ ~flushing /\ VerifyBestBlock
    /\ hasMinedCache' = CacheAfter(b) /\ rootCache' = RootCacheAfter(b)
    /\ IF Accepts(b) THEN tip' = b /\ evo' = EvoAfter(b) ELSE UNCHANGED <<tip, evo>>
    /\ UNCHANGED <<coinsTip, evoDisk, flushing, minable, quorumsCache>>

\* The same within a transaction that is always rolled back.
TestBlockValidity(b) ==
    /\ b # Genesis /\ Parent[b] = tip
    /\ ~flushing /\ VerifyBestBlock
    /\ hasMinedCache' = CacheAfter(b)
    /\ rootCache' = IF Processes(b) /\ b \notin BadMnList
                    THEN RootCacheFor(EvoAfter(b), tip) ELSE rootCache
    /\ UNCHANGED <<chainVars, minable, quorumsCache>>

\* The part of BlockAssembler::CreateNewBlock that asks for the commitment
\* and the quorum root.  After a crash between the two databases a listed
\* commitment may be missing: assert(found), so only Crash follows.
CreateNewBlock ==
    /\ ~flushing
    /\ hasMinedCache' = Asked(GetQuorumBlockHash(Height[tip] + 1))
    /\ LET quorums == MinedUntil(evo, tip) IN
          \/ quorums = rootCache.quorums
          \/ \A i \in DOMAIN quorums : evo.mined[quorums[i]] # NoBlock
    /\ rootCache' = RootCacheFor(evo, tip)
    /\ UNCHANGED <<chainVars, minable, quorumsCache>>

\* Mutant: only the entry by quorum is erased.
M_DisconnectTipKeepsHeight ==
    LET c == Qc[tip]
        e == [evo EXCEPT !.best = Parent[tip]] IN
    /\ tip # Genesis
    /\ ~flushing /\ VerifyBestBlock
    /\ tip' = Parent[tip]
    /\ IF c \in Commitments
       THEN /\ evo' = [e EXCEPT !.mined[QuorumHash[c]] = NoBlock]
            /\ hasMinedCache' = [hasMinedCache EXCEPT ![QuorumHash[c]] = "unknown"]
            /\ minable' = Added(c)
       ELSE evo' = e /\ UNCHANGED <<hasMinedCache, minable>>
    /\ UNCHANGED <<coinsTip, evoDisk, flushing, rootCache, quorumsCache>>

\* DisconnectTip with UndoBlock.
DisconnectTip ==
    LET c == Qc[tip]
        e == [evo EXCEPT !.best = Parent[tip]] IN
    /\ tip # Genesis
    /\ ~flushing /\ VerifyBestBlock
    /\ tip' = Parent[tip]
    /\ IF c \in Commitments
       THEN /\ evo' = [e EXCEPT !.mined[QuorumHash[c]] = NoBlock,
                                !.byHeight[Height[tip]] = -1]
            /\ hasMinedCache' = [hasMinedCache EXCEPT ![QuorumHash[c]] = "unknown"]
            /\ minable' = Added(c)
       ELSE evo' = e /\ UNCHANGED <<hasMinedCache, minable>>
    /\ UNCHANGED <<coinsTip, evoDisk, flushing, rootCache, quorumsCache>>

\* FlushStateToDisk writes the coins ...
FlushCoins ==
    /\ ~flushing
    /\ coinsTip' = tip /\ flushing' = TRUE
    /\ UNCHANGED <<tip, evo, evoDisk, hasMinedCache, rootCache, minable, quorumsCache>>

\* ... and then the EvoDB (CommitRootTransaction).
FlushEvo ==
    /\ flushing
    /\ evoDisk' = evo /\ flushing' = FALSE
    /\ UNCHANGED <<tip, coinsTip, evo, hasMinedCache, rootCache, minable, quorumsCache>>

\* A crash, and the start that follows it: LoadChainTip goes to the best block
\* of the coins.
Crash ==
    /\ CrashInFirstFlush \/ ~(flushing /\ evoDisk.best = NoBlock /\ coinsTip # Genesis)
    /\ tip' = coinsTip /\ evo' = evoDisk /\ flushing' = FALSE
    /\ hasMinedCache' = NothingAsked /\ rootCache' = NoRoot
    /\ minable' = NothingMinable /\ quorumsCache' = NoQuorums
    /\ UNCHANGED <<coinsTip, evoDisk>>

\* CQuorumManager::GetQuorum.
GetQuorum(q) ==
    /\ ~flushing
    /\ hasMinedCache' = Asked(q)
    /\ quorumsCache' = IF HasMinedCommitment(q) /\ quorumsCache[q] = NoBlock
                       THEN [quorumsCache EXCEPT ![q] = evo.mined[q]] ELSE quorumsCache
    /\ UNCHANGED <<chainVars, rootCache, minable>>

Next ==
    \/ \E b \in Blocks : ConnectTip(b) \/ TestBlockValidity(b)
    \/ DisconnectTip \/ CreateNewBlock
    \/ FlushCoins \/ FlushEvo \/ Crash
    \/ \E c \in Commitments : ProcessMessage(c)
    \/ \E c \in LocalQc : FinalizeCommitments(c)
    \/ \E q \in QuorumBlocks : GetQuorum(q)

Spec == Init /\ [][Next]_vars

-----------------------------------------------------------------------------
(***************************************************************************)
(* Properties.                                                             *)
(***************************************************************************)
\* Every variable has its type.
TypeOK ==
    /\ {tip, coinsTip} \subseteq Blocks /\ flushing \in BOOLEAN
    /\ {evo, evoDisk} \subseteq
          [mined : [QuorumBlocks -> Blocks \cup {NoBlock}],
           byHeight : [Heights -> Heights \cup {-1}], best : Blocks \cup {NoBlock}]
    /\ hasMinedCache \in [QuorumBlocks -> {"unknown", "yes", "no"}]
    /\ rootCache.quorums \in Seq(QuorumBlocks) /\ rootCache.hashes \in Seq(Commitments)
    /\ minable.known \subseteq Commitments
    /\ minable.byQuorum \in [QuorumBlocks -> minable.known \cup {NoQc}]
    /\ quorumsCache \in [QuorumBlocks -> Blocks \cup {NoBlock}]

\* Through reorganisations, rolled back blocks, flushes and crashes, an EvoDB
\* whose best block is the tip holds exactly the commitments of the active
\* chain, under both of its keys.
EvoMatchesChain ==
    evo.best = tip =>
        /\ \A q \in QuorumBlocks :
              LET in == {a \in Anc[tip] : Qc[a] \in Commitments /\ QuorumHash[Qc[a]] = q} IN
              IF in = {} THEN evo.mined[q] = NoBlock ELSE in = {evo.mined[q]}
        /\ \A h \in Heights :
              evo.byHeight[h] = IF h <= Height[tip] /\ Qc[GetAncestor(tip, h)] \in Commitments
                                THEN Height[QuorumHash[Qc[GetAncestor(tip, h)]]] ELSE -1

\* Whether a block is accepted is decided by its ancestors alone: no history of
\* forks, tested blocks, templates, cached answers and restarts makes a node
\* take a block that breaks the rule of ProcessBlock, or refuse one that keeps
\* it.
ConsensusByChain ==
    VerifyBestBlock /\ ~flushing =>
        \A b \in Blocks \ {Genesis} : Parent[b] = tip => (Accepts(b) <=> Acceptable(b))

\* What CreateNewBlock puts into a block on the tip passes the checks of
\* ProcessBlock and ProcessCommitment, and minableCommitments.at finds it.
TemplateAcceptable ==
    VerifyBestBlock =>
        LET h == Height[tip] + 1
            c == GetMinableCommitment(h) IN
        /\ c # NoQc <=> IsCommitmentRequired(h)
        /\ c \in Commitments =>
              c \in minable.known /\ c \in ValidQc /\ QuorumHash[c] = GetQuorumBlockHash(h)

\* While the node runs, the commitment to be mined for a quorum is only ever
\* replaced by one with more signers.
MinableImproves ==
    [][\A q \in QuorumBlocks :
          LET old == minable.byQuorum[q]
              new == minable.byQuorum'[q] IN
          old # NoQc /\ new # old =>
              \/ minable'.known = {}
              \/ new # NoQc /\ CountSigners[new] > CountSigners[old]]_vars

\* "Reorgs might have happened which would mean we might have cached quorums
\* which are not in the active chain anymore": the quorum that GetQuorum hands
\* out is built from the commitment of the active chain.
QuorumOfActiveChain ==
    evo.best = tip /\ ~flushing =>
        \A q \in QuorumBlocks :
            HasMinedCommitment(q) /\ quorumsCache[q] # NoBlock =>
                evo.mined[q] # NoBlock /\ Qc[quorumsCache[q]] = Qc[evo.mined[q]]
=============================================================================
