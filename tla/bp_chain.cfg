SPECIFICATION Spec
CONSTANTS
    qc_a = qc_a
    qc_b = qc_b
    qc_c = qc_c
    qc_d = qc_d
    NoBlock = NoBlock
    NullQc = NullQc
    NoQc = NoQc
    Blocks = {0, 1, 2, 3, 4, 5, 6, 7, 8, 9, 10, 11, 12, 13, 14}
    Genesis = 0
    Parent <- Tree
    Height <- TreeHeight
    Anc <- TreeAnc
    Commitments <- FourCommitments
    Qc <- Carried
    QuorumHash <- Signed
    CountSigners <- Signers
    ValidQc <- AllButC
    LocalQc <- OnlyB
    BadMnList = {13}
    BadRoot = {11}
    AssumedValid = {}
    DkgInterval = 3
    MiningWindowStart = 1
    MiningWindowEnd = 2
    ActiveCount = 1
    CrashInFirstFlush = FALSE
INVARIANT TypeOK
INVARIANT EvoMatchesChain
 
 
 
