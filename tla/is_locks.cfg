SPECIFICATION FairSpec
\* Nothing happens when every transaction, block and lock has come and is done.
CHECK_DEADLOCK FALSE
CONSTANTS
    g = g  a1 = a1  b1 = b1  b2 = b2
    f = f  t1 = t1  t2 = t2  ch = ch
    o1 = o1  o2 = o2  l1 = l1  lc = lc
    Null = Null
    Blocks <- MCBlocks
    Genesis = g
    Parent <- MCParent
    Height <- MCHeight
    Anc <- MCAnc
    BlockTx <- MCBlockTx
    Txs <- MCTxs
    Outpoints <- MCOutpoints
    Inputs <- MCInputs
    Owner <- MCOwner
    Locks = {l1, lc}
    LockTx <- MCLockTx
    Lockable = {b1}
    Sent = {t2, ch}
    Relayed = {l1}
    Created = {lc}
    ArchiveDepth = 1
    RestartAt = {b2}
    MaxRestarts = 1
INVARIANTS
    TypeOK
    IndexesExact
    NonLockedLinked
    
    
PROPERTIES
    ChainLockPrevails
