--------------------------- MODULE MCInstantSend ---------------------------
(***************************************************************************)
(* Two chains that fork at the genesis block g: a1 holds t1, b1 holds t2,  *)
(* and b2 follows b1.  Both t1 and t2 spend the output o1 of f, which is   *)
(* in g; ch spends the output o2 of t1.  There is a lock l1 of t1, which   *)
(* peers send, and a lock lc of ch, which the node helps to create; a      *)
(* ChainLock of b1 excludes l1 and, with it, lc.                           *)
(***************************************************************************)
EXTENDS InstantSend, TLC

CONSTANTS g, a1, b1, b2, f, t1, t2, ch, o1, o2, l1, lc

MCBlocks == {g, a1, b1, b2}
MCParent == (a1 :> g) @@ (b1 :> g) @@ (b2 :> b1)
MCHeight == (g :> 0) @@ (a1 :> 1) @@ (b1 :> 1) @@ (b2 :> 2)
MCAnc == (g :> {g}) @@ (a1 :> {g, a1}) @@ (b1 :> {g, b1}) @@ (b2 :> {g, b1, b2})
MCBlockTx == (g :> f) @@ (a1 :> t1) @@ (b1 :> t2) @@ (b2 :> Null)
MCTxs == {f, t1, t2, ch}
MCOutpoints == {o1, o2}
MCInputs == (f :> {}) @@ (t1 :> {o1}) @@ (t2 :> {o1}) @@ (ch :> {o2})
MCOwner == (o1 :> f) @@ (o2 :> t1)
MCLockTx == (l1 :> t1) @@ (lc :> ch)
=============================================================================
