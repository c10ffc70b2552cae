---------------------------- MODULE NestedStore ----------------------------
(***************************************************************************)
(* What the EvoDB promises: a map from keys to values in three versions.   *)
(* Block processing changes the visible one, the end of a block's          *)
(* transaction makes it the committed one or goes back to it, and a flush  *)
(* makes the committed one durable.                                        *)
(***************************************************************************)
CONSTANTS Keys, Values, NoValue

VARIABLES visible, committed, durable

vars == <<visible, committed, durable>>

Init ==
    /\ durable = [k \in Keys |-> NoValue]
    /\ committed = durable /\ visible = durable

Put(k, v) ==
    /\ visible' = [visible EXCEPT ![k] = v]
    /\ UNCHANGED <<committed, durable>>

Commit == committed' = visible /\ UNCHANGED <<visible, durable>>
Rollback == visible' = committed /\ UNCHANGED <<committed, durable>>

Flush ==
    /\ visible = committed
    /\ durable' = committed /\ UNCHANGED <<visible, committed>>

Crash == visible' = durable /\ committed' = durable /\ UNCHANGED durable

Next ==
    \/ \E k \in Keys, v \in Values \cup {NoValue} : Put(k, v)
    \/ Commit \/ Rollback \/ Flush \/ Crash

Spec == Init /\ [][Next]_vars
=============================================================================
