------------------------------ MODULE MCEvoDB ------------------------------
(***************************************************************************)
(* EvoDB for TLC: three keys in order and two values.                      *)
(***************************************************************************)
EXTENDS EvoDBIterator

CONSTANTS v1, v2

TwoValues == {v1, v2}
=============================================================================
