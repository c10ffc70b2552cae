---------------------------- MODULE MCDKGSession ----------------------------
(***************************************************************************)
(* Three members, one of which simulates errors.                           *)
(***************************************************************************)
EXTENDS DKGSession, TLC

CONSTANTS a, b, c

MCMembers == {a, b, c}
MCFaulty == {c}
MCLies == {"key", "sig", "share"}
Sym == Permutations({a, b})
=============================================================================
