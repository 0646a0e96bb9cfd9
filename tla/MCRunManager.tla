---------------------------- MODULE MCRunManager ----------------------------
(* Instances of RunManager for TLC. *)
EXTENDS RunManager

CONSTANTS r1, r2, e1, s1

TwoRequests == {r1, r2}
OneEditor == {e1}
OneSession == {s1}
=============================================================================
