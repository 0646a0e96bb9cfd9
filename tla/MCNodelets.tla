------------------------------ MODULE MCNodelets ------------------------------
(* Model values and small bounds for Nodelets. *)
EXTENDS Nodelets

CONSTANTS c1, c2, f1, f2

TwoClients == {c1, c2}

TwoConfs == {f1, f2}
===============================================================================
