----------------------------- MODULE MCMcpManager -----------------------------
(* Model values for McpManager. *)
EXTENDS McpManager, TLC

CONSTANTS c1, c2, f1, f2, k1, k2

OneConn  == {c1}
TwoConns == {c1, c2}
OneConf  == {f1}
TwoConfs == {f1, f2}
OneCaller  == {k1}
TwoCallers == {k1, k2}

ConfSymmetry == Permutations({f1, f2})
==============================================================================
