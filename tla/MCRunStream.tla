----------------------------- MODULE MCRunStream -----------------------------
(* Model values and small limits for RunStream. *)
EXTENDS RunStream

CONSTANTS c1, c2

TwoClients == {c1, c2}

\* Three events of size 1 exceed the retained events, and an event of size 4 is
\* too large to be retained and fills the queue of a client alone.
SmallSizes == {1, 4}

TerminalSizes == {1}

OneOrTwo == {1, 2}
==============================================================================
