---------------------------- MODULE AdmissionGate ----------------------------
(***************************************************************************)
(* What the run manager promises to the rest of the server, stated without *)
(* counters, reservations or contexts: at most Capacity requests are       *)
(* inside, nobody enters once the gate is shut, and a shut gate never      *)
(* opens again.  RunManager is shown to implement this specification.      *)
(***************************************************************************)
EXTENDS Naturals, FiniteSets

CONSTANTS Request,   \* the requests that may ask for admission
          Capacity   \* how many of them may be inside at once

VARIABLES inside,    \* the requests that hold a place
          shut       \* admission has ended for good

gateVars == <<inside, shut>>

Init == inside = {} /\ shut = FALSE

Enter(r) ==
  /\ ~shut
  /\ r \notin inside
  /\ Cardinality(inside) < Capacity
  /\ inside' = inside \cup {r}
  /\ UNCHANGED shut

Leave(r) ==
  /\ r \in inside
  /\ inside' = inside \ {r}
  /\ UNCHANGED shut

Shut ==
  /\ ~shut
  /\ shut' = TRUE
  /\ UNCHANGED inside

Next == Shut \/ \E r \in Request : Enter(r) \/ Leave(r)

Spec == Init /\ [][Next]_gateVars
==============================================================================
