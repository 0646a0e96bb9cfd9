-------------------------------- MODULE RunLog --------------------------------
(***************************************************************************)
(* What a client of GET /api/runs/{id}/events may rely on, stated without   *)
(* queues, budgets or locks: a run is a log that only grows and closes with *)
(* its last entry; a client sees entries in order and never twice; the      *)
(* entries it may miss between two others are those that were written       *)
(* before it joined and are too large to be kept.  RunStream is shown to    *)
(* implement this specification.                                            *)
(***************************************************************************)
EXTENDS Integers, Sequences

CONSTANTS Subscriber,  \* the clients
          Size,        \* the sizes an entry may have
          KeptSize     \* entries up to this size are kept for later clients

VARIABLES log,     \* the sizes of the entries written so far
          closed,  \* the last entry has been written
          joined,  \* the length of the log when each client joined, -1 before
          seen     \* the positions of the entries each client has received

logVars == <<log, closed, joined, seen>>

Init ==
  /\ log = <<>>
  /\ closed = FALSE
  /\ joined = [s \in Subscriber |-> -1]
  /\ seen = [s \in Subscriber |-> <<>>]

Write ==
  /\ ~closed
  /\ closed' \in BOOLEAN
  /\ \E n \in Size : log' = Append(log, n)
  /\ UNCHANGED <<joined, seen>>

Join(s) ==
  /\ joined[s] = -1
  /\ joined' = [joined EXCEPT ![s] = Len(log)]
  /\ UNCHANGED <<log, closed, seen>>

\* The position of the last entry client s has received.
Position(s) == IF seen[s] = <<>> THEN 0 ELSE seen[s][Len(seen[s])]

Receive(s, n) ==
  /\ joined[s] # -1
  /\ n > Position(s)
  /\ \A k \in (Position(s) + 1)..(n - 1) :
       k <= joined[s] /\ (seen[s] = <<>> \/ log[k] > KeptSize)
  /\ seen' = [seen EXCEPT ![s] = Append(@, n)]
  /\ UNCHANGED <<log, closed, joined>>

Next ==
  \/ Write
  \/ \E s \in Subscriber : Join(s) \/ \E n \in 1..Len(log) : Receive(s, n)

Spec == Init /\ [][Next]_logVars
==============================================================================
