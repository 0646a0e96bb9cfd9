--------------------------- MODULE ServerLifecycle ---------------------------
(***************************************************************************)
(* The process of cmd/oops/main.go and the api.Server it runs: the start    *)
(* (NewFromConfigWithConsoleHub), the admission of requests and streams     *)
(* (trackRequest, beginRequest, beginStream), and the shutdown: Quiesce,    *)
(* the draining of HTTP, and Close, which closes the resources in an order, *)
(* gives up at its deadline and is resumed by a later call.                 *)
(*                                                                          *)
(* What closing a resource takes is the subject of other modules (RunManager, *)
(* McpManager, Nodelets, SkillStore); here it waits for the users that the  *)
(* resource waits for.                                                      *)
(***************************************************************************)
EXTENDS Integers, Sequences, FiniteSets

CONSTANTS Request,    \* HTTP requests
          Closer,     \* the callers of Server.Close
          Main        \* the one of them that is the main goroutine

VARIABLES
  ownsHub,    \* the server made its console hub itself: main.go hands it one
  boot,       \* where the start of the process is
  open,       \* the resources that are open
  listening,  \* the HTTP server accepts connections
  quiesced,   \* how far Quiesce has come: "no", "requests", "runs"
  handler,    \* what each request is doing; it is in requestWG while tracked
  streams,    \* the requests that are in streamWG
  run,        \* the run that each request has started
  main,       \* what the main goroutine is doing
  at,         \* where each call of Close is
  expired,    \* the calls whose context is done
  phase,      \* closePhase
  passed,     \* the check of the context at the head of the loop is behind
  step,       \* closeStepDone and closeStepErr: the blocking close under way
  closeErr    \* an error has been kept in closeErr

ASSUME MainCloses == Main \in Closer

processVars == <<ownsHub, boot, open, listening, quiesced>>
workVars   == <<handler, streams, run>>
closeVars  == <<at, expired, phase, passed, step, closeErr>>
serverVars == <<processVars, workVars, main, closeVars>>

\* serverClosePhase, in its order.
Phase == <<"requests", "streams", "runs", "mcp", "httpLimiter", "loginLimiter",
           "skills", "prober", "store", "hub", "done">>
Now == Phase[phase]

\* The order in which the constructor opens what the phases close.
StartOrder == <<"hub", "store", "httpLimiter", "loginLimiter", "runs", "skills", "mcp", "prober">>
Resource == {StartOrder[i] : i \in DOMAIN StartOrder}

Tracked == {r \in Request : handler[r] = "tracked"}
LiveRuns == {r \in Request : run[r] = "live"}

ServerInit ==
  /\ ownsHub \in BOOLEAN
  /\ boot = "starting" /\ open = {"hub"} /\ listening = FALSE /\ quiesced = "no"
  /\ handler = [r \in Request |-> "new"] /\ streams = {} /\ run = [r \in Request |-> "none"]
  /\ main = "starting"
  /\ at = [c \in Closer |-> "idle"] /\ expired = {} /\ phase = 1 /\ passed = FALSE
  /\ step = "none" /\ closeErr = FALSE

\* Quiesce refuses new requests and streams first and new runs second; all of
\* its callers wait for both (quiesceOnce).
BeginQuiesce == quiesced' = IF quiesced = "no" THEN "requests" ELSE quiesced

QuiesceRuns ==
  /\ quiesced = "requests"
  /\ quiesced' = "runs"
  /\ UNCHANGED <<ownsHub, boot, open, listening, workVars, main, closeVars>>

-----------------------------------------------------------------------------
(* Start. *)

\* The next resource of the constructor is opened; the last one ends the start
\* and main begins to listen.
Start ==
  /\ boot = "starting"
  /\ LET next == StartOrder[Cardinality(open) + 1]
     IN  /\ open' = open \cup {next}
         /\ IF next = "prober"
            THEN boot' = "up" /\ main' = "serving" /\ listening' = TRUE
            ELSE UNCHANGED <<boot, main, listening>>
  /\ UNCHANGED <<ownsHub, quiesced, workVars, closeVars>>

\* Until there is a Server an error closes the store alone ...
StartFailsEarly ==
  /\ boot = "starting" /\ "httpLimiter" \notin open
  /\ boot' = "failed" /\ open' = {} /\ main' = "exited"
  /\ UNCHANGED <<ownsHub, listening, quiesced, workVars, closeVars>>

\* ... and an error of the MCP manager, which is made after it, closes the Server.
StartFailsLate ==
  /\ boot = "starting" /\ "skills" \in open /\ "mcp" \notin open
  /\ boot' = "failed" /\ main' = "closing"
  /\ BeginQuiesce
  /\ at' = [at EXCEPT ![Main] = "waiting"]
  /\ UNCHANGED <<ownsHub, open, listening, workVars, expired, phase, passed, step, closeErr>>

-----------------------------------------------------------------------------
(* Requests. *)

\* net/http has accepted the request and calls its handler.
Arrive(r) ==
  /\ listening /\ handler[r] = "new"
  /\ handler' = [handler EXCEPT ![r] = "arrived"]
  /\ UNCHANGED <<processVars, streams, run, main, closeVars>>

\* trackRequest and beginRequest.
BeginRequest(r) ==
  /\ handler[r] = "arrived"
  /\ handler' = [handler EXCEPT ![r] = IF quiesced # "no" THEN "ended" ELSE "tracked"]
  /\ UNCHANGED <<processVars, streams, run, main, closeVars>>

\* beginStream, in the handlers that stream; refused, the request goes on to end.
BeginStream(r) ==
  /\ handler[r] = "tracked" /\ r \notin streams /\ run[r] = "none"
  /\ quiesced = "no"
  /\ streams' = streams \cup {r}
  /\ UNCHANGED <<processVars, handler, run, main, closeVars>>

\* handleRunCreate starts a run that outlives the request; a quiesced run
\* manager refuses it.
StartRun(r) ==
  /\ handler[r] = "tracked" /\ r \notin streams /\ run[r] = "none"
  /\ quiesced # "runs"
  /\ run' = [run EXCEPT ![r] = "live"]
  /\ UNCHANGED <<processVars, handler, streams, main, closeVars>>

\* The deferred finishStream and finishRequest of a handler that returns.
EndStream(r) ==
  /\ r \in streams
  /\ streams' = streams \ {r}
  /\ UNCHANGED <<processVars, handler, run, main, closeVars>>

EndRequest(r) ==
  /\ handler[r] = "tracked" /\ r \notin streams
  /\ handler' = [handler EXCEPT ![r] = "ended"]
  /\ UNCHANGED <<processVars, streams, run, main, closeVars>>

EndRun(r) ==
  /\ run[r] = "live"
  /\ run' = [run EXCEPT ![r] = "over"]
  /\ UNCHANGED <<processVars, handler, streams, main, closeVars>>

-----------------------------------------------------------------------------
(* The main goroutine. *)

\* shutdownAPIServer, after a signal or when the listener fails: Quiesce, and
\* Shutdown closes the listener.
Shutdown ==
  /\ main = "serving"
  /\ BeginQuiesce /\ listening' = FALSE /\ main' = "draining"
  /\ UNCHANGED <<ownsHub, boot, open, workVars, closeVars>>

\* Shutdown returns when no handler is left or its time is over; then it is
\* Server.Close with a context of its own.
HTTPDrained ==
  /\ main = "draining" /\ quiesced = "runs"
  /\ main' = "closing" /\ at' = [at EXCEPT ![Main] = "waiting"]
  /\ UNCHANGED <<processVars, workVars, expired, phase, passed, step, closeErr>>

\* closeConsoleAfterServerDrain, or the failed start: the hub goes last, and not
\* at all when what writes to it may still run.
MainReturns ==
  /\ main = "closing" /\ at[Main] \in {"ok", "error", "deadline"}
  /\ main' = "exited"
  /\ open' = IF ~ownsHub /\ (at[Main] = "ok" \/ boot = "failed") THEN open \ {"hub"} ELSE open
  /\ UNCHANGED <<ownsHub, boot, listening, quiesced, workVars, closeVars>>

-----------------------------------------------------------------------------
(* Server.Close. *)

\* Close and its Quiesce; a call that gave up or failed may be made again.
CallClose(c) ==
  /\ c # Main /\ boot = "up" /\ main # "exited" /\ at[c] \in {"idle", "deadline", "error"}
  /\ BeginQuiesce
  /\ at' = [at EXCEPT ![c] = "waiting"] /\ expired' = expired \ {c}
  /\ UNCHANGED <<ownsHub, boot, open, listening, workVars, main, phase, passed, step, closeErr>>

\* The deadline of a caller.
Expire(c) ==
  /\ at[c] \in {"waiting", "closing"} /\ c \notin expired
  /\ expired' = expired \cup {c}
  /\ UNCHANGED <<processVars, workVars, main, at, phase, passed, step, closeErr>>

\* closeGate: one call closes at a time, the others wait for it or their deadline.
TakeGate(c) ==
  /\ at[c] = "waiting" /\ quiesced = "runs" /\ \A d \in Closer : at[d] # "closing"
  /\ at' = [at EXCEPT ![c] = "closing"] /\ passed' = FALSE
  /\ UNCHANGED <<processVars, workVars, main, expired, phase, step, closeErr>>

GiveUpGate(c) ==
  /\ at[c] = "waiting" /\ quiesced = "runs" /\ c \in expired
  /\ at' = [at EXCEPT ![c] = "deadline"]
  /\ UNCHANGED <<processVars, workVars, main, expired, phase, passed, step, closeErr>>

\* The head of the loop, for the context, and for a wait that the context ends.
CheckContext(c) ==
  /\ at[c] = "closing" /\ ~passed /\ c \notin expired /\ Now # "done"
  /\ passed' = TRUE
  /\ UNCHANGED <<processVars, workVars, main, at, expired, phase, step, closeErr>>

\* Faulty variant: the context is only looked at between two phases.
LeaveBetweenPhases(c) ==
  /\ at[c] = "closing" /\ ~passed /\ c \in expired /\ Now # "done"
  /\ at' = [at EXCEPT ![c] = "deadline"] /\ passed' = FALSE
  /\ UNCHANGED <<processVars, workVars, main, expired, phase, step, closeErr>>

Leave(c) ==
  /\ at[c] = "closing" /\ c \in expired /\ Now # "done"
  /\ at' = [at EXCEPT ![c] = "deadline"] /\ passed' = FALSE
  /\ UNCHANGED <<processVars, workVars, main, expired, phase, step, closeErr>>

\* The phases below end here: closePhase++.
Advance == phase' = phase + 1 /\ passed' = FALSE

InPhase(c, p) == at[c] = "closing" /\ passed /\ Now = p

\* Faulty variant: requests that stream are left to the next phase.
RequestsGoneButStreams == Tracked \ streams = {}

\* requestWG.Wait.
RequestsGone == Tracked = {}

\* waitForRequests, waitForStreams; a hub that belongs to main is skipped.
Wait(c) ==
  /\ \/ InPhase(c, "requests") /\ RequestsGone
     \/ InPhase(c, "streams") /\ streams = {}
     \/ InPhase(c, "hub") /\ ~ownsHub
  /\ Advance
  /\ UNCHANGED <<processVars, workVars, main, at, expired, step, closeErr>>

\* runManager.close: returns without error when no worker is left.
CloseRuns(c) ==
  /\ InPhase(c, "runs") /\ LiveRuns = {}
  /\ open' = open \ {"runs"}
  /\ Advance
  /\ UNCHANGED <<ownsHub, boot, listening, quiesced, workVars, main, at, expired, step, closeErr>>

\* What is closed without waiting for others.
CloseAtOnce(c) ==
  /\ \/ InPhase(c, "httpLimiter") \/ InPhase(c, "loginLimiter")
     \/ (InPhase(c, "hub") /\ ownsHub)
  /\ open' = open \ {Now}
  /\ Advance
  /\ UNCHANGED <<ownsHub, boot, listening, quiesced, workVars, main, at, expired, step, closeErr>>

\* The closes that block go on in a goroutine, once: Manager.Shutdown, and
\* runCloseStep for the skill store, the prober and the runtime store.
StartStep(c) ==
  /\ \E p \in {"mcp", "skills", "prober", "store"} : InPhase(c, p)
  /\ step = "none"
  /\ IF boot = "failed" /\ Now \in {"mcp", "prober"}    \* never opened
     THEN Advance /\ UNCHANGED step
     ELSE step' = "running" /\ UNCHANGED <<phase, passed>>
  /\ UNCHANGED <<processVars, workVars, main, at, expired, closeErr>>

\* The goroutine ends; the store may report an error, when it is first closed.
RunStep ==
  /\ step = "running"
  /\ open' = open \ {Now}
  /\ step' \in {"closed"} \cup (IF Now = "store" /\ "store" \in open THEN {"failed"} ELSE {})
  /\ UNCHANGED <<ownsHub, boot, listening, quiesced, workVars, main, at, expired, phase, passed, closeErr>>

\* The call that waits sees the end of the step and keeps its error ...
FinishStep(c) ==
  /\ at[c] = "closing" /\ passed
  /\ step = "closed" \/ (step = "failed" /\ c \notin expired)
  /\ step' = "none" /\ Advance
  /\ closeErr' = (closeErr \/ step = "failed")
  /\ UNCHANGED <<processVars, workVars, main, at, expired>>

\* ... unless its deadline has come as well: then it returns the error without
\* keeping it, and a later call closes the store once more.
FinishStepLate(c) ==
  /\ at[c] = "closing" /\ passed /\ step = "failed" /\ c \in expired
  /\ step' = "none" /\ passed' = FALSE
  /\ at' = [at EXCEPT ![c] = "error"]
  /\ UNCHANGED <<processVars, workVars, main, expired, phase, closeErr>>

Return(c) ==
  /\ at[c] = "closing" /\ Now = "done"
  /\ at' = [at EXCEPT ![c] = IF closeErr THEN "error" ELSE "ok"]
  /\ UNCHANGED <<processVars, workVars, main, expired, phase, passed, step, closeErr>>

-----------------------------------------------------------------------------
Work(r) == EndStream(r) \/ EndRequest(r) \/ EndRun(r)

CloseStep(c) ==
  \/ TakeGate(c) \/ GiveUpGate(c) \/ CheckContext(c) \/ Leave(c) \/ Wait(c) \/ CloseRuns(c)
  \/ CloseAtOnce(c) \/ StartStep(c) \/ FinishStep(c) \/ FinishStepLate(c) \/ Return(c)

ServerNext ==
  \/ Start \/ StartFailsEarly \/ StartFailsLate
  \/ \E r \in Request : Arrive(r) \/ BeginRequest(r) \/ BeginStream(r) \/ StartRun(r) \/ Work(r)
  \/ Shutdown \/ QuiesceRuns \/ HTTPDrained \/ MainReturns
  \/ \E c \in Closer : CallClose(c) \/ Expire(c) \/ CloseStep(c)
  \/ RunStep

ServerSpec == ServerInit /\ [][ServerNext]_serverVars

-----------------------------------------------------------------------------
Returned(c) == at[c] \in {"ok", "error", "deadline"}

ServerTypeOK ==
  /\ ownsHub \in BOOLEAN /\ boot \in {"starting", "up", "failed"} /\ open \subseteq Resource
  /\ listening \in BOOLEAN /\ quiesced \in {"no", "requests", "runs"}
  /\ handler \in [Request -> {"new", "arrived", "tracked", "ended"}]
  /\ streams \subseteq Request /\ run \in [Request -> {"none", "live", "over"}]
  /\ main \in {"starting", "serving", "draining", "closing", "exited"}
  /\ at \in [Closer -> {"idle", "waiting", "closing", "ok", "error", "deadline"}]
  /\ expired \subseteq Closer /\ phase \in DOMAIN Phase /\ passed \in BOOLEAN
  /\ step \in {"none", "running", "closed", "failed"} /\ closeErr \in BOOLEAN

\* Nothing is closed under its users, whichever calls of Close gave up and were
\* resumed: a tracked handler and a live run find open what they use, the hub
\* outlives all that writes to it (but for a start that failed), and a Close that reports success has left
\* nothing open, running or half closed.
UsersFirst ==
  /\ Tracked # {} => Resource \subseteq open
  /\ LiveRuns # {} => Resource \ {"runs"} \subseteq open
  /\ boot = "up" /\ "hub" \notin open => Tracked \cup LiveRuns \cup streams = {} /\ step # "running"
  /\ \A c \in Closer : at[c] = "ok" =>
       /\ open \subseteq (IF ownsHub THEN {} ELSE {"hub"})
       /\ Tracked \cup LiveRuns \cup streams = {} /\ step = "none"

\* closeResources: the types, and each resource outlives its users.
NoUseAfterClose == ServerTypeOK /\ UsersFirst

\* A call of Close that has begun returns: at its deadline, whatever hangs, and
\* without one as soon as handlers, runs and resources come to their end.
DeadlinesCome == \A c \in Closer : WF_serverVars(Expire(c))
WorkEnds == WF_serverVars(RunStep) /\ \A r \in Request : WF_serverVars(Work(r))

CloseReturns ==
  DeadlinesCome \/ WorkEnds =>
    \A c \in Closer : at[c] \in {"waiting", "closing"} ~> Returned(c)

===============================================================================
