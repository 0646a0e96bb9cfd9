------------------------------- MODULE ToolBatch -------------------------------
(***************************************************************************)
(* One batch of tool calls: Runner.ExecuteTools, which prepares the calls    *)
(* of an answer, executes them one by one or each in a goroutine, and tells  *)
(* the agent of each with events (processEvent), under a mutex.  A listener  *)
(* of the agent may refuse an event, and the run may be cancelled, between   *)
(* any two steps; a tool may use its sink for updates after it returned.     *)
(*                                                                          *)
(* Arguments and results are left out: a hook or a schema refuses a call or  *)
(* does not.                                                                *)
(***************************************************************************)
EXTENDS Integers, Sequences, FiniteSets

CONSTANTS Calls,        \* number of calls
          CallId,       \* ids; a provider may use one for two calls
          MaxUpdates, MaxRefusals  \* bounds: updates of a call, events that are refused

ASSUME BatchConstants == Calls \in Nat /\ MaxRefusals \in Nat

VARIABLES
  runnerMode,   \* of the runner
  tool,         \* of each call: its mode, or "unknown"
  callId,
  batchAt, next,     \* the goroutine of the batch, and the call it is at
  callStage, sink,  \* of each call; its updateState
  events,       \* history: <<type, call>>, as the agent reduces them
  pending,      \* PendingToolCalls of the agent
  halted,       \* the run is cancelled
  refused       \* history: how many events were refused

batchVars == <<runnerMode, tool, callId, batchAt, next, callStage, sink, events, pending, halted, refused>>

Batch == 1..Calls

BatchInit ==
  /\ runnerMode \in {"parallel", "sequential"}
  /\ tool \in [Batch -> {"parallel", "sequential", "unknown"}]
  /\ callId \in [Batch -> CallId]
  /\ batchAt = "preparing" /\ next = 1
  /\ callStage = [c \in Batch |-> "new"] /\ sink = [c \in Batch |-> "none"]
  /\ events = <<>> /\ pending = {}
  /\ halted = FALSE /\ refused = 0

\* Faulty variant: the tools are not asked.
RunnerModeOnly == runnerMode

\* batchMode: one tool that wants to be alone makes the batch sequential.
BatchMode ==
  IF \E c \in Batch : tool[c] = "sequential" THEN "sequential" ELSE runnerMode

\* Where the listeners were told this of a call.
Told(type, c) == {i \in DOMAIN events : events[i] = <<type, c>>}

\* reduceAgentEventLocked: what starts and ends is added and removed by its id.
\* A message and a result that ends are one event here.
Emit(type, c) ==
  /\ events' = Append(events, <<type, c>>)
  /\ pending' = CASE type = "start" -> pending \cup {callId[c]}
                  [] type = "end" -> pending \ {callId[c]}
                  [] OTHER -> pending

\* A listener takes the event or refuses it; the agent has reduced it in either case.
Taken == UNCHANGED refused
Refused == refused < MaxRefusals /\ refused' = refused + 1

Stage(c, s) == callStage' = [callStage EXCEPT ![c] = s]
Fixed == UNCHANGED <<runnerMode, tool, callId>>
Quiet == UNCHANGED <<events, pending, refused>>

-----------------------------------------------------------------------------
(* The goroutine of the batch. *)

\* A batch that fails in its preparation has started no goroutine.
StartInterrupted ==
  /\ batchAt = "preparing" /\ next <= Calls /\ callStage[next] = "new" /\ halted
  /\ batchAt' = "failed"
  /\ Fixed /\ Quiet /\ UNCHANGED <<next, callStage, sink, halted>>

\* prepare: the start is told first, also of a tool that nobody knows.
Start ==
  /\ batchAt = "preparing" /\ next <= Calls /\ callStage[next] = "new" /\ ~halted
  /\ Emit("start", next) /\ Stage(next, "started")
  /\ \/ Taken /\ UNCHANGED batchAt
     \/ Refused /\ batchAt' = "failed"
  /\ Fixed /\ UNCHANGED <<next, sink, halted>>

\* Where the batch goes on after a call is prepared, or after its message.
Onward(c) == IF BatchMode = "sequential" THEN UNCHANGED next ELSE next' = c + 1

\* An unknown tool, arguments that do not fit, or a hook that blocks.
RefuseCall ==
  /\ batchAt = "preparing" /\ next <= Calls /\ callStage[next] = "started"
  /\ Emit("end", next) /\ Stage(next, "ended")
  /\ \/ Taken /\ Onward(next) /\ UNCHANGED batchAt
     \/ Refused /\ batchAt' = "failed" /\ UNCHANGED next
  /\ Fixed /\ UNCHANGED <<sink, halted>>

Accept ==
  /\ batchAt = "preparing" /\ next <= Calls /\ callStage[next] = "started" /\ tool[next] # "unknown"
  /\ Stage(next, "ready") /\ Onward(next)
  /\ Fixed /\ Quiet /\ UNCHANGED <<batchAt, sink, halted>>

\* executeParallel: a goroutine for each call that is ready,
Launch ==
  /\ batchAt = "preparing" /\ next > Calls /\ BatchMode = "parallel"
  /\ batchAt' = "running"
  /\ Fixed /\ Quiet /\ UNCHANGED <<next, callStage, sink, halted>>

\* and when all have ended either an error or the messages, in the order of the calls.
Join ==
  /\ batchAt = "running" /\ \A c \in Batch : callStage[c] \in {"ended", "failed"}
  /\ IF halted \/ \E c \in Batch : callStage[c] = "failed"
       THEN batchAt' = "failed" /\ UNCHANGED next
       ELSE batchAt' = "telling" /\ next' = 1
  /\ Fixed /\ Quiet /\ UNCHANGED <<callStage, sink, halted>>

\* emitToolMessage, in a sequential batch after each call.
Tell ==
  /\ \/ batchAt = "telling"
     \/ batchAt = "preparing" /\ BatchMode = "sequential"
  /\ next <= Calls /\ callStage[next] = "ended"
  /\ Emit("message", next)
  /\ \/ Taken /\ next' = next + 1 /\ UNCHANGED batchAt
     \/ Refused /\ batchAt' = "failed" /\ UNCHANGED next
  /\ Fixed /\ UNCHANGED <<callStage, sink, halted>>

ReturnBatch ==
  /\ next > Calls /\ batchAt = (IF BatchMode = "sequential" THEN "preparing" ELSE "telling")
  /\ batchAt' = "returned"
  /\ Fixed /\ Quiet /\ UNCHANGED <<next, callStage, sink, halted>>

\* A call of a sequential batch failed.
Abandon ==
  /\ batchAt = "preparing" /\ next <= Calls /\ callStage[next] = "failed"
  /\ batchAt' = "failed"
  /\ Fixed /\ Quiet /\ UNCHANGED <<next, callStage, sink, halted>>

-----------------------------------------------------------------------------
(* executePrepared. *)

MayExecute(c) ==
  callStage[c] = "ready" /\ (IF BatchMode = "sequential" THEN batchAt = "preparing" ELSE batchAt = "running")

Execute(c) ==
  /\ MayExecute(c)
  /\ IF halted THEN Stage(c, "failed") /\ UNCHANGED sink
     ELSE Stage(c, "executing") /\ sink' = [sink EXCEPT ![c] = "active"]
  /\ Fixed /\ Quiet /\ UNCHANGED <<batchAt, next, halted>>

\* emitIfActive, with the mutex of the state held; a refusal goes to the tool.
Update(c) ==
  /\ sink[c] = "active"
  /\ Cardinality(Told("update", c)) < MaxUpdates
  /\ Emit("update", c)
  /\ \/ Taken /\ UNCHANGED callStage
     \/ Refused /\ callStage' = [callStage EXCEPT ![c] = IF @ = "executing" THEN "troubled" ELSE @]
  /\ Fixed /\ UNCHANGED <<batchAt, next, sink, halted>>

\* Faulty variant: the state of the updates stays active.
KeepSink(c) == UNCHANGED sink

\* state.close: updates that come later are dropped.
CloseSink(c) == sink' = [sink EXCEPT ![c] = "closed"]

\* The tool returns a result or an error, and the hook has seen it;
ToolReturns(c) ==
  /\ callStage[c] \in {"executing", "troubled"}
  /\ Stage(c, "closing") /\ CloseSink(c)
  /\ Fixed /\ Quiet /\ UNCHANGED <<batchAt, next, halted>>

\* or passes on that an update was refused.
UpdateFails(c) ==
  /\ callStage[c] = "troubled"
  /\ Stage(c, "failed") /\ CloseSink(c)
  /\ Fixed /\ Quiet /\ UNCHANGED <<batchAt, next, halted>>

\* emitToolEnd.
EndCall(c) ==
  /\ callStage[c] = "closing"
  /\ Emit("end", c)
  /\ \/ Taken /\ Stage(c, "ended")
     \/ Refused /\ Stage(c, "failed")
  /\ Fixed /\ UNCHANGED <<batchAt, next, sink, halted>>

CancelRun ==
  /\ ~halted /\ halted' = TRUE
  /\ Fixed /\ Quiet /\ UNCHANGED <<batchAt, next, callStage, sink>>

BatchNext ==
  \/ StartInterrupted \/ Start \/ RefuseCall \/ Accept \/ Launch \/ Join \/ Tell \/ ReturnBatch \/ Abandon
  \/ \E c \in Batch : Execute(c) \/ Update(c) \/ ToolReturns(c) \/ UpdateFails(c) \/ EndCall(c)
  \/ CancelRun

BatchSpec == BatchInit /\ [][BatchNext]_batchVars

-----------------------------------------------------------------------------
Executing == {c \in Batch : callStage[c] \in {"executing", "troubled", "closing"}}
BatchOver == batchAt \in {"returned", "failed"}

BatchTypeOK ==
  /\ batchAt \in {"preparing", "running", "telling", "returned", "failed"} /\ next \in 1..(Calls + 1)
  /\ callStage \in [Batch -> {"new", "started", "ready", "executing", "troubled", "closing", "ended", "failed"}]
  /\ sink \in [Batch -> {"none", "active", "closed"}]
  /\ pending \subseteq CallId /\ refused \in 0..MaxRefusals

\* Whoever listens can follow each call: it starts once, ends at most once, all
\* its updates are in between, whenever a tool still uses its sink, and its
\* message comes after its end, in the order of the calls whichever ends first.
EventsFollow ==
  /\ \A c \in Batch :
       /\ Cardinality(Told("start", c)) = (IF callStage[c] = "new" THEN 0 ELSE 1)
       /\ Cardinality(Told("end", c)) <= 1 /\ Cardinality(Told("message", c)) <= 1
       /\ \A u \in Told("update", c) : (\A s \in Told("start", c) : s < u) /\ (\A e \in Told("end", c) : u < e)
       /\ \A t \in Told("message", c) : \E e \in Told("end", c) : e < t
  /\ \A c, d \in Batch : c < d => \A t \in Told("message", c), u \in Told("message", d) : t < u

\* A batch that returned has an end and a message of each call; one that is over,
\* for whatever reason, has no tool at work and nobody who could still tell
\* something of it, in the next turn.
NothingLeftBehind ==
  /\ batchAt = "returned" => \A c \in Batch : Told("end", c) # {} /\ Told("message", c) # {}
  /\ BatchOver => Executing = {} /\ \A c \in Batch : sink[c] # "active"

\* A tool that wants to be alone is.
Alone == \A c \in Executing : tool[c] = "sequential" => Executing = {c}

\* The agent shows as pending what started and did not end, unless a call of
\* the same id did.
PendingExact ==
  \A c \in Batch :
    (\A d \in Batch \ {c} : callId[d] # callId[c]) =>
      (callId[c] \in pending <=> Told("start", c) # {} /\ Told("end", c) = {})

\* tool_runner.go: each call of a batch is told of from its start to its end, in order,
\* and when the batch is over nothing of it is left at work.
CallsAccounted == BatchTypeOK /\ EventsFollow /\ NothingLeftBehind /\ Alone /\ PendingExact
===============================================================================
