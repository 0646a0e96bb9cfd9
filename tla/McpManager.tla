------------------------------ MODULE McpManager ------------------------------
(***************************************************************************)
(* The manager of the MCP connections (internal/mcp/manager.go and its       *)
(* manager_*.go): the saved configuration, the asynchronous starts, the      *)
(* running processes with the leases of their callers, the health checks,    *)
(* the snapshots of the visible tools on their way to onChange, and the      *)
(* shutdown.                                                                 *)
(*                                                                           *)
(* mutationMu is the variable step: "free", or what its holder still has to  *)
(* do.  Each action is one critical section of Manager.mu.  A start and the  *)
(* process it makes have the number the manager gives to the start.  Every   *)
(* server is taken to have at least one tool, so the tools of a process are   *)
(* its number, and what sameVisibleTools compares of them is the connection   *)
(* and the configuration they come from.                                     *)
(***************************************************************************)
EXTENDS Integers, Sequences

CONSTANTS Conn,           \* ids of connections
          Conf,           \* what sameRuntimeConfig compares: command, URL, ...
          Absent,         \* no connection with this id
          NoChange,       \* refreshVisibleToolsLocked found nothing new
          Caller,         \* goroutines that call tools
          QueueCapacity,  \* notificationQueueCapacity
          MaxStarts       \* bound of the model on the starts scheduled

ASSUME ManagerAssumption ==
  /\ QueueCapacity \in Nat \ {0} /\ MaxStarts \in Nat
  /\ Absent \notin [conf : Conf, enabled : BOOLEAN]
  /\ \A T \in SUBSET (1..MaxStarts) : NoChange # T

Saved == [conf : Conf, enabled : BOOLEAN]

VARIABLES
  stored,     \* the connections in the runtime store
  config,     \* Manager.config
  draft,      \* the candidate configuration of the request that holds mutationMu
  edited,     \* the connection it changes
  step,       \* mutationMu: "free", "saving", "publishing", "announcing"
  change,     \* the snapshot its holder has still to enqueue
  start,      \* every start: its connection, its configuration, where it stands
  starting,   \* Manager.starting: the token of each connection, 0 for none
  attached,   \* Manager.processes: the process of each connection, 0 for none
  errors,     \* the connections with an entry in Manager.errors
  visible,    \* Manager.visibleTools
  queue,      \* notificationCh
  delivered,  \* what onChange was last called with
  call,       \* the process each caller has a lease of, 0 for none
  recheck,    \* a test that verifies another configuration's process
  shutdown    \* how far Shutdown and closeResources are

adminVars == <<stored, config, draft, edited>>
toolVars  == <<visible, change>>
vars == <<adminVars, step, toolVars, start, starting, attached, errors,
          queue, delivered, call, recheck, shutdown>>

Token == 1..Len(start)

Stages == {"connecting", "connected", "failed", "over",
           "attached", "draining", "closing", "closed"}
Healths == {"none", "waiting", "probing", "good", "bad", "over"}

TypeOK ==
  /\ stored \in [Conn -> Saved \cup {Absent}]
  /\ config \in [Conn -> Saved \cup {Absent}]
  /\ draft \in [Conn -> Saved \cup {Absent}]
  /\ edited \in Conn
  /\ step \in {"free", "saving", "publishing", "announcing"}
  /\ change \in {NoChange} \cup SUBSET Token
  /\ start \in Seq([conn : Conn, conf : Conf, stage : Stages, health : Healths])
  /\ Len(start) <= MaxStarts
  /\ starting \in [Conn -> 0..Len(start)]
  /\ attached \in [Conn -> 0..Len(start)]
  /\ errors \subseteq Conn
  /\ visible \subseteq Token /\ delivered \subseteq Token
  /\ queue \in Seq(SUBSET Token) /\ Len(queue) <= QueueCapacity
  /\ call \in [Caller -> 0..Len(start)]
  /\ recheck \in [proc : 0..Len(start), failed : BOOLEAN]
  /\ shutdown \in {"open", "closed", "stopped", "notified", "closing", "done"}

Exists(c)  == config[c] # Absent
Enabled(c) == Exists(c) /\ config[c].enabled
Live       == {t \in Token : start[t].stage = "attached"}
Leased(t)  == (\E k \in Caller : call[k] = t) \/ (recheck.proc = t /\ ~recheck.failed)
NoRecheck  == [proc |-> 0, failed |-> FALSE]

-----------------------------------------------------------------------------
(* Building blocks: scheduling a start, detaching a process, and the tools.  *)

NewStart(c, f) == [conn |-> c, conf |-> f, stage |-> "connecting", health |-> "none"]

\* scheduleStartLocked; the goroutine of launchStart runs from here on, and can
\* do nothing to the manager before mutationMu is free.
Schedule(c, starts, pending) ==
  /\ start' = Append(starts, NewStart(c, config'[c].conf))
  /\ starting' = [pending EXCEPT ![c] = Len(starts) + 1]

\* detachProcessLocked: the starts after it, and the connections' processes.
DrainedStarts(c) ==
  IF attached[c] = 0 THEN start ELSE [start EXCEPT ![attached[c]].stage = "draining"]

Detach(c) == attached' = [attached EXCEPT ![c] = 0]

Signature(tools) == {<<start[t].conn, start[t].conf>> : t \in tools}

\* refreshVisibleToolsLocked: a list that compares equal is not replaced.
Refresh(tools) ==
  IF Signature(tools) = Signature(visible)
  THEN UNCHANGED toolVars
  ELSE visible' = tools /\ change' = tools

\* Detach, record why, and take the tools out of the list.
Fail(c) ==
  /\ start' = DrainedStarts(c)
  /\ Detach(c)
  /\ starting' = [starting EXCEPT ![c] = 0]
  /\ errors' = errors \cup {c}
  /\ Refresh(Live \ {attached[c]})
  /\ step' = "announcing"

\* Closing a detached process and checking the health of a new one wait until
\* the snapshot is in the queue.
AfterUnlock(s) ==
  CASE s.stage = "draining"                      -> [s EXCEPT !.stage = "closing"]
    [] s.stage = "attached" /\ s.health = "none" -> [s EXCEPT !.health = "waiting"]
    [] OTHER                                     -> s

\* Faulty variant: the snapshot is dropped when the queue is full.
AnnounceOrDrop ==
  /\ step = "announcing"
  /\ queue' = IF change = NoChange \/ Len(queue) = QueueCapacity
              THEN queue ELSE Append(queue, change)
  /\ change' = NoChange
  /\ step' = "free"
  /\ start' = [t \in Token |-> AfterUnlock(start[t])]
  /\ UNCHANGED <<adminVars, visible, starting, attached, errors, delivered, call, recheck, shutdown>>

\* Faulty variant: the queue grows without a bound.
AnnounceUnbounded ==
  /\ step = "announcing"
  /\ queue' = IF change = NoChange THEN queue ELSE Append(queue, change)
  /\ change' = NoChange
  /\ step' = "free"
  /\ start' = [t \in Token |-> AfterUnlock(start[t])]
  /\ UNCHANGED <<adminVars, visible, starting, attached, errors, delivered, call, recheck, shutdown>>

\* enqueueToolChange under mutationMu, which waits while the queue is full, then
\* the unlock; a detached process is closed after it.
Announce ==
  /\ step = "announcing"
  /\ IF change = NoChange
     THEN UNCHANGED queue
     ELSE Len(queue) < QueueCapacity /\ queue' = Append(queue, change)
  /\ change' = NoChange
  /\ step' = "free"
  /\ start' = [t \in Token |-> AfterUnlock(start[t])]
  /\ UNCHANGED <<adminVars, visible, starting, attached, errors, delivered, call, recheck, shutdown>>

\* The dispatcher goroutine calls onChange, one snapshot after the other.
Deliver ==
  /\ queue # <<>>
  /\ delivered' = Head(queue)
  /\ queue' = Tail(queue)
  /\ UNCHANGED <<adminVars, step, toolVars, start, starting, attached, errors, call, recheck, shutdown>>

-----------------------------------------------------------------------------
(* Add, Update and Remove: validate, save without Manager.mu, publish.       *)

Propose(c, new) ==
  /\ step = "free" /\ shutdown = "open"
  /\ IF new # Absent THEN new.enabled => Len(start) < MaxStarts ELSE TRUE
  /\ draft' = [config EXCEPT ![c] = new]
  /\ edited' = c
  /\ step' = "saving"
  /\ UNCHANGED <<stored, config, toolVars, start, starting, attached, errors,
                 queue, delivered, call, recheck, shutdown>>

Add(c, new)    == ~Exists(c) /\ Propose(c, new)
Update(c, new) == Exists(c) /\ Propose(c, new)
Remove(c)      == Exists(c) /\ Propose(c, Absent)

\* ReplaceMCPConnections is one transaction.
Save ==
  /\ step = "saving"
  /\ stored' = draft
  /\ step' = "publishing"
  /\ UNCHANGED <<config, draft, edited, toolVars, start, starting, attached, errors,
                 queue, delivered, call, recheck, shutdown>>

\* Faulty variant: a failed save does not keep the request from going on.
SaveFailsPublishing ==
  /\ step = "saving"
  /\ step' = "publishing"
  /\ UNCHANGED <<adminVars, toolVars, start, starting, attached, errors,
                 queue, delivered, call, recheck, shutdown>>

SaveFails ==
  /\ step = "saving"
  /\ draft' = config
  /\ step' = "free"
  /\ UNCHANGED <<stored, config, edited, toolVars, start, starting, attached, errors,
                 queue, delivered, call, recheck, shutdown>>

PublishAdd ==
  LET c == edited
  IN /\ step = "publishing" /\ ~Exists(c)
     /\ config' = draft
     /\ IF draft[c].enabled
        THEN Schedule(c, start, starting) /\ errors' = errors \ {c}
        ELSE UNCHANGED <<start, starting, errors>>
     /\ step' = "announcing"
     /\ UNCHANGED <<stored, draft, edited, toolVars, attached,
                    queue, delivered, call, recheck, shutdown>>

PublishUpdate ==
  LET c == edited
      idle == [starting EXCEPT ![c] = 0]
  IN /\ step = "publishing" /\ Exists(c) /\ draft[c] # Absent
     /\ config' = draft
     /\ Detach(c)
     /\ errors' = errors \ {c}
     /\ IF draft[c].enabled
        THEN Schedule(c, DrainedStarts(c), idle)
        ELSE start' = DrainedStarts(c) /\ starting' = idle
     /\ Refresh(Live \ {attached[c]})
     /\ step' = "announcing"
     /\ UNCHANGED <<stored, draft, edited, queue, delivered, call, recheck, shutdown>>

PublishRemove ==
  LET c == edited
  IN /\ step = "publishing" /\ draft[c] = Absent
     /\ config' = draft
     /\ Detach(c)
     /\ start' = DrainedStarts(c)
     /\ starting' = [starting EXCEPT ![c] = 0]
     /\ errors' = errors \ {c}
     /\ Refresh(Live \ {attached[c]})
     /\ step' = "announcing"
     /\ UNCHANGED <<stored, draft, edited, queue, delivered, call, recheck, shutdown>>

-----------------------------------------------------------------------------
(* startAsync: connect without a lock, at most three times, then take both   *)
(* locks and look whether the start is still the one that is wanted.         *)

SetStage(t, stage) == start' = [start EXCEPT ![t].stage = stage]

\* The connection is made, or all attempts fail, or the context is cancelled.
Connect(t) ==
  /\ start[t].stage = "connecting"
  /\ SetStage(t, "connected") \/ SetStage(t, "failed")
  /\ UNCHANGED <<adminVars, step, toolVars, starting, attached, errors,
                 queue, delivered, call, recheck, shutdown>>

Arrives(t) == step = "free" /\ start[t].stage \in {"connected", "failed"}

\* A start that is not wanted closes its process, which nobody has seen.
DropProcess(t) == SetStage(t, IF start[t].stage = "connected" THEN "closed" ELSE "over")

\* Faulty variant: any start of a connection that is starting will do.
SupersededByNothing(t) == starting[start[t].conn] = 0

\* Another start of the connection was scheduled, or this one was cancelled.
Superseded(t) == starting[start[t].conn] # t

\* The configuration is not the one the start was scheduled with.
Obsolete(t) ==
  LET c == start[t].conn
  IN shutdown # "open" \/ ~Enabled(c) \/ config[c].conf # start[t].conf

StartSuperseded(t) ==
  /\ Arrives(t) /\ Superseded(t)
  /\ DropProcess(t)
  /\ UNCHANGED <<adminVars, step, toolVars, starting, attached, errors,
                 queue, delivered, call, recheck, shutdown>>

StartObsolete(t) ==
  /\ Arrives(t) /\ ~Superseded(t) /\ Obsolete(t)
  /\ starting' = [starting EXCEPT ![start[t].conn] = 0]
  /\ DropProcess(t)
  /\ UNCHANGED <<adminVars, step, toolVars, attached, errors,
                 queue, delivered, call, recheck, shutdown>>

StartFails(t) ==
  LET c == start[t].conn
  IN /\ Arrives(t) /\ ~Superseded(t) /\ ~Obsolete(t) /\ start[t].stage = "failed"
     /\ starting' = [starting EXCEPT ![c] = 0]
     /\ errors' = errors \cup {c}
     /\ SetStage(t, "over")
     /\ UNCHANGED <<adminVars, step, toolVars, attached, queue, delivered, call, recheck, shutdown>>

\* The process becomes visible, and its health check starts.
Attach(t) ==
  LET c == start[t].conn
  IN /\ Arrives(t) /\ ~Superseded(t) /\ ~Obsolete(t) /\ start[t].stage = "connected"
     /\ starting' = [starting EXCEPT ![c] = 0]
     /\ IF attached[c] # 0
        THEN DropProcess(t) /\ UNCHANGED <<step, toolVars, attached, errors>>
        ELSE /\ attached' = [attached EXCEPT ![c] = t]
             /\ start' = [start EXCEPT ![t].stage = "attached"]
             /\ errors' = errors \ {c}
             /\ Refresh(Live \cup {t})
             /\ step' = "announcing"
     /\ UNCHANGED <<adminVars, queue, delivered, call, recheck, shutdown>>

-----------------------------------------------------------------------------
(* The health check of a process, every 30 seconds.                          *)

SetHealth(t, health) == start' = [start EXCEPT ![t].health = health]

healthOnly == <<adminVars, step, toolVars, starting, attached, errors,
                queue, delivered, call, recheck, shutdown>>

\* A probe holds a lease: health "probing".
Probe(t) ==
  /\ start[t].health = "waiting" /\ start[t].stage = "attached"
  /\ SetHealth(t, "probing")
  /\ UNCHANGED healthOnly

ProbeEnds(t) ==
  /\ start[t].health = "probing"
  /\ SetHealth(t, "good") \/ SetHealth(t, "bad")
  /\ UNCHANGED healthOnly

\* Faulty variant: only the shutdown of the manager ends the health check.
ProbesStopWithManager(t) ==
  /\ start[t].health = "waiting" /\ shutdown # "open"
  /\ SetHealth(t, "over")
  /\ UNCHANGED healthOnly

\* The context of the process ends with its draining and with the manager.
ProbesStop(t) ==
  /\ start[t].health = "waiting"
  /\ start[t].stage # "attached" \/ shutdown # "open"
  /\ SetHealth(t, "over")
  /\ UNCHANGED healthOnly

\* Faulty variant: the result is applied to whatever process the connection has.
ProbedAnyProcess(t) == attached[start[t].conn] # 0 /\ shutdown = "open"

\* The process that was probed is still the one of its connection.
ProbedIsAttached(t) == attached[start[t].conn] = t /\ shutdown = "open"

ApplyHealth(t) ==
  LET c == start[t].conn
  IN /\ step = "free" /\ start[t].health \in {"good", "bad"}
     /\ IF ~ProbedIsAttached(t)
        THEN SetHealth(t, "over") /\ UNCHANGED <<step, toolVars, starting, attached, errors>>
        ELSE IF start[t].health = "good"
        THEN /\ SetHealth(t, "waiting")
             /\ errors' = errors \ {c}
             /\ UNCHANGED <<step, toolVars, starting, attached>>
        ELSE /\ Detach(c)
             /\ start' = [DrainedStarts(c) EXCEPT ![t].health = "over"]
             /\ starting' = [starting EXCEPT ![c] = 0]
             /\ errors' = errors \cup {c}
             /\ Refresh(Live \ {attached[c]})
             /\ step' = "announcing"
     /\ UNCHANGED <<adminVars, queue, delivered, call, recheck, shutdown>>

-----------------------------------------------------------------------------
(* Test: a temporary connection with a configuration of the caller's, whose  *)
(* outcome, known when mutationMu is free, is applied to the saved one.      *)

MayApplyTest(c) == step = "free" /\ shutdown = "open" /\ Exists(c)

TestPasses(c, f) ==
  /\ MayApplyTest(c) /\ config[c].conf = f /\ Len(start) < MaxStarts
  /\ UNCHANGED config
  /\ errors' = errors \ {c}
  /\ IF config[c].enabled /\ attached[c] = 0 /\ starting[c] = 0
     THEN Schedule(c, start, starting)
     ELSE UNCHANGED <<start, starting>>
  /\ UNCHANGED <<stored, draft, edited, step, toolVars, attached,
                 queue, delivered, call, recheck, shutdown>>

\* Without a process the failure is recorded, whatever configuration was tested.
TestFailsIdle(c, f) ==
  /\ MayApplyTest(c) /\ attached[c] = 0
  /\ starting' = [starting EXCEPT ![c] = 0]
  /\ errors' = errors \cup {c}
  /\ UNCHANGED <<adminVars, step, toolVars, start, attached,
                 queue, delivered, call, recheck, shutdown>>

TestFailsRunning(c, f) ==
  /\ MayApplyTest(c) /\ attached[c] # 0 /\ start[attached[c]].conf = f
  /\ Fail(c)
  /\ UNCHANGED <<adminVars, queue, delivered, call, recheck, shutdown>>

\* Another configuration failed: verify the running process under a lease.
TestFailsOther(c, f) ==
  /\ MayApplyTest(c) /\ attached[c] # 0 /\ start[attached[c]].conf # f
  /\ recheck = NoRecheck
  /\ recheck' = [proc |-> attached[c], failed |-> FALSE]
  /\ UNCHANGED <<adminVars, step, toolVars, start, starting, attached, errors,
                 queue, delivered, call, shutdown>>

RecheckEnds ==
  /\ recheck.proc # 0 /\ ~recheck.failed
  /\ recheck' = NoRecheck \/ recheck' = [recheck EXCEPT !.failed = TRUE]
  /\ UNCHANGED <<adminVars, step, toolVars, start, starting, attached, errors,
                 queue, delivered, call, shutdown>>

ApplyRecheck ==
  LET t == recheck.proc
      c == start[t].conn
  IN /\ recheck.failed /\ step = "free"
     /\ recheck' = NoRecheck
     /\ IF shutdown = "open" /\ attached[c] = t
        THEN Fail(c)
        ELSE UNCHANGED <<step, toolVars, start, starting, attached, errors>>
     /\ UNCHANGED <<adminVars, queue, delivered, call, shutdown>>

-----------------------------------------------------------------------------
(* Callers and the end of processes.                                         *)

\* Faulty variant: a lease of a process that drains is still given.
AcquirableAnyway(t) == start[t].stage \in {"attached", "draining", "closing", "closed"}

\* acquire: a caller may hold the tool since long ago, but a process that
\* drains gives no lease.
Acquirable(t) == start[t].stage = "attached"

Call(k, t) ==
  /\ call[k] = 0 /\ Acquirable(t)
  /\ call' = [call EXCEPT ![k] = t]
  /\ UNCHANGED <<adminVars, step, toolVars, start, starting, attached, errors,
                 queue, delivered, recheck, shutdown>>

EndCall(k) ==
  /\ call[k] # 0
  /\ call' = [call EXCEPT ![k] = 0]
  /\ UNCHANGED <<adminVars, step, toolVars, start, starting, attached, errors,
                 queue, delivered, recheck, shutdown>>

\* The workers and the leases that close waits for.
Unused(t) == start[t].health \in {"none", "over"} /\ ~Leased(t)

Close(t) ==
  /\ start[t].stage = "closing" /\ Unused(t)
  /\ SetStage(t, "closed")
  /\ UNCHANGED <<adminVars, step, toolVars, starting, attached, errors,
                 queue, delivered, call, recheck, shutdown>>

-----------------------------------------------------------------------------
(* Shutdown and closeResources.                                              *)

shutdownOnly == <<adminVars, step, errors, change, delivered, call, recheck, queue>>

Shutdown ==
  /\ shutdown = "open"
  /\ shutdown' = "closed"
  /\ UNCHANGED <<shutdownOnly, visible, start, starting, attached>>

\* Under mutationMu: cancel the starts, detach the processes, drop the tools
\* without a snapshot, and close the queue.
StopAll ==
  /\ shutdown = "closed" /\ step = "free"
  /\ shutdown' = "stopped"
  /\ starting' = [c \in Conn |-> 0]
  /\ attached' = [c \in Conn |-> 0]
  /\ start' = [t \in Token |->
       IF t \in Live THEN [start[t] EXCEPT !.stage = "draining"] ELSE start[t]]
  /\ visible' = {}
  /\ UNCHANGED shutdownOnly

DispatcherEnds ==
  /\ shutdown = "stopped" /\ queue = <<>>
  /\ shutdown' = "notified"
  /\ UNCHANGED <<shutdownOnly, visible, start, starting, attached>>

\* Manager.workers counts the goroutines of startAsync.
StartsOver == \A t \in Token : start[t].stage \notin {"connecting", "connected", "failed"}

StartsEnd ==
  /\ shutdown = "notified" /\ StartsOver
  /\ shutdown' = "closing"
  /\ start' = [t \in Token |->
       IF start[t].stage = "draining" THEN [start[t] EXCEPT !.stage = "closing"] ELSE start[t]]
  /\ UNCHANGED <<shutdownOnly, visible, starting, attached>>

ShutdownEnds ==
  /\ shutdown = "closing" /\ \A t \in Token : start[t].stage # "closing"
  /\ shutdown' = "done"
  /\ UNCHANGED <<shutdownOnly, visible, start, starting, attached>>

-----------------------------------------------------------------------------
\* The manager of a server that starts: any configuration may be in the store,
\* and the enabled connections of it are scheduled.
Init ==
  /\ stored \in [Conn -> Saved \cup {Absent}]
  /\ config = stored /\ draft = stored /\ edited \in Conn
  /\ step = "free" /\ change = NoChange
  /\ \E order \in [Conn -> 0..MaxStarts] :
       LET on == {c \in Conn : Enabled(c)}
       IN /\ \A c \in Conn : order[c] = 0 <=> c \notin on
          /\ \A c, d \in on : order[c] = order[d] => c = d
          /\ \E n \in 0..MaxStarts :
               /\ {order[c] : c \in on} = 1..n
               /\ start = [t \in 1..n |->
                    LET c == CHOOSE c \in on : order[c] = t IN NewStart(c, config[c].conf)]
          /\ starting = order
  /\ attached = [c \in Conn |-> 0]
  /\ errors = {} /\ visible = {} /\ queue = <<>> /\ delivered = {}
  /\ call = [k \in Caller |-> 0] /\ recheck = NoRecheck
  /\ shutdown = "open"

StartStep(t) ==
  Connect(t) \/ StartSuperseded(t) \/ StartObsolete(t) \/ StartFails(t) \/ Attach(t)

HealthStep(t) == Probe(t) \/ ProbeEnds(t) \/ ProbesStop(t) \/ ApplyHealth(t)

ShutdownStep == StopAll \/ DispatcherEnds \/ StartsEnd \/ ShutdownEnds

Request(c) ==
  \/ \E new \in Saved : Add(c, new) \/ Update(c, new)
  \/ Remove(c)
  \/ \E f \in Conf : TestPasses(c, f) \/ TestFailsIdle(c, f)
                       \/ TestFailsRunning(c, f) \/ TestFailsOther(c, f)

SaveStep    == Save \/ SaveFails
PublishStep == PublishAdd \/ PublishUpdate \/ PublishRemove

Next ==
  \/ \E c \in Conn : Request(c)
  \/ SaveStep \/ PublishStep \/ Announce \/ Deliver
  \/ \E t \in Token : StartStep(t) \/ HealthStep(t) \/ Close(t) \/ (\E k \in Caller : Call(k, t))
  \/ \E k \in Caller : EndCall(k)
  \/ RecheckEnds \/ ApplyRecheck
  \/ Shutdown \/ ShutdownStep

Spec == Init /\ [][Next]_vars

\* The goroutines of the manager run on; who waits for mutationMu gets it in
\* the end (sync.Mutex is fair to waiters); connection attempts, probes and
\* saves have timeouts, and calls end with the context of their run.  Requests
\* and the shutdown need not come.
FairSpec ==
  /\ Spec
  /\ WF_vars(SaveStep) /\ WF_vars(PublishStep) /\ WF_vars(Announce) /\ WF_vars(Deliver)
  /\ \A t \in 1..MaxStarts :
       /\ SF_vars(t \in Token /\ StartStep(t))
       /\ WF_vars(t \in Token /\ (ProbeEnds(t) \/ ProbesStop(t)))
       /\ SF_vars(t \in Token /\ ApplyHealth(t))
       /\ WF_vars(t \in Token /\ Close(t))
  /\ \A k \in Caller : WF_vars(EndCall(k))
  /\ WF_vars(RecheckEnds) /\ SF_vars(ApplyRecheck)
  /\ SF_vars(ShutdownStep)

-----------------------------------------------------------------------------
(* Properties. *)

\* A process that is attached runs the saved configuration of a connection that
\* is enabled, at every moment the lock is free: no start that was overtaken by
\* an update, a removal, a failed test or another start ever gets through.
RunsWhatIsSaved ==
  \A c \in Conn : attached[c] # 0 =>
    LET s == start[attached[c]]
    IN s.conn = c /\ s.stage = "attached" /\ Enabled(c) /\ config[c].conf = s.conf

\* The status the panel shows is about the present: an enabled connection that
\* neither runs nor starts has an error to show, and none that runs or starts
\* still has an old one.
StatusExact ==
  \A c \in Conn :
    /\ starting[c] # 0 => attached[c] = 0
    /\ c \in errors => Exists(c) /\ attached[c] = 0 /\ starting[c] = 0
    /\ shutdown = "open" /\ Enabled(c) /\ attached[c] = 0 /\ starting[c] = 0 => c \in errors

\* What runs or starts is the last start that was scheduled for its connection.
NewestStart ==
  \A c \in Conn : \A t \in Token :
    start[t].conn = c => /\ attached[c] # 0 => t <= attached[c]
                         /\ starting[c] # 0 => t <= starting[c]

\* Of all starts a connection has seen only the newest, of what is saved, counts.
RunsTheNewest == RunsWhatIsSaved /\ NewestStart

\* What runs and what is shown of each connection is up to date
\* (applyStartResult, UpdateConnection, TestConnection).
ConnectionsCurrent == RunsTheNewest /\ StatusExact

\* The visible tools are those of the attached processes, of these very
\* processes and not of earlier ones that compare equal; and no process is
\* attached or still open without the manager knowing it.
VisibleTools ==
  /\ visible = {t \in Token : \E c \in Conn : attached[c] = t}
  /\ Live = visible

\* onChange never misses a change and never sees an old list last: the newest
\* snapshot on its way to it is the list that is visible.
NewestSnapshot ==
  shutdown \in {"open", "closed"} =>
    visible = IF change # NoChange THEN change
              ELSE IF queue # <<>> THEN queue[Len(queue)] ELSE delivered

\* Callers see the tools of what runs, and onChange is told so in the end.
ToolsCurrent == TypeOK /\ VisibleTools /\ NewestSnapshot

\* The transport of a process is open as long as a caller, a health probe or a
\* test uses it.
NoUseAfterClose ==
  \A t \in Token : start[t].stage = "closed" => ~Leased(t) /\ start[t].health # "probing"

\* When a shutdown has ended, nothing that the manager started is left.
NothingLeft ==
  shutdown = "done" => \A t \in Token : start[t].stage \in {"closed", "over"}

\* A process is closed neither under its users nor after its manager.
ClosedInTime == NoUseAfterClose /\ NothingLeft

\* What a restart finds is what requests were told: only the request that is
\* between its save and its publication is ahead of the configuration in use.
StoreAgrees == stored = IF step = "publishing" THEN draft ELSE config

\* A process that runs is stopped by a change of its connection, by the shutdown
\* or by a failure that was found with this process or its configuration: a late
\* result about an earlier process never stops it.
InnocentRunOn ==
  [][\A t \in Token :
       start[t].stage = "attached" /\ start'[t].stage = "draining" =>
         \/ step = "publishing" /\ edited = start[t].conn
         \/ shutdown = "closed"
         \/ start[t].health = "bad"
         \/ recheck = [proc |-> t, failed |-> TRUE]
         \/ TestFailsRunning(start[t].conn, start[t].conf)]_vars

\* Every start comes to an end.
StartsSettle ==
  \A t \in 1..MaxStarts :
    (t \in Token /\ start[t].stage = "connecting")
      ~> (t \in Token /\ start[t].stage \notin {"connecting", "connected", "failed"})

\* Every process that drains is closed: close never waits for a lease that
\* cannot end, a worker of its own or the lock its caller holds.
DrainsEnd ==
  \A t \in 1..MaxStarts :
    (t \in Token /\ start[t].stage = "draining") ~> (t \in Token /\ start[t].stage = "closed")

\* Nothing stays half started or half stopped.
ProcessesSettle == StartsSettle /\ DrainsEnd

\* A shutdown ends.
ShutdownCompletes == (shutdown = "closed") ~> (shutdown = "done")

\* Neither a process nor the manager is left half way (drainProcess, CloseAll).
EverythingSettles == ProcessesSettle /\ ShutdownCompletes

\* README_EN.md:128 promises an "automatic restart after failures": a connection
\* whose running process was found failing starts again by itself.
FailedConnectionsRestart ==
  \A c \in Conn :
    (/\ Enabled(c) /\ c \in errors
     /\ \E t \in Token : start[t].conn = c /\ start[t].stage = "draining" /\ start[t].health = "over")
      ~> (~Enabled(c) \/ starting[c] # 0 \/ attached[c] # 0 \/ step = "saving" \/ shutdown # "open")
==============================================================================
