------------------------------ MODULE RunManager ------------------------------
(***************************************************************************)
(* Admission, execution and shutdown of agent runs: runManager             *)
(* (internal/api/run_manager.go), the POST /api/runs handler that drives   *)
(* it (internal/api/run_handlers.go) and the session leases of the agent   *)
(* runtime (internal/agent/runtime/runtime.go).                            *)
(*                                                                         *)
(* One request is one HTTP POST and the goroutine it starts.  A request    *)
(* names the session it continues; a request that names no session gets a  *)
(* fresh id, and that id is the request itself.  The events of a run and   *)
(* their subscribers are the subject of RunStream; here a run only is      *)
(* done or not.                                                            *)
(*                                                                         *)
(* Every action is one critical section of runManager.mu, run.mu or        *)
(* runtime.mu, or one unlocked call, so that everything the program can    *)
(* interleave is interleaved.                                              *)
(***************************************************************************)
EXTENDS Integers, FiniteSets

CONSTANTS Request,        \* POST /api/runs requests
          Editor,         \* PATCH, DELETE and branch requests on sessions
          Session,        \* the sessions stored when the server starts
          MaxActiveRuns,  \* config.RunLimits.MaxActiveRuns
          Nobody          \* no lease holder

ASSUME LimitAssumption == MaxActiveRuns \in Nat \ {0}
ASSUME IdentityAssumption ==
  /\ IsFiniteSet(Request)
  /\ Request \cap Session = {}
  /\ Request \cap Editor = {}
  /\ Nobody \notin Request \cup Editor \cup Session

Key == Session \cup Request      \* session ids, the fresh ones included

VARIABLES
  quiescing,  \* runManager.quiescing; the lifecycle context is cancelled with it
  active,     \* runManager.active
  workers,    \* the counter of runManager.workers; Done below zero panics
  runs,       \* the domain of runManager.runs; a run has its request's name
  closer,     \* where the caller of close() stands
  asked,      \* the session each request names, itself for a fresh one
  stage,      \* where each request's handler, later its goroutine, stands
  reserved,   \* the requests whose runReservation.reserved is true
  cancelled,  \* the runs whose context is cancelled
  done,       \* runState.done
  expiry,     \* the expireAfterTTL goroutine of each run
  lease,      \* Runtime.leases: the holder of each session
  stored,     \* the sessions the repository has
  orphaned,   \* the fresh sessions whose DiscardSession failed and was logged
  editing     \* the session each editor works on

managerVars == <<quiescing, active, workers, runs, closer>>
runVars     == <<stage, reserved, cancelled, done, expiry>>
sessionVars == <<lease, stored, orphaned, editing>>
vars == <<managerVars, asked, runVars, sessionVars>>

-----------------------------------------------------------------------------
(* Stages of a request, in the order the code passes them. *)

SetupStages  == {"reserved", "leased", "resolved", "prepared", "validated"}
UnwindStages == {"discarding", "unleasing", "unreserving"}
RunStages    == {"running", "failing", "terminal", "finishing"}
Stages == {"new"} \cup SetupStages \cup UnwindStages \cup RunStages
            \cup {"releasing", "ended", "refused"}

LeaseStages == (SetupStages \ {"reserved"}) \cup RunStages
                 \cup {"discarding", "unleasing", "releasing"}

ExpiryStates == {"none", "waiting", "leaving", "gone"}

\* The requests that own one unit of runManager.active.
Holders == {r \in Request : r \in reserved \/ stage[r] \in RunStages}

\* The expiry goroutines that own one unit of runManager.workers.
Expirers == {r \in Request : expiry[r] \in {"waiting", "leaving"}}

Fresh(r) == asked[r] = r

TypeOK ==
  /\ quiescing \in BOOLEAN
  /\ active \in Nat
  /\ workers \in Nat
  /\ runs \subseteq Request
  /\ closer \in {"open", "waiting", "drained", "closed", "expired"}
  /\ asked \in [Request -> Key]
  /\ stage \in [Request -> Stages]
  /\ reserved \subseteq Request
  /\ cancelled \subseteq Request
  /\ done \subseteq Request
  /\ expiry \in [Request -> ExpiryStates]
  /\ lease \in [Key -> Request \cup Editor \cup {Nobody}]
  /\ stored \subseteq Key
  /\ orphaned \subseteq Request
  /\ editing \in [Editor -> Key \cup {Nobody}]

Init ==
  /\ quiescing = FALSE
  /\ active = 0
  /\ workers = 0
  /\ runs = {}
  /\ closer = "open"
  /\ asked \in [Request -> Key]
  /\ stage = [r \in Request |-> "new"]
  /\ reserved = {}
  /\ cancelled = {}
  /\ done = {}
  /\ expiry = [r \in Request |-> "none"]
  /\ lease = [k \in Key |-> Nobody]
  /\ stored = Session
  /\ orphaned = {}
  /\ editing = [e \in Editor |-> Nobody]

Goto(r, from, to) ==
  /\ stage[r] = from
  /\ stage' = [stage EXCEPT ![r] = to]

\* releaseActiveLocked, which clamps the counter at zero, and workers.Done.
ReleasedActive == IF active > 0 THEN active - 1 ELSE active

\* Faulty variant: the worker is never given back.
GiveBackActiveOnly == active' = ReleasedActive /\ UNCHANGED workers

GiveBack == active' = ReleasedActive /\ workers' = workers - 1

-----------------------------------------------------------------------------
(* The handler: reserve, lease, resolve, prepare, validate, activate. *)

\* Faulty variant: one reservation too many.
MayReserveOneMore == ~quiescing /\ active <= MaxActiveRuns

\* reserve() on its successful path and on its two refusals.
MayReserve == ~quiescing /\ active < MaxActiveRuns

Reserve(r) ==
  /\ MayReserve
  /\ Goto(r, "new", "reserved")
  /\ active' = active + 1
  /\ workers' = workers + 1
  /\ reserved' = reserved \cup {r}
  /\ UNCHANGED <<quiescing, runs, closer, asked, cancelled, done, expiry, sessionVars>>

RefuseReserve(r) ==
  /\ ~MayReserve
  /\ Goto(r, "new", "refused")
  /\ UNCHANGED <<managerVars, asked, reserved, cancelled, done, expiry, sessionVars>>

\* AcquireSession of the session id the run will write to.
LeaseFree(k) == lease[k] = Nobody

Acquire(r) ==
  /\ LeaseFree(asked[r])
  /\ Goto(r, "reserved", "leased")
  /\ lease' = [lease EXCEPT ![asked[r]] = r]
  /\ UNCHANGED <<managerVars, asked, reserved, cancelled, done, expiry, stored, orphaned, editing>>

RefuseBusy(r) ==
  /\ ~LeaseFree(asked[r])
  /\ Goto(r, "reserved", "unreserving")
  /\ UNCHANGED <<managerVars, asked, reserved, cancelled, done, expiry, sessionVars>>

\* resolveRunProjectID: a named session must exist; a project conflict or a
\* read error refuses the request as well.
Resolve(r) ==
  /\ \/ /\ Fresh(r) \/ asked[r] \in stored
        /\ Goto(r, "leased", "resolved")
     \/ /\ ~Fresh(r)
        /\ Goto(r, "leased", "unleasing")
  /\ UNCHANGED <<managerVars, asked, reserved, cancelled, done, expiry, sessionVars>>

\* newRunAgentHarness: resumes the named session or creates the fresh one.
\* When it fails no session has been created.
Prepare(r) ==
  /\ \/ /\ Goto(r, "resolved", "prepared")
        /\ Fresh(r) \/ asked[r] \in stored
        /\ stored' = stored \cup {asked[r]}
     \/ /\ Goto(r, "resolved", "unleasing")
        /\ UNCHANGED stored
  /\ UNCHANGED <<managerVars, asked, reserved, cancelled, done, expiry, lease, orphaned, editing>>

\* Faulty variant: a session created before validation fails is kept.
AfterPreparedKeeping(r) == IF stage[r] = "prepared" THEN "unleasing" ELSE "discarding"

\* Where a request goes that fails once its harness exists.
AfterPrepared(r) == IF Fresh(r) THEN "discarding" ELSE "unleasing"

\* ValidateProviderContext and the test of setupCtx, which the lifecycle and
\* the client's disconnection both cancel.
Validate(r) ==
  /\ \/ /\ ~quiescing
        /\ Goto(r, "prepared", "validated")
     \/ Goto(r, "prepared", AfterPrepared(r))
  /\ UNCHANGED <<managerVars, asked, reserved, cancelled, done, expiry, sessionVars>>

\* activate(): the reservation is used up on both paths.  Its unit of active
\* and of workers passes to the run, or is given back when the manager
\* quiesces.
MayActivate == ~quiescing

Activate(r) ==
  /\ stage[r] = "validated"
  /\ reserved' = reserved \ {r}
  /\ \/ /\ MayActivate
        /\ Goto(r, "validated", "running")
        /\ runs' = runs \cup {r}
        /\ UNCHANGED <<active, workers>>
     \/ /\ ~MayActivate
        /\ Goto(r, "validated", AfterPrepared(r))
        /\ GiveBack
        /\ UNCHANGED runs
  /\ UNCHANGED <<quiescing, closer, asked, cancelled, done, expiry, sessionVars>>

-----------------------------------------------------------------------------
(* The deferred calls of a handler that did not activate, last one first. *)

\* DiscardSession of a session this request created; a storage error leaves
\* the session where it is and is only logged.
Discard(r) ==
  /\ Goto(r, "discarding", "unleasing")
  /\ \/ stored' = stored \ {r} /\ UNCHANGED orphaned
     \/ orphaned' = orphaned \cup {r} /\ UNCHANGED stored
  /\ UNCHANGED <<managerVars, asked, reserved, cancelled, done, expiry, lease, editing>>

\* SessionLease.Release: only the holder's own entry is deleted.
Released(holder, k) ==
  IF lease[k] = holder THEN [lease EXCEPT ![k] = Nobody] ELSE lease

ReleaseLease(r) ==
  /\ \/ Goto(r, "unleasing", "unreserving")
     \/ Goto(r, "releasing", "ended")
  /\ lease' = Released(r, asked[r])
  /\ UNCHANGED <<managerVars, asked, reserved, cancelled, done, expiry, stored, orphaned, editing>>

\* runReservation.release: does nothing when activate() has used it up.
ReleaseReservation(r) ==
  /\ Goto(r, "unreserving", "refused")
  /\ reserved' = reserved \ {r}
  /\ IF r \in reserved
     THEN GiveBack
     ELSE UNCHANGED <<active, workers>>
  /\ UNCHANGED <<quiescing, runs, closer, asked, cancelled, done, expiry, sessionVars>>

-----------------------------------------------------------------------------
(* The run: events, cancellation, terminal event, end of execution. *)

\* publishTerminal: the first terminal event wins; it cancels the context.
PublishTerminal(r) ==
  /\ done' = done \cup {r}
  /\ cancelled' = cancelled \cup {r}

\* An event that cannot be encoded fails the run while PromptText goes on:
\* runState.fail aborts and publishes run_error from inside the listener.
FailEncoding(r) ==
  /\ r \notin done
  /\ Goto(r, "running", "failing")
  /\ PublishTerminal(r)
  /\ UNCHANGED <<managerVars, asked, reserved, expiry, sessionVars>>

\* PromptText returns and the goroutine publishes run_done or run_error,
\* which is dropped when the run failed before.
Return(r) ==
  /\ IF r \in done
     THEN Goto(r, "running", "finishing") /\ UNCHANGED <<done, cancelled>>
     ELSE Goto(r, "running", "terminal") /\ PublishTerminal(r)
  /\ UNCHANGED <<managerVars, asked, reserved, expiry, sessionVars>>

\* complete(), called by publishTerminal after it has left run.mu.
SchedulesExpiry == ~quiescing

Complete(r) ==
  /\ \/ Goto(r, "failing", "running")
     \/ Goto(r, "terminal", "finishing")
  /\ IF SchedulesExpiry
     THEN /\ workers' = workers + 1
          /\ expiry' = [expiry EXCEPT ![r] = "waiting"]
     ELSE UNCHANGED <<workers, expiry>>
  /\ UNCHANGED <<quiescing, active, runs, closer, asked, reserved, cancelled, done, sessionVars>>

\* finishExecution: the run's unit of active and of workers is given back.
FinishExecution(r) ==
  /\ Goto(r, "finishing", "releasing")
  /\ GiveBack
  /\ UNCHANGED <<quiescing, runs, closer, asked, reserved, cancelled, done, expiry, sessionVars>>

\* POST /api/runs/{id}/abort, and the 120 s timeout of the run's context.
Abort(r) ==
  /\ r \in runs \ done
  /\ r \notin cancelled
  /\ cancelled' = cancelled \cup {r}
  /\ UNCHANGED <<managerVars, asked, stage, reserved, done, expiry, sessionVars>>

Timeout(r) ==
  /\ stage[r] \in RunStages
  /\ r \notin cancelled
  /\ cancelled' = cancelled \cup {r}
  /\ UNCHANGED <<managerVars, asked, stage, reserved, done, expiry, sessionVars>>

-----------------------------------------------------------------------------
(* expireAfterTTL: the timer deletes the run, the lifecycle only ends the   *)
(* wait; with both ready the select takes either.                           *)

ExpireByTimer(r) ==
  /\ expiry[r] = "waiting"
  /\ expiry' = [expiry EXCEPT ![r] = "leaving"]
  /\ runs' = runs \ {r}
  /\ UNCHANGED <<quiescing, active, workers, closer, asked, stage, reserved, cancelled, done, sessionVars>>

ExpireByLifecycle(r) ==
  /\ expiry[r] = "waiting"
  /\ quiescing
  /\ expiry' = [expiry EXCEPT ![r] = "leaving"]
  /\ UNCHANGED <<managerVars, asked, stage, reserved, cancelled, done, sessionVars>>

LeaveExpiry(r) ==
  /\ expiry[r] = "leaving"
  /\ expiry' = [expiry EXCEPT ![r] = "gone"]
  /\ workers' = workers - 1
  /\ UNCHANGED <<quiescing, active, runs, closer, asked, stage, reserved, cancelled, done, sessionVars>>

-----------------------------------------------------------------------------
(* quiesce() and close(). *)

\* Faulty variant: quiesce() cancels no context.
CancelNone == UNCHANGED cancelled

\* One critical section; every run context derives from the lifecycle.
CancelAll == cancelled' = cancelled \cup {r \in Request : stage[r] \in RunStages}

Quiesce ==
  /\ ~quiescing
  /\ quiescing' = TRUE
  /\ CancelAll
  /\ UNCHANGED <<active, workers, runs, closer, asked, stage, reserved, done, expiry, sessionVars>>

\* close() after its quiesce(): wait for the workers, then drop the runs.  A
\* close whose context ends returns an error and may be called again.
StartClose ==
  /\ closer \in {"open", "expired"}
  /\ quiescing
  /\ closer' = "waiting"
  /\ UNCHANGED <<quiescing, active, workers, runs, asked, runVars, sessionVars>>

\* Faulty variant: close() waits for executions only.
NoRunsActive == active = 0

WorkersDone == workers = 0

WaitReturns ==
  /\ closer = "waiting"
  /\ WorkersDone
  /\ closer' = "drained"
  /\ UNCHANGED <<quiescing, active, workers, runs, asked, runVars, sessionVars>>

\* Faulty variant: a close that ran out of time drops the runs as well.
ClearRunsAnyway ==
  /\ closer \in {"drained", "expired"}
  /\ closer' = "closed"
  /\ runs' = {}
  /\ UNCHANGED <<quiescing, active, workers, asked, runVars, sessionVars>>

ClearRuns ==
  /\ closer = "drained"
  /\ closer' = "closed"
  /\ runs' = {}
  /\ UNCHANGED <<quiescing, active, workers, asked, runVars, sessionVars>>

CloseDeadline ==
  /\ closer = "waiting"
  /\ closer' = "expired"
  /\ UNCHANGED <<quiescing, active, workers, runs, asked, runVars, sessionVars>>

-----------------------------------------------------------------------------
(* The other writers of a session: rename, branch and delete take the same  *)
(* lease and give it back when the handler returns.                         *)

BeginEdit(e, k) ==
  /\ editing[e] = Nobody
  /\ LeaseFree(k)
  /\ lease' = [lease EXCEPT ![k] = e]
  /\ editing' = [editing EXCEPT ![e] = k]
  /\ UNCHANGED <<managerVars, asked, runVars, stored, orphaned>>

\* Faulty variant: DELETE does not take the lease.
DeleteSessionUnleased(e) ==
  /\ \E k \in stored : stored' = stored \ {k}
  /\ UNCHANGED <<managerVars, asked, runVars, lease, orphaned, editing>>

DeleteSession(e) ==
  /\ editing[e] \in stored
  /\ stored' = stored \ {editing[e]}
  /\ UNCHANGED <<managerVars, asked, runVars, lease, orphaned, editing>>

EndEdit(e) ==
  /\ editing[e] # Nobody
  /\ lease' = Released(e, editing[e])
  /\ editing' = [editing EXCEPT ![e] = Nobody]
  /\ UNCHANGED <<managerVars, asked, runVars, stored, orphaned>>

-----------------------------------------------------------------------------
Handler(r) ==
  \/ Reserve(r) \/ RefuseReserve(r) \/ Acquire(r) \/ RefuseBusy(r)
  \/ Resolve(r) \/ Prepare(r) \/ Validate(r) \/ Activate(r)
  \/ Discard(r) \/ ReleaseLease(r) \/ ReleaseReservation(r)

Run(r) ==
  \/ FailEncoding(r) \/ Return(r) \/ Complete(r) \/ FinishExecution(r)
  \/ Abort(r) \/ Timeout(r)

Expiry(r) == ExpireByTimer(r) \/ ExpireByLifecycle(r) \/ LeaveExpiry(r)

Close == Quiesce \/ StartClose \/ WaitReturns \/ ClearRuns \/ CloseDeadline

Edit(e) == DeleteSession(e) \/ EndEdit(e) \/ \E k \in Key : BeginEdit(e, k)

Next ==
  \/ \E r \in Request : Handler(r) \/ Run(r) \/ Expiry(r)
  \/ Close
  \/ \E e \in Editor : Edit(e)

\* The goroutines of the server run: a request that has been reserved is
\* carried on, PromptText returns once its context is cancelled, a handler
\* returns.  Nobody has to send a request, abort a run, shut the server down
\* or give up waiting.
ServerStep(r) ==
  \/ Acquire(r) \/ RefuseBusy(r) \/ Resolve(r) \/ Prepare(r) \/ Validate(r)
  \/ Activate(r) \/ Discard(r) \/ ReleaseLease(r) \/ ReleaseReservation(r)
  \/ (r \in cancelled /\ Return(r)) \/ Complete(r) \/ FinishExecution(r)

Spec == Init /\ [][Next]_vars

\* When neither the run timeout nor the retention timer ever fires: what must
\* end promptly may not wait for them.
PromptSpec ==
  /\ Spec
  /\ \A r \in Request : /\ WF_vars(ServerStep(r))
                        /\ WF_vars(ExpireByLifecycle(r))
                        /\ WF_vars(LeaveExpiry(r))
  /\ \A e \in Editor : WF_vars(EndEdit(e))

\* What the properties of a long-running server assume as well.
TimersFire ==
  \A r \in Request : WF_vars(Timeout(r)) /\ WF_vars(ExpireByTimer(r))

-----------------------------------------------------------------------------
(* Properties. *)

\* The two counters the manager keeps are exactly the requests that own a
\* place: active counts reservations and executions, workers counts those and
\* the expiry goroutines.  A path that releases twice or never breaks it, and
\* the clamp of releaseActiveLocked never hides such a path.
CountersMatch ==
  /\ active = Cardinality(Holders)
  /\ workers = Cardinality(Holders) + Cardinality(Expirers)

\* The types, and with them that the WaitGroup workers never goes below zero, and the counters.
Accounting == TypeOK /\ CountersMatch

\* At most one run or editor works on a session from the moment its lease is
\* taken until its last deferred call has released it, although the lease is
\* taken and released without runManager.mu.
WritersExclude ==
  /\ \A r1, r2 \in Request :
       /\ asked[r1] = asked[r2]
       /\ stage[r1] \in LeaseStages /\ stage[r2] \in LeaseStages
       => r1 = r2
  /\ \A r \in Request, e \in Editor :
       stage[r] \in LeaseStages => editing[e] # asked[r]

\* A session is not deleted, by a DELETE request or by the DiscardSession of
\* the request that created it, while a run that resumed it is executing.
NoDeleteUnderRun ==
  \A r \in Request :
    stage[r] \in {"prepared", "validated"} \cup RunStages => asked[r] \in stored

\* The sessions behind the runs are guarded by the leases of the runtime: one
\* writer at a time, and no deletion under it.
SessionsGuarded == WritersExclude /\ NoDeleteUnderRun

\* close() reports success only after every execution, reservation and expiry
\* goroutine has ended (the store is closed right after it).
CloseWaits == closer \in {"drained", "closed"} => Holders = {} /\ Expirers = {}

\* A run that is still executing and has not published its terminal event can
\* be found by its id, so abort and subscribe reach it, also while a close
\* that ran out of time leaves the manager behind.
LiveRunReachable ==
  \A r \in Request : stage[r] \in RunStages /\ r \notin done => r \in runs

\* A request that created a session and was then refused leaves no session
\* behind, unless deleting it failed and was logged.
NoOrphanSession ==
  \A r \in Request :
    stage[r] = "refused" /\ Fresh(r) /\ r \in stored => r \in orphaned

\* quiesce() and close() are final: close() reports success only when nothing
\* runs, and once the manager quiesces and its workers have reached zero the
\* WaitGroup is never used again (Add from zero would race with the Wait of
\* close()).
CloseIsFinal ==
  [][CloseWaits' /\ (quiescing /\ workers = 0 => workers' = 0)]_vars

\* The manager implements the abstract gate: requests that hold a place are
\* inside, quiescing shuts it.
Gate == INSTANCE AdmissionGate
          WITH Capacity <- MaxActiveRuns, inside <- Holders, shut <- quiescing

GateSpec == Gate!Spec

\* A place that was taken is given back, whatever path the request takes and
\* even if nobody aborts it.
SlotsReturn ==
  TimersFire => \A r \in Request : r \in Holders ~> r \notin Holders

\* A session lease is given back, so no session stays busy for ever.
LeasesReturn ==
  TimersFire => \A k \in Key : lease[k] # Nobody ~> lease[k] = Nobody

\* A completed run is forgotten after its retention time unless the server is
\* shutting down, whichever of its two terminal paths completed it.
CompletedRunsExpire ==
  TimersFire => \A r \in Request : r \in done ~> (r \notin runs \/ quiescing)

\* With the timers of the program whatever a request takes comes back: its
\* place, its lease and its entry in the table of runs.
EverythingReturns == SlotsReturn /\ LeasesReturn /\ CompletedRunsExpire

\* After quiesce every worker ends without waiting for any timer, so close()
\* is not held up by the retention time or the run timeout.
CloseDrains == quiescing ~> workers = 0

\* A run that was aborted or has failed gives its place back without waiting
\* for any timer.
AbortedRunsEnd ==
  \A r \in Request : r \in cancelled \cup done ~> r \notin Holders

\* What must end at once, on shutdown and on abort, waits for no timer.
EndsPromptly == CloseDrains /\ AbortedRunsEnd

\* Nothing that was taken is kept: with the timers at the latest, and without
\* any of them after a quiesce or an abort (finishExecution, expireAfterTTL).
EverythingEnds == EverythingReturns /\ EndsPromptly
==============================================================================
