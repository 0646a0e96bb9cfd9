-------------------------- MODULE RunManager_proofs --------------------------
(***************************************************************************)
(* Proofs about RunManager for every set of requests, editors and sessions *)
(* and every capacity.  The inductive invariant adds to the properties     *)
(* which stages hold a reservation, when an expiry goroutine can exist and *)
(* who stands behind every lease.                                          *)
(***************************************************************************)
EXTENDS RunManager, FiniteSetTheorems, TLAPS

\* A reservation is held exactly in the stages before activation, and at most
\* there while the handler unwinds.
ReservedWhere ==
  \A r \in Request :
    /\ stage[r] \in SetupStages => r \in reserved
    /\ r \in reserved => stage[r] \in SetupStages \cup UnwindStages

\* A run has an expiry goroutine only after complete() has run for it, and
\* complete() runs once.
ExpiryWhere ==
  \A r \in Request :
    /\ stage[r] \in {"failing", "terminal"} => r \in done
    /\ expiry[r] # "none" => r \in done /\ stage[r] \notin {"failing", "terminal"}

\* close() has gone past its wait only with the manager quiescing and empty.
CloserWhere ==
  /\ closer # "open" => quiescing
  /\ CloseWaits

SlotInv == TypeOK /\ CountersMatch /\ ReservedWhere /\ ExpiryWhere /\ CloserWhere

-----------------------------------------------------------------------------
\* The holders and the expirers are finite sets of requests, so that the two
\* counters are natural numbers and count their elements.
LEMMA Counts ==
  ASSUME NEW S \in SUBSET Request
  PROVE  /\ IsFiniteSet(S)
         /\ Cardinality(S) \in Nat
         /\ (Cardinality(S) = 0) <=> (S = {})
         /\ \A r : r \notin S => Cardinality(S \cup {r}) = Cardinality(S) + 1
         /\ \A r : r \in S => Cardinality(S \ {r}) = Cardinality(S) - 1
<1>1. IsFiniteSet(S)
  BY IdentityAssumption, FS_Subset
<1>2. Cardinality(S) \in Nat /\ ((Cardinality(S) = 0) <=> (S = {}))
  BY <1>1, FS_CardinalityType, FS_EmptySet
<1>3. ASSUME NEW r, r \notin S PROVE Cardinality(S \cup {r}) = Cardinality(S) + 1
  BY <1>1, <1>3, FS_AddElement
<1>4. ASSUME NEW r, r \in S PROVE Cardinality(S \ {r}) = Cardinality(S) - 1
  BY <1>1, <1>4, FS_RemoveElement
<1>. QED BY <1>1, <1>2, <1>3, <1>4

\* The five things a step can do to the owners of the counters' units, and to
\* the counters: nothing, admit a holder, let a holder go, start an expiry
\* goroutine, end one.
OwnersKept == UNCHANGED <<Holders, Expirers, active, workers>>

HolderEnters(r) ==
  /\ r \notin Holders /\ Holders' = Holders \cup {r} /\ Expirers' = Expirers
  /\ active' = active + 1 /\ workers' = workers + 1

HolderLeaves(r) ==
  /\ r \in Holders /\ Holders' = Holders \ {r} /\ Expirers' = Expirers
  /\ GiveBack

ExpirerStarts(r) ==
  /\ r \notin Expirers /\ Expirers' = Expirers \cup {r} /\ Holders' = Holders
  /\ active' = active /\ workers' = workers + 1

ExpirerEnds(r) ==
  /\ r \in Expirers /\ Expirers' = Expirers \ {r} /\ Holders' = Holders
  /\ active' = active /\ workers' = workers - 1

OwnerStep ==
  \/ OwnersKept
  \/ \E r \in Request : \/ HolderEnters(r) \/ HolderLeaves(r)
                        \/ ExpirerStarts(r) \/ ExpirerEnds(r)

\* Whichever of the five it is, the counters keep counting their owners.
LEMMA CountingStep ==
  ASSUME CountersMatch, OwnerStep
  PROVE  CountersMatch' /\ active' \in Nat /\ workers' \in Nat
<1>1. /\ Holders \in SUBSET Request /\ Holders' \in SUBSET Request
      /\ Expirers \in SUBSET Request /\ Expirers' \in SUBSET Request
  BY DEF Holders, Expirers
<1>2. /\ Cardinality(Holders) \in Nat /\ Cardinality(Holders') \in Nat
      /\ Cardinality(Expirers) \in Nat /\ Cardinality(Expirers') \in Nat
  BY <1>1, Counts
<1>3. CountersMatch'
  <2>1. CASE OwnersKept
    BY <2>1 DEF OwnersKept, CountersMatch
  <2>2. ASSUME NEW r \in Request, HolderEnters(r) PROVE CountersMatch'
    <3>1. Cardinality(Holders') = Cardinality(Holders) + 1
      BY <1>1, <2>2, Counts DEF HolderEnters
    <3>. QED BY <1>2, <2>2, <3>1 DEF HolderEnters, CountersMatch
  <2>3. ASSUME NEW r \in Request, HolderLeaves(r) PROVE CountersMatch'
    <3>1. Cardinality(Holders') = Cardinality(Holders) - 1 /\ Cardinality(Holders) # 0
      BY <1>1, <2>3, Counts DEF HolderLeaves
    <3>. QED BY <1>2, <2>3, <3>1 DEF HolderLeaves, GiveBack, ReleasedActive, CountersMatch
  <2>4. ASSUME NEW r \in Request, ExpirerStarts(r) PROVE CountersMatch'
    <3>1. Cardinality(Expirers') = Cardinality(Expirers) + 1
      BY <1>1, <2>4, Counts DEF ExpirerStarts
    <3>. QED BY <1>2, <2>4, <3>1 DEF ExpirerStarts, CountersMatch
  <2>5. ASSUME NEW r \in Request, ExpirerEnds(r) PROVE CountersMatch'
    <3>1. Cardinality(Expirers') = Cardinality(Expirers) - 1
      BY <1>1, <2>5, Counts DEF ExpirerEnds
    <3>. QED BY <1>2, <2>5, <3>1 DEF ExpirerEnds, CountersMatch
  <2>. QED BY <2>1, <2>2, <2>3, <2>4, <2>5 DEF OwnerStep
<1>. QED BY <1>2, <1>3 DEF CountersMatch

-----------------------------------------------------------------------------
\* Every step of the program is one of the five: the stages of a request and
\* its reservation pass the unit on without losing or doubling it.
LEMMA StepsOfOwners ==
  ASSUME TypeOK, ReservedWhere, ExpiryWhere, [Next]_vars
  PROVE  OwnerStep
<1>. USE DEF managerVars, runVars, sessionVars, Goto, TypeOK, Holders, Expirers,
             SetupStages, UnwindStages, RunStages, ReservedWhere
<1>1. CASE UNCHANGED vars
  BY <1>1 DEF vars, OwnerStep, OwnersKept
<1>2. ASSUME NEW r \in Request, Handler(r) PROVE OwnerStep
  <2>1. CASE Reserve(r)
    BY <2>1 DEF Reserve, OwnerStep, HolderEnters
  <2>2. CASE RefuseReserve(r) \/ Acquire(r) \/ RefuseBusy(r) \/ Resolve(r)
    BY <2>2 DEF RefuseReserve, Acquire, RefuseBusy, Resolve, OwnerStep, OwnersKept
  <2>3. CASE Prepare(r) \/ Validate(r) \/ Discard(r) \/ ReleaseLease(r)
    BY <2>3 DEF Prepare, Validate, Discard, ReleaseLease, AfterPrepared, OwnerStep, OwnersKept
  <2>4. CASE Activate(r)
    <3>1. CASE MayActivate
      BY <2>4, <3>1 DEF Activate, OwnerStep, OwnersKept
    <3>2. CASE ~MayActivate
      BY <2>4, <3>2 DEF Activate, AfterPrepared, OwnerStep, HolderLeaves
    <3>. QED BY <3>1, <3>2
  <2>5. CASE ReleaseReservation(r)
    <3>1. CASE r \in reserved
      BY <2>5, <3>1 DEF ReleaseReservation, OwnerStep, HolderLeaves
    <3>2. CASE r \notin reserved
      BY <2>5, <3>2 DEF ReleaseReservation, OwnerStep, OwnersKept
    <3>. QED BY <3>1, <3>2
  <2>. QED BY <1>2, <2>1, <2>2, <2>3, <2>4, <2>5 DEF Handler
<1>3. ASSUME NEW r \in Request, Run(r) PROVE OwnerStep
  <2>1. CASE FailEncoding(r) \/ Return(r) \/ Abort(r) \/ Timeout(r)
    BY <2>1 DEF FailEncoding, Return, Abort, Timeout, OwnerStep, OwnersKept
  <2>2. CASE Complete(r)
    <3>1. CASE SchedulesExpiry
      BY <2>2, <3>1 DEF Complete, ExpiryWhere, OwnerStep, ExpirerStarts
    <3>2. CASE ~SchedulesExpiry
      BY <2>2, <3>2 DEF Complete, OwnerStep, OwnersKept
    <3>. QED BY <3>1, <3>2
  <2>3. CASE FinishExecution(r)
    BY <2>3 DEF FinishExecution, OwnerStep, HolderLeaves
  <2>. QED BY <1>3, <2>1, <2>2, <2>3 DEF Run
<1>4. ASSUME NEW r \in Request, Expiry(r) PROVE OwnerStep
  <2>1. CASE ExpireByTimer(r) \/ ExpireByLifecycle(r)
    BY <2>1 DEF ExpireByTimer, ExpireByLifecycle, OwnerStep, OwnersKept
  <2>2. CASE LeaveExpiry(r)
    BY <2>2 DEF LeaveExpiry, OwnerStep, ExpirerEnds
  <2>. QED BY <1>4, <2>1, <2>2 DEF Expiry
<1>5. CASE Close
  BY <1>5 DEF Close, Quiesce, StartClose, WaitReturns, ClearRuns, CloseDeadline,
              OwnerStep, OwnersKept
<1>6. ASSUME NEW e \in Editor, Edit(e) PROVE OwnerStep
  BY <1>6 DEF Edit, BeginEdit, DeleteSession, EndEdit, OwnerStep, OwnersKept
<1>. QED BY <1>1, <1>2, <1>3, <1>4, <1>5, <1>6 DEF Next

-----------------------------------------------------------------------------
\* The stages of reservations and of expiry goroutines are kept by every step.
LEMMA StagesKept ==
  ASSUME TypeOK, ReservedWhere, ExpiryWhere, [Next]_vars
  PROVE  ReservedWhere' /\ ExpiryWhere'
<1>. USE DEF managerVars, runVars, sessionVars, Goto, TypeOK, SetupStages,
             UnwindStages, RunStages, ReservedWhere, ExpiryWhere
<1>1. CASE UNCHANGED vars
  BY <1>1 DEF vars
<1>2. ASSUME NEW r \in Request, Handler(r) PROVE ReservedWhere' /\ ExpiryWhere'
  <2>1. CASE Reserve(r) \/ RefuseReserve(r) \/ Acquire(r) \/ RefuseBusy(r)
    BY <2>1 DEF Reserve, RefuseReserve, Acquire, RefuseBusy
  <2>2. CASE Resolve(r) \/ Prepare(r) \/ Discard(r)
    BY <2>2 DEF Resolve, Prepare, Discard
  <2>3. CASE Validate(r)
    BY <2>3 DEF Validate, AfterPrepared
  <2>5. CASE Activate(r)
    <3>1. CASE MayActivate
      BY <2>5, <3>1 DEF Activate
    <3>2. CASE ~MayActivate
      BY <2>5, <3>2 DEF Activate, AfterPrepared
    <3>. QED BY <3>1, <3>2
  <2>4. CASE ReleaseLease(r) \/ ReleaseReservation(r)
    BY <2>4 DEF ReleaseLease, ReleaseReservation
  <2>. QED BY <1>2, <2>1, <2>2, <2>3, <2>4, <2>5 DEF Handler
<1>3. ASSUME NEW r \in Request, Run(r) PROVE ReservedWhere' /\ ExpiryWhere'
  <2>1. CASE FailEncoding(r) \/ Return(r)
    BY <2>1 DEF FailEncoding, Return, PublishTerminal
  <2>2. CASE Complete(r)
    BY <2>2 DEF Complete
  <2>3. CASE FinishExecution(r) \/ Abort(r) \/ Timeout(r)
    BY <2>3 DEF FinishExecution, Abort, Timeout
  <2>. QED BY <1>3, <2>1, <2>2, <2>3 DEF Run
<1>4. ASSUME NEW r \in Request, Expiry(r) PROVE ReservedWhere' /\ ExpiryWhere'
  BY <1>4 DEF Expiry, ExpireByTimer, ExpireByLifecycle, LeaveExpiry, ExpiryStates
<1>5. CASE Close
  BY <1>5 DEF Close, Quiesce, CancelAll, StartClose, WaitReturns, ClearRuns, CloseDeadline
<1>6. ASSUME NEW e \in Editor, Edit(e) PROVE ReservedWhere' /\ ExpiryWhere'
  BY <1>6 DEF Edit, BeginEdit, DeleteSession, EndEdit
<1>. QED BY <1>1, <1>2, <1>3, <1>4, <1>5, <1>6 DEF Next

-----------------------------------------------------------------------------
\* A manager that quiesces does so for good and lets no new owner in: neither
\* reserve() nor complete() adds a worker any more.
LEMMA ShutManager ==
  ASSUME TypeOK, quiescing, [Next]_vars
  PROVE  quiescing' /\ Holders' \subseteq Holders /\ Expirers' \subseteq Expirers
<1>. DEFINE Kept == quiescing' /\ Holders' \subseteq Holders /\ Expirers' \subseteq Expirers
<1>. USE DEF managerVars, runVars, sessionVars, Goto, TypeOK, Holders, Expirers, RunStages
<1>1. CASE UNCHANGED vars
  BY <1>1 DEF vars
<1>2. ASSUME NEW r \in Request, Handler(r) PROVE Kept
  <2>1. CASE Reserve(r) \/ RefuseReserve(r) \/ Acquire(r) \/ RefuseBusy(r)
    BY <2>1 DEF Reserve, MayReserve, RefuseReserve, Acquire, RefuseBusy
  <2>2. CASE Resolve(r) \/ Prepare(r) \/ Discard(r)
    BY <2>2 DEF Resolve, Prepare, Discard
  <2>3. CASE Validate(r) \/ Activate(r)
    BY <2>3 DEF Validate, Activate, MayActivate, AfterPrepared
  <2>4. CASE ReleaseLease(r) \/ ReleaseReservation(r)
    BY <2>4 DEF ReleaseLease, ReleaseReservation
  <2>. QED BY <1>2, <2>1, <2>2, <2>3, <2>4 DEF Handler
<1>3. ASSUME NEW r \in Request, Run(r) PROVE Kept
  <2>1. CASE FailEncoding(r) \/ Return(r) \/ FinishExecution(r)
    BY <2>1 DEF FailEncoding, Return, FinishExecution
  <2>2. CASE Complete(r)
    BY <2>2 DEF Complete, SchedulesExpiry
  <2>3. CASE Abort(r) \/ Timeout(r)
    BY <2>3 DEF Abort, Timeout
  <2>. QED BY <1>3, <2>1, <2>2, <2>3 DEF Run
<1>4. ASSUME NEW r \in Request, Expiry(r) PROVE Kept
  BY <1>4 DEF Expiry, ExpireByTimer, ExpireByLifecycle, LeaveExpiry
<1>5. CASE Close
  BY <1>5 DEF Close, Quiesce, StartClose, WaitReturns, ClearRuns, CloseDeadline
<1>6. ASSUME NEW e \in Editor, Edit(e) PROVE Kept
  BY <1>6 DEF Edit, BeginEdit, DeleteSession, EndEdit
<1>. QED BY <1>1, <1>2, <1>3, <1>4, <1>5, <1>6 DEF Next

\* With no worker left there is no owner left.
LEMMA NoWorkersNoOwners ==
  ASSUME CountersMatch, workers = 0
  PROVE  Holders = {} /\ Expirers = {}
<1>1. Holders \in SUBSET Request /\ Expirers \in SUBSET Request
  BY DEF Holders, Expirers
<1>2. Cardinality(Holders) \in Nat /\ Cardinality(Expirers) \in Nat
  BY <1>1, Counts
<1>3. Cardinality(Holders) = 0 /\ Cardinality(Expirers) = 0
  BY <1>2 DEF CountersMatch
<1>. QED BY <1>1, <1>3, Counts

\* close() leaves its wait only with every worker gone, and none comes back.
LEMMA CloserKept ==
  ASSUME TypeOK, CountersMatch, CloserWhere, [Next]_vars
  PROVE  CloserWhere'
<1>1. CASE closer' = closer
  BY <1>1, ShutManager DEF CloserWhere, CloseWaits, TypeOK
<1>2. CASE WaitReturns
  <2>1. Holders = {} /\ Expirers = {} /\ quiescing
    BY <1>2, NoWorkersNoOwners DEF WaitReturns, WorkersDone, CloserWhere
  <2>. QED BY <2>1, ShutManager DEF CloserWhere, CloseWaits
<1>3. CASE StartClose \/ ClearRuns \/ CloseDeadline
  BY <1>3, ShutManager DEF StartClose, ClearRuns, CloseDeadline, CloserWhere, CloseWaits
<1>4. (closer' = closer) \/ WaitReturns \/ StartClose \/ ClearRuns \/ CloseDeadline
  BY DEF Next, vars, managerVars, Handler, Run, Expiry, Close, Edit, Reserve,
         RefuseReserve, Acquire, RefuseBusy, Resolve, Prepare, Validate, Activate,
         Discard, ReleaseLease, ReleaseReservation, FailEncoding, Return, Complete,
         FinishExecution, Abort, Timeout, ExpireByTimer, ExpireByLifecycle,
         LeaveExpiry, Quiesce, BeginEdit, DeleteSession, EndEdit
<1>. QED BY <1>1, <1>2, <1>3, <1>4

-----------------------------------------------------------------------------
\* Every step keeps the type of every variable; that the counters stay natural
\* numbers is what the accounting is for.
LEMMA TypeKept ==
  ASSUME TypeOK, active' \in Nat, workers' \in Nat, [Next]_vars
  PROVE  TypeOK'
<1>. USE DEF managerVars, runVars, sessionVars, Goto, TypeOK, Stages, SetupStages,
             UnwindStages, RunStages, ExpiryStates, Key
<1>1. CASE UNCHANGED vars
  BY <1>1 DEF vars
<1>2. ASSUME NEW r \in Request, Handler(r) PROVE TypeOK'
  <2>1. CASE Reserve(r) \/ RefuseReserve(r) \/ Acquire(r) \/ RefuseBusy(r)
    BY <2>1 DEF Reserve, RefuseReserve, Acquire, RefuseBusy
  <2>2. CASE Resolve(r) \/ Prepare(r) \/ Discard(r)
    BY <2>2 DEF Resolve, Prepare, Discard
  <2>3. CASE Validate(r) \/ Activate(r)
    BY <2>3 DEF Validate, Activate, AfterPrepared
  <2>4. CASE ReleaseLease(r) \/ ReleaseReservation(r)
    BY <2>4 DEF ReleaseLease, Released, ReleaseReservation
  <2>. QED BY <1>2, <2>1, <2>2, <2>3, <2>4 DEF Handler
<1>3. ASSUME NEW r \in Request, Run(r) PROVE TypeOK'
  <2>1. CASE FailEncoding(r) \/ Return(r)
    BY <2>1 DEF FailEncoding, Return, PublishTerminal
  <2>2. CASE Complete(r) \/ FinishExecution(r)
    BY <2>2 DEF Complete, FinishExecution
  <2>3. CASE Abort(r) \/ Timeout(r)
    BY <2>3 DEF Abort, Timeout
  <2>. QED BY <1>3, <2>1, <2>2, <2>3 DEF Run
<1>4. ASSUME NEW r \in Request, Expiry(r) PROVE TypeOK'
  BY <1>4 DEF Expiry, ExpireByTimer, ExpireByLifecycle, LeaveExpiry
<1>5. CASE Close
  BY <1>5 DEF Close, Quiesce, CancelAll, StartClose, WaitReturns, ClearRuns, CloseDeadline
<1>6. ASSUME NEW e \in Editor, Edit(e) PROVE TypeOK'
  BY <1>6 DEF Edit, BeginEdit, DeleteSession, EndEdit, Released
<1>. QED BY <1>1, <1>2, <1>3, <1>4, <1>5, <1>6 DEF Next

LEMMA SlotInit == Init => SlotInv
<1>. SUFFICES ASSUME Init PROVE SlotInv
  OBVIOUS
<1>1. TypeOK
  BY DEF Init, TypeOK, Key, Stages, ExpiryStates
<1>2. Holders = {} /\ Expirers = {}
  BY DEF Init, Holders, Expirers, RunStages
<1>3. CountersMatch
  BY <1>2, FS_EmptySet DEF Init, CountersMatch
<1>4. ReservedWhere /\ ExpiryWhere /\ CloserWhere
  BY DEF Init, ReservedWhere, ExpiryWhere, CloserWhere, CloseWaits, SetupStages
<1>. QED BY <1>1, <1>3, <1>4 DEF SlotInv

LEMMA SlotStep == SlotInv /\ [Next]_vars => SlotInv'
<1>. SUFFICES ASSUME SlotInv, [Next]_vars PROVE SlotInv'
  OBVIOUS
<1>1. CountersMatch' /\ active' \in Nat /\ workers' \in Nat
  BY CountingStep, StepsOfOwners DEF SlotInv
<1>2. TypeOK'
  BY <1>1, TypeKept DEF SlotInv
<1>. QED BY <1>1, <1>2, StagesKept, CloserKept DEF SlotInv

LEMMA SlotInvHolds == Spec => []SlotInv
BY SlotInit, SlotStep, PTL DEF Spec

-----------------------------------------------------------------------------
\* Every variable of the manager keeps its type, and the counters never go below zero.
LEMMA TypeCorrect == Spec => []TypeOK
<1>1. SlotInv => TypeOK
  BY DEF SlotInv
<1>. QED BY <1>1, SlotInvHolds, PTL

\* active and workers count exactly the reservations, executions and expiry
\* goroutines, on every path of reserve, activate, release, complete and
\* finishExecution; in particular workers.Done never takes the WaitGroup below
\* zero, which would panic.
THEOREM CountersExact == Spec => []Accounting
<1>1. SlotInv => Accounting
  BY DEF SlotInv, Accounting
<1>. QED BY <1>1, SlotInvHolds, PTL

\* close() returns success only when no execution, reservation or expiry
\* goroutine is left.
THEOREM CloseIsLast == Spec => []CloseWaits
<1>1. SlotInv => CloseWaits
  BY DEF SlotInv, CloserWhere
<1>. QED BY <1>1, SlotInvHolds, PTL

\* close() is last, and workers.Add never runs again once the manager quiesces
\* and the counter has reached zero, so it never races with the Wait of close().
THEOREM ClosingIsFinal == Spec => CloseIsFinal
<1>. DEFINE Final == CloseWaits' /\ (quiescing /\ workers = 0 => workers' = 0)
<1>1. SlotInv /\ CloseWaits' /\ [Next]_vars => Final
  <2>. SUFFICES ASSUME SlotInv, [Next]_vars, quiescing, workers = 0 PROVE workers' = 0
    OBVIOUS
  <2>1. Holders' = {} /\ Expirers' = {}
    BY NoWorkersNoOwners, ShutManager DEF SlotInv
  <2>2. CountersMatch'
    BY SlotStep DEF SlotInv
  <2>. QED BY <2>1, <2>2, FS_EmptySet DEF CountersMatch
<1>. QED BY <1>1, SlotInvHolds, CloseIsLast, PTL DEF Spec, CloseIsFinal

-----------------------------------------------------------------------------
\* Only a reserve() that may reserve raises active, and only quiesce() touches
\* the admission flag.
LEMMA AdmissionGuarded ==
  ASSUME TypeOK, [Next]_vars
  PROVE  /\ active' = active + 1 => MayReserve
         /\ quiescing' = quiescing \/ (quiescing' /\ ~quiescing /\ UNCHANGED <<stage, reserved>>)
<1>. DEFINE Guarded ==
       /\ active' = active + 1 => MayReserve
       /\ quiescing' = quiescing \/ (quiescing' /\ ~quiescing /\ UNCHANGED <<stage, reserved>>)
<1>. USE DEF managerVars, TypeOK
<1>1. CASE UNCHANGED vars
  BY <1>1 DEF vars
<1>2. ASSUME NEW r \in Request, Handler(r) PROVE Guarded
  BY <1>2 DEF Handler, Reserve, RefuseReserve, Acquire, RefuseBusy, Resolve, Prepare,
              Validate, Activate, Discard, ReleaseLease, ReleaseReservation, GiveBack,
              ReleasedActive
<1>3. ASSUME NEW r \in Request, Run(r) PROVE Guarded
  BY <1>3 DEF Run, FailEncoding, Return, Complete, FinishExecution, Abort, Timeout,
              GiveBack, ReleasedActive
<1>4. ASSUME NEW r \in Request, Expiry(r) PROVE Guarded
  BY <1>4 DEF Expiry, ExpireByTimer, ExpireByLifecycle, LeaveExpiry
<1>5. CASE Close
  BY <1>5 DEF Close, Quiesce, StartClose, WaitReturns, ClearRuns, CloseDeadline
<1>6. ASSUME NEW e \in Editor, Edit(e) PROVE Guarded
  BY <1>6 DEF Edit, BeginEdit, DeleteSession, EndEdit
<1>. QED BY <1>1, <1>2, <1>3, <1>4, <1>5, <1>6 DEF Next

\* Reservations and executions together never exceed MaxActiveRuns, nobody is
\* admitted after quiesce(), and quiesce() is never undone: the manager is an
\* admission gate of that capacity.
THEOREM ImplementsGate == Spec => GateSpec
<1>1. Init => Gate!Init
  BY DEF Init, Gate!Init, Holders, RunStages
<1>2. SlotInv /\ [Next]_vars => [Gate!Next]_(Gate!gateVars)
  <2>. SUFFICES ASSUME SlotInv, [Next]_vars PROVE [Gate!Next]_(Gate!gateVars)
    OBVIOUS
  <2>1. OwnerStep /\ TypeOK /\ CountersMatch
    BY StepsOfOwners DEF SlotInv
  <2>2. CASE quiescing' # quiescing
    <3>1. quiescing' /\ ~quiescing /\ Holders' = Holders
      BY <2>1, <2>2, AdmissionGuarded DEF Holders
    <3>. QED BY <2>1, <3>1 DEF TypeOK, Gate!Next, Gate!Shut
  <2>3. CASE quiescing' = quiescing
    <3>1. ASSUME NEW r \in Request, HolderEnters(r) PROVE Gate!Enter(r)
      <4>1. MayReserve
        BY <2>1, <3>1, AdmissionGuarded DEF HolderEnters
      <4>2. Gate!Cardinality(Holders) = Cardinality(Holders)
        BY DEF Gate!Cardinality, Cardinality
      <4>. QED BY <2>1, <2>3, <3>1, <4>1, <4>2
               DEF HolderEnters, MayReserve, CountersMatch, Gate!Enter
    <3>2. ASSUME NEW r \in Request, HolderLeaves(r) PROVE Gate!Leave(r)
      BY <2>3, <3>2 DEF HolderLeaves, Gate!Leave
    <3>3. \/ Holders' = Holders
          \/ \E r \in Request : HolderEnters(r) \/ HolderLeaves(r)
      BY <2>1 DEF OwnerStep, OwnersKept, ExpirerStarts, ExpirerEnds
    <3>. QED BY <2>3, <3>1, <3>2, <3>3 DEF Gate!Next, Gate!gateVars
  <2>. QED BY <2>2, <2>3
<1>. QED BY <1>1, <1>2, SlotInvHolds, PTL DEF Spec, GateSpec, Gate!Spec

-----------------------------------------------------------------------------
\* Who stands behind a lease: a request in one of the stages between
\* AcquireSession and Release, or the editor that works on the session.
LeaseWhere ==
  /\ \A r \in Request : stage[r] \in LeaseStages => lease[asked[r]] = r
  /\ \A e \in Editor : editing[e] # Nobody => lease[editing[e]] = e

LEMMA LeaseKept ==
  ASSUME TypeOK, LeaseWhere, [Next]_vars
  PROVE  LeaseWhere'
<1>. USE IdentityAssumption
     DEF managerVars, runVars, sessionVars, Goto, TypeOK, LeaseWhere, LeaseStages,
         SetupStages, RunStages
<1>1. CASE UNCHANGED vars
  BY <1>1 DEF vars
<1>2. ASSUME NEW r \in Request, Handler(r) PROVE LeaseWhere'
  <2>1. CASE Reserve(r) \/ RefuseReserve(r) \/ RefuseBusy(r)
    BY <2>1 DEF Reserve, RefuseReserve, RefuseBusy
  <2>2. CASE Acquire(r)
    BY <2>2 DEF Acquire, LeaseFree
  <2>3. CASE Resolve(r) \/ Prepare(r) \/ Discard(r)
    BY <2>3 DEF Resolve, Prepare, Discard
  <2>4. CASE Validate(r) \/ Activate(r)
    BY <2>4 DEF Validate, Activate, AfterPrepared
  <2>5. CASE ReleaseLease(r)
    BY <2>5 DEF ReleaseLease, Released
  <2>6. CASE ReleaseReservation(r)
    BY <2>6 DEF ReleaseReservation
  <2>. QED BY <1>2, <2>1, <2>2, <2>3, <2>4, <2>5, <2>6 DEF Handler
<1>3. ASSUME NEW r \in Request, Run(r) PROVE LeaseWhere'
  BY <1>3 DEF Run, FailEncoding, Return, PublishTerminal, Complete, FinishExecution,
              Abort, Timeout
<1>4. ASSUME NEW r \in Request, Expiry(r) PROVE LeaseWhere'
  BY <1>4 DEF Expiry, ExpireByTimer, ExpireByLifecycle, LeaveExpiry
<1>5. CASE Close
  BY <1>5 DEF Close, Quiesce, StartClose, WaitReturns, ClearRuns, CloseDeadline
<1>6. ASSUME NEW e \in Editor, Edit(e) PROVE LeaseWhere'
  BY <1>6 DEF Edit, BeginEdit, LeaseFree, DeleteSession, EndEdit, Released
<1>. QED BY <1>1, <1>2, <1>3, <1>4, <1>5, <1>6 DEF Next

\* From its lease a session has one writer at a time: two runs, or a run and a
\* rename, branch or delete request, never overlap on it.
THEOREM OneWriter == Spec => []WritersExclude
<1>1. Init => TypeOK /\ LeaseWhere
  BY SlotInit DEF SlotInv, Init, LeaseWhere, LeaseStages, SetupStages, RunStages
<1>2. TypeOK /\ TypeOK' /\ LeaseWhere /\ [Next]_vars => LeaseWhere'
  BY LeaseKept
<1>3. TypeOK /\ LeaseWhere => WritersExclude
  <2>. SUFFICES ASSUME TypeOK, LeaseWhere PROVE WritersExclude
    OBVIOUS
  <2>1. ASSUME NEW r \in Request, NEW e \in Editor, stage[r] \in LeaseStages
        PROVE  editing[e] # asked[r]
    BY <2>1, IdentityAssumption DEF LeaseWhere, TypeOK, Key
  <2>. QED BY <2>1 DEF LeaseWhere, WritersExclude
<1>. QED BY <1>1, <1>2, <1>3, TypeCorrect, PTL DEF Spec

-----------------------------------------------------------------------------
\* DiscardSession is called only for a session the request itself created.
DiscardsOwn == \A r \in Request : stage[r] = "discarding" => Fresh(r)

LEMMA DiscardsOwnKept ==
  ASSUME TypeOK, DiscardsOwn, [Next]_vars
  PROVE  DiscardsOwn'
<1>. USE DEF managerVars, runVars, sessionVars, Goto, TypeOK, DiscardsOwn, Fresh
<1>1. CASE UNCHANGED vars
  BY <1>1 DEF vars
<1>2. ASSUME NEW r \in Request, Handler(r) PROVE DiscardsOwn'
  <2>1. CASE Reserve(r) \/ RefuseReserve(r) \/ Acquire(r) \/ RefuseBusy(r)
    BY <2>1 DEF Reserve, RefuseReserve, Acquire, RefuseBusy
  <2>2. CASE Resolve(r) \/ Prepare(r) \/ Discard(r)
    BY <2>2 DEF Resolve, Prepare, Discard
  <2>3. CASE Validate(r) \/ Activate(r)
    BY <2>3 DEF Validate, Activate, AfterPrepared
  <2>4. CASE ReleaseLease(r) \/ ReleaseReservation(r)
    BY <2>4 DEF ReleaseLease, ReleaseReservation
  <2>. QED BY <1>2, <2>1, <2>2, <2>3, <2>4 DEF Handler
<1>3. ASSUME NEW r \in Request, Run(r) PROVE DiscardsOwn'
  BY <1>3 DEF Run, FailEncoding, Return, Complete, FinishExecution, Abort, Timeout
<1>4. ASSUME NEW r \in Request, Expiry(r) PROVE DiscardsOwn'
  BY <1>4 DEF Expiry, ExpireByTimer, ExpireByLifecycle, LeaveExpiry
<1>5. CASE Close
  BY <1>5 DEF Close, Quiesce, StartClose, WaitReturns, ClearRuns, CloseDeadline
<1>6. ASSUME NEW e \in Editor, Edit(e) PROVE DiscardsOwn'
  BY <1>6 DEF Edit, BeginEdit, DeleteSession, EndEdit
<1>. QED BY <1>1, <1>2, <1>3, <1>4, <1>5, <1>6 DEF Next

\* A stored session disappears only while the one who deletes it holds its
\* lease, so it cannot be the session of a run.
LEMMA StoredKept ==
  ASSUME TypeOK, LeaseWhere, DiscardsOwn, NoDeleteUnderRun, [Next]_vars
  PROVE  NoDeleteUnderRun'
<1>. USE DEF managerVars, runVars, sessionVars, Goto, TypeOK, NoDeleteUnderRun, RunStages
<1>1. CASE UNCHANGED vars
  BY <1>1 DEF vars
<1>2. ASSUME NEW r \in Request, Handler(r) PROVE NoDeleteUnderRun'
  <2>1. CASE Reserve(r) \/ RefuseReserve(r) \/ Acquire(r) \/ RefuseBusy(r)
    BY <2>1 DEF Reserve, RefuseReserve, Acquire, RefuseBusy
  <2>2. CASE Resolve(r) \/ Prepare(r)
    BY <2>2 DEF Resolve, Prepare
  <2>3. CASE Validate(r) \/ Activate(r)
    BY <2>3 DEF Validate, Activate, AfterPrepared
  <2>4. CASE ReleaseLease(r) \/ ReleaseReservation(r)
    BY <2>4 DEF ReleaseLease, ReleaseReservation
  <2>5. CASE Discard(r)
    <3>1. asked[r] = r /\ lease[r] = r
      BY <2>5 DEF Discard, DiscardsOwn, Fresh, LeaseWhere, LeaseStages
    <3>2. ASSUME NEW q \in Request, q # r,
                 stage[q] \in {"prepared", "validated"} \cup RunStages
          PROVE  asked[q] # r
      BY <3>1, <3>2 DEF LeaseWhere, LeaseStages, SetupStages
    <3>. QED BY <2>5, <3>2 DEF Discard
  <2>. QED BY <1>2, <2>1, <2>2, <2>3, <2>4, <2>5 DEF Handler
<1>3. ASSUME NEW r \in Request, Run(r) PROVE NoDeleteUnderRun'
  BY <1>3 DEF Run, FailEncoding, Return, Complete, FinishExecution, Abort, Timeout
<1>4. ASSUME NEW r \in Request, Expiry(r) PROVE NoDeleteUnderRun'
  BY <1>4 DEF Expiry, ExpireByTimer, ExpireByLifecycle, LeaveExpiry
<1>5. CASE Close
  BY <1>5 DEF Close, Quiesce, StartClose, WaitReturns, ClearRuns, CloseDeadline
<1>6. ASSUME NEW e \in Editor, Edit(e) PROVE NoDeleteUnderRun'
  <2>1. CASE DeleteSession(e)
    <3>1. lease[editing[e]] = e
      BY <2>1, IdentityAssumption DEF DeleteSession, LeaseWhere, Key
    <3>2. ASSUME NEW q \in Request, stage[q] \in {"prepared", "validated"} \cup RunStages
          PROVE  asked[q] # editing[e]
      BY <3>1, <3>2, IdentityAssumption DEF LeaseWhere, LeaseStages, SetupStages
    <3>. QED BY <2>1, <3>2 DEF DeleteSession
  <2>2. CASE EndEdit(e) \/ \E k \in Key : BeginEdit(e, k)
    BY <2>2 DEF EndEdit, BeginEdit
  <2>. QED BY <1>6, <2>1, <2>2 DEF Edit
<1>. QED BY <1>1, <1>2, <1>3, <1>4, <1>5, <1>6 DEF Next

\* The session of a run that has been prepared stays in the repository until
\* the run's goroutine has finished, whatever DELETE requests and discards
\* other requests make.
THEOREM RunKeepsItsSession == Spec => []NoDeleteUnderRun
<1>. DEFINE SessionInv == TypeOK /\ LeaseWhere /\ DiscardsOwn /\ NoDeleteUnderRun
<1>1. Init => SessionInv
  BY SlotInit DEF SlotInv, Init, LeaseWhere, LeaseStages, SetupStages, RunStages,
                  DiscardsOwn, NoDeleteUnderRun
<1>2. SessionInv /\ TypeOK' /\ [Next]_vars => SessionInv'
  BY LeaseKept, DiscardsOwnKept, StoredKept
<1>. QED BY <1>1, <1>2, TypeCorrect, PTL DEF Spec

\* One writer at a time for each session, and no deletion under it.
THEOREM SessionsStayGuarded == Spec => []SessionsGuarded
BY OneWriter, RunKeepsItsSession, PTL DEF SessionsGuarded

-----------------------------------------------------------------------------
\* An execution that has not published its terminal event stays in the table
\* of runs: neither its expiry, which starts after it, nor a close, which
\* waits for it, takes it out.
THEOREM LiveRunsStayReachable == Spec => []LiveRunReachable
<1>1. Init => LiveRunReachable
  BY DEF Init, LiveRunReachable, RunStages
<1>2. SlotInv /\ LiveRunReachable /\ [Next]_vars => LiveRunReachable'
  <2>. SUFFICES ASSUME SlotInv, LiveRunReachable, [Next]_vars PROVE LiveRunReachable'
    OBVIOUS
  <2>. USE DEF SlotInv, managerVars, runVars, sessionVars, Goto, TypeOK,
               LiveRunReachable, RunStages
  <2>1. CASE UNCHANGED vars
    BY <2>1 DEF vars
  <2>2. ASSUME NEW r \in Request, Handler(r) PROVE LiveRunReachable'
    <3>1. CASE Reserve(r) \/ RefuseReserve(r) \/ Acquire(r) \/ RefuseBusy(r)
      BY <3>1 DEF Reserve, RefuseReserve, Acquire, RefuseBusy
    <3>2. CASE Resolve(r) \/ Prepare(r) \/ Discard(r)
      BY <3>2 DEF Resolve, Prepare, Discard
    <3>3. CASE Validate(r) \/ Activate(r)
      BY <3>3 DEF Validate, Activate, AfterPrepared
    <3>4. CASE ReleaseLease(r) \/ ReleaseReservation(r)
      BY <3>4 DEF ReleaseLease, ReleaseReservation
    <3>. QED BY <2>2, <3>1, <3>2, <3>3, <3>4 DEF Handler
  <2>3. ASSUME NEW r \in Request, Run(r) PROVE LiveRunReachable'
    BY <2>3 DEF Run, FailEncoding, Return, PublishTerminal, Complete, FinishExecution,
                Abort, Timeout
  <2>4. ASSUME NEW r \in Request, Expiry(r) PROVE LiveRunReachable'
    BY <2>4 DEF Expiry, ExpireByTimer, ExpireByLifecycle, LeaveExpiry, ExpiryWhere
  <2>5. CASE Close
    <3>1. CASE ClearRuns
      BY <3>1 DEF ClearRuns, CloserWhere, CloseWaits, Holders
    <3>2. CASE Quiesce \/ StartClose \/ WaitReturns \/ CloseDeadline
      BY <3>2 DEF Quiesce, StartClose, WaitReturns, CloseDeadline
    <3>. QED BY <2>5, <3>1, <3>2 DEF Close
  <2>6. ASSUME NEW e \in Editor, Edit(e) PROVE LiveRunReachable'
    BY <2>6 DEF Edit, BeginEdit, DeleteSession, EndEdit
  <2>. QED BY <2>1, <2>2, <2>3, <2>4, <2>5, <2>6 DEF Next
<1>. QED BY <1>1, <1>2, SlotInvHolds, PTL DEF Spec

-----------------------------------------------------------------------------
\* A session a request created is still answered for: its request has not
\* reached its refusal, or discarding the session failed.
FreshWhere ==
  \A r \in Request :
    Fresh(r) /\ r \in stored /\ r \notin orphaned =>
      stage[r] \in {"prepared", "validated", "discarding", "releasing", "ended"}
                     \cup RunStages

\* A refused request leaves no session behind that nobody will ever name,
\* except when deleting it failed.
THEOREM RefusalsLeaveNothing == Spec => []NoOrphanSession
<1>1. Init => FreshWhere
  BY IdentityAssumption DEF Init, FreshWhere, Fresh
<1>2. TypeOK /\ FreshWhere /\ [Next]_vars => FreshWhere'
  <2>. SUFFICES ASSUME TypeOK, FreshWhere, [Next]_vars PROVE FreshWhere'
    OBVIOUS
  <2>. USE DEF managerVars, runVars, sessionVars, Goto, TypeOK, FreshWhere, Fresh, RunStages
  <2>1. CASE UNCHANGED vars
    BY <2>1 DEF vars
  <2>2. ASSUME NEW r \in Request, Handler(r) PROVE FreshWhere'
    <3>1. CASE Reserve(r) \/ RefuseReserve(r) \/ Acquire(r) \/ RefuseBusy(r)
      BY <3>1 DEF Reserve, RefuseReserve, Acquire, RefuseBusy
    <3>2. CASE Resolve(r) \/ Discard(r)
      BY <3>2 DEF Resolve, Discard
    <3>3. CASE Prepare(r)
      BY <3>3 DEF Prepare
    <3>4. CASE Validate(r) \/ Activate(r)
      BY <3>4 DEF Validate, Activate, AfterPrepared
    <3>5. CASE ReleaseLease(r) \/ ReleaseReservation(r)
      BY <3>5 DEF ReleaseLease, ReleaseReservation
    <3>. QED BY <2>2, <3>1, <3>2, <3>3, <3>4, <3>5 DEF Handler
  <2>3. ASSUME NEW r \in Request, Run(r) PROVE FreshWhere'
    BY <2>3 DEF Run, FailEncoding, Return, Complete, FinishExecution, Abort, Timeout
  <2>4. ASSUME NEW r \in Request, Expiry(r) PROVE FreshWhere'
    BY <2>4 DEF Expiry, ExpireByTimer, ExpireByLifecycle, LeaveExpiry
  <2>5. CASE Close
    BY <2>5 DEF Close, Quiesce, StartClose, WaitReturns, ClearRuns, CloseDeadline
  <2>6. ASSUME NEW e \in Editor, Edit(e) PROVE FreshWhere'
    BY <2>6 DEF Edit, BeginEdit, DeleteSession, EndEdit
  <2>. QED BY <2>1, <2>2, <2>3, <2>4, <2>5, <2>6 DEF Next
<1>3. FreshWhere => NoOrphanSession
  BY DEF FreshWhere, NoOrphanSession, RunStages
<1>. QED BY <1>1, <1>2, <1>3, TypeCorrect, PTL DEF Spec
==============================================================================
