------------------------------- MODULE Nodelets -------------------------------
(***************************************************************************)
(* The fleet of remote hosts: NodeletManager (internal/nodelet/manager.go), *)
(* NodeletProber (internal/nodelet/prober.go) and the handlers that drive   *)
(* both (internal/api/nodelet_handlers.go).                                 *)
(*                                                                         *)
(* A configuration stands for the name, address and token of a nodelet.  A *)
(* client is one HTTP request, or the ProbeNow goroutine that a request    *)
(* starts when it has changed the fleet.  Whether a host answers only      *)
(* decides between healthy, unhealthy and dead; here a result is the       *)
(* configuration that was probed.                                          *)
(***************************************************************************)
EXTENDS Integers, FiniteSets

CONSTANTS Client,       \* concurrent requests and the goroutines they start
          Conf,         \* configurations
          Absent,       \* no nodelet, no configuration, no list
          MaxId         \* bound on the ids that are ever given

ASSUME AbsentAssumption ==
  /\ Absent \notin Conf \cup {"tick"} /\ "tick" \notin Client
  /\ MaxId \in Nat

Id == 1..MaxId

\* What NodeletManager.List returns, by id; entries a caller is through with
\* are Absent.
Lists  == [Id -> Conf \cup {Absent}]
NoList == [i \in Id |-> Absent]

VARIABLES
  fleet,    \* NodeletManager.config.Nodelets, by id
  saved,    \* the nodelets table of the runtime store
  counter,  \* NextCounter
  known,    \* the domain of NodeletProber.results
  from,     \* the configuration of the last result, Absent while unknown
  probe,    \* the probe of each nodelet in NodeletProber.probing
  at,       \* where each client stands
  spawned,  \* the clients that are goroutines of their own by now
  on,       \* the nodelet it is about
  conf,     \* the configuration ProbeNow found
  list,     \* what ProbeAll has still to visit
  tick,     \* what the current tick has still to visit
  looping,  \* loop() runs
  first,    \* initialProbe: what it has still to probe, and what it probes
  workers,  \* the counter of NodeletProber.workers
  stopper,  \* Stop()
  up        \* the process runs

managerVars == <<fleet, saved, counter>>
resultVars  == <<known, from>>
clientVars  == <<at, spawned, on, conf, list>>
workerVars  == <<tick, looping, first, workers>>
processVars == <<stopper, up>>
vars == <<managerVars, resultVars, probe, clientVars, workerVars, processVars>>

Present(l) == {i \in Id : l[i] # Absent}

NoProbe == [by |-> Absent, conf |-> Absent, answered |-> FALSE]
Probes  == {NoProbe} \cup [by : Client \cup {"tick"}, conf : Conf, answered : BOOLEAN]

\* initialProbe before, in and after its round.
FirstOf(rest) == [rest |-> rest, id |-> 0, conf |-> Absent, ended |-> FALSE]
Firsts == [rest : SUBSET Id, id : 0..MaxId, conf : Conf \cup {Absent}, ended : BOOLEAN]

Places == {"idle", "saved", "removed", "asking", "found", "probing", "waiting",
           "reading", "all"}

TypeOK ==
  /\ fleet \in Lists /\ saved \in Lists /\ counter \in 0..MaxId
  /\ known \subseteq Id /\ from \in Lists
  /\ probe \in [Id -> Probes]
  /\ at \in [Client -> Places] /\ spawned \subseteq Client /\ on \in [Client -> 0..MaxId]
  /\ conf \in [Client -> Conf \cup {Absent}] /\ list \in [Client -> Lists]
  /\ tick \in Lists /\ looping \in BOOLEAN /\ first \in Firsts /\ workers \in Nat
  /\ stopper \in {"running", "cancelled", "stopped"}
  /\ up \in BOOLEAN

\* maxNumericNodeletID
Highest(table) == CHOOSE n \in Present(table) \cup {0} : \A i \in Present(table) : i <= n

\* NewNodeletManagerWithRuntime, NewNodeletProber and Start, for any table that
\* an earlier process may have left: a restart is one of these states.
Init ==
  /\ saved \in Lists /\ fleet = saved /\ counter = Highest(saved)
  /\ known = Present(saved) /\ from = NoList
  /\ probe = [i \in Id |-> NoProbe]
  /\ at = [c \in Client |-> "idle"] /\ spawned = {} /\ on = [c \in Client |-> 0]
  /\ conf = [c \in Client |-> Absent] /\ list = [c \in Client |-> NoList]
  /\ tick = NoList /\ looping = TRUE /\ first = FirstOf(Present(saved)) /\ workers = 2
  /\ stopper = "running" /\ up = TRUE

-----------------------------------------------------------------------------
(* Requests that change the fleet.  The list in memory is changed first and  *)
(* stays changed when the save fails.                                        *)

\* Another nodelet has the name.
Taken(i, f) == \E j \in Id \ {i} : fleet[j] = f

\* The request goes on to place to for nodelet i once the table is replaced,
\* and answers with an error when that fails.
SaveAs(c, i, to) ==
  \/ /\ saved' = fleet'
     /\ at' = [at EXCEPT ![c] = to] /\ on' = [on EXCEPT ![c] = i]
  \/ UNCHANGED <<saved, at, on>>

Add(c, f) ==
  /\ at[c] = "idle" /\ counter < MaxId
  /\ LET i == counter + 1
     IN /\ ~Taken(i, f)
        /\ counter' = i
        /\ fleet' = [fleet EXCEPT ![i] = f]
        /\ SaveAs(c, i, "saved")
  /\ UNCHANGED <<resultVars, probe, spawned, conf, list, workerVars, processVars>>

Update(c, i, f) ==
  /\ at[c] = "idle" /\ fleet[i] # Absent /\ ~Taken(i, f)
  /\ fleet' = [fleet EXCEPT ![i] = f]
  /\ SaveAs(c, i, "saved")
  /\ UNCHANGED <<counter, resultVars, probe, spawned, conf, list, workerVars, processVars>>

Remove(c, i) ==
  /\ at[c] = "idle" /\ fleet[i] # Absent
  /\ fleet' = [fleet EXCEPT ![i] = Absent]
  /\ SaveAs(c, i, "removed")
  /\ UNCHANGED <<counter, resultVars, probe, spawned, conf, list, workerVars, processVars>>

\* Faulty variant: only the nodelet of the request is looked at.
OnConfigChangeOnly(c) ==
  /\ known' = IF fleet[on[c]] = Absent THEN known \ {on[c]} ELSE known
  /\ from'  = [i \in Id |-> IF i \in known' THEN from[i] ELSE Absent]

\* OnConfigChange reads the fleet while it holds the lock of the results.
OnConfigChange(c) ==
  /\ known' = Present(fleet)
  /\ from'  = [i \in Id |-> IF i \in known' THEN from[i] ELSE Absent]

\* The client goes on at a place of the handler or of ProbeNow.
Goto(c, place) == at' = [at EXCEPT ![c] = place] /\ UNCHANGED <<spawned, on>>

\* The request or goroutine returns.
Done(c) ==
  /\ at' = [at EXCEPT ![c] = "idle"] /\ spawned' = spawned \ {c} /\ on' = [on EXCEPT ![c] = 0]

\* The end of the handler, which starts a ProbeNow for a nodelet it has saved.
Notify(c) ==
  /\ \/ /\ at[c] = "saved"
        /\ at' = [at EXCEPT ![c] = "asking"] /\ spawned' = spawned \cup {c} /\ UNCHANGED on
     \/ at[c] = "removed" /\ Done(c)
  /\ OnConfigChange(c)
  /\ UNCHANGED <<managerVars, probe, conf, list, workerVars, processVars>>

-----------------------------------------------------------------------------
(* ProbeNow: a request, or the goroutine that a request has started.         *)

Find(c, i) ==
  /\ at[c] = "idle" \/ (at[c] = "asking" /\ on[c] = i)
  /\ IF fleet[i] = Absent
     THEN Done(c) /\ UNCHANGED conf
     ELSE /\ at' = [at EXCEPT ![c] = "found"] /\ UNCHANGED spawned
          /\ on' = [on EXCEPT ![c] = i] /\ conf' = [conf EXCEPT ![c] = fleet[i]]
  /\ UNCHANGED <<managerVars, resultVars, probe, list, workerVars, processVars>>

Marked(i, owner, f) ==
  probe' = [probe EXCEPT ![i] = [by |-> owner, conf |-> f, answered |-> FALSE]]

\* The probe that is under way is waited for, whatever it asks.
Mark(c) ==
  /\ at[c] = "found"
  /\ IF probe[on[c]] = NoProbe
     THEN Marked(on[c], c, conf[c]) /\ Goto(c, "probing")
     ELSE UNCHANGED probe /\ Goto(c, "waiting")
  /\ conf' = [conf EXCEPT ![c] = Absent]
  /\ UNCHANGED <<managerVars, resultVars, list, workerVars, processVars>>

Wake(c) ==
  /\ at[c] = "waiting" /\ probe[on[c]] = NoProbe
  /\ Goto(c, "reading")
  /\ UNCHANGED <<managerVars, resultVars, probe, conf, list, workerVars, processVars>>

\* StatusByID gives nil for a nodelet that was removed meanwhile, which ProbeNow
\* follows: net/http recovers a request, and nobody recovers a goroutine.
Read(c) ==
  /\ at[c] = "reading"
  /\ Done(c)
  /\ up' = (on[c] \in known \/ c \notin spawned)
  /\ UNCHANGED <<managerVars, resultVars, probe, conf, list, workerVars, stopper>>

(* ProbeAll: every nodelet of the list that no one else probes.              *)

ProbeAll(c) ==
  /\ at[c] = "idle"
  /\ Goto(c, "all") /\ list' = [list EXCEPT ![c] = fleet]
  /\ UNCHANGED <<managerVars, resultVars, probe, conf, workerVars, processVars>>

VisitOfAll(c, i) ==
  /\ list[c][i] # Absent
  /\ list' = [list EXCEPT ![c][i] = Absent]
  /\ IF probe[i] = NoProbe THEN Marked(i, c, list[c][i]) ELSE UNCHANGED probe
  /\ UNCHANGED <<managerVars, resultVars, at, spawned, on, conf, workerVars, processVars>>

AllProbed(c) ==
  /\ at[c] = "all" /\ list[c] = NoList /\ \A i \in Id : probe[i].by # c
  /\ Done(c)
  /\ UNCHANGED <<managerVars, resultVars, probe, conf, list, workerVars, processVars>>

-----------------------------------------------------------------------------
(* probeOne ends with applyResult, which makes an entry for a nodelet that    *)
(* has none; the deferred calls take the mark away and wake who waits.       *)

ApplyResult(i, f) ==
  /\ known' = known \cup {i} /\ from' = [from EXCEPT ![i] = f]

Answer(i) ==
  /\ probe[i] # NoProbe /\ ~probe[i].answered
  /\ ApplyResult(i, probe[i].conf)
  /\ probe' = [probe EXCEPT ![i].answered = TRUE]
  /\ UNCHANGED <<managerVars, clientVars, workerVars, processVars>>

\* Faulty variant: the mark is only taken away for the background probes.
UnmarkTick(i) ==
  /\ probe[i].answered /\ probe[i].by = "tick"
  /\ probe' = [probe EXCEPT ![i] = NoProbe]
  /\ workers' = workers - 1
  /\ UNCHANGED <<managerVars, resultVars, clientVars, tick, looping, first, processVars>>

\* workers.Done follows at once for a probe of the loop, and the return of
\* ProbeNow for one of a client.
Unmark(i) ==
  /\ probe[i].answered
  /\ probe' = [probe EXCEPT ![i] = NoProbe]
  /\ LET owner == probe[i].by
     IN IF owner = "tick"
        THEN workers' = workers - 1 /\ UNCHANGED <<at, spawned, on>>
        ELSE /\ UNCHANGED workers
             /\ IF at[owner] = "probing" THEN Done(owner) ELSE UNCHANGED <<at, spawned, on>>
  /\ UNCHANGED <<managerVars, resultVars, conf, list, tick, looping, first, processVars>>

-----------------------------------------------------------------------------
(* The background: the loop with its ticks and the first round.              *)

BeginTick ==
  /\ looping /\ stopper = "running" /\ tick = NoList
  /\ tick' = fleet
  /\ UNCHANGED <<managerVars, resultVars, probe, clientVars, looping, first, workers, processVars>>

\* Faulty variant: the probe is not counted.
VisitUncounted(i) ==
  /\ tick[i] # Absent /\ i \in known /\ probe[i] = NoProbe
  /\ tick' = [tick EXCEPT ![i] = Absent]
  /\ Marked(i, "tick", tick[i])
  /\ UNCHANGED <<managerVars, resultVars, clientVars, looping, first, workers, processVars>>

\* The last probe of the nodelet is an interval ago.
VisitDue(i) ==
  /\ tick[i] # Absent /\ i \in known /\ probe[i] = NoProbe
  /\ tick' = [tick EXCEPT ![i] = Absent]
  /\ Marked(i, "tick", tick[i]) /\ workers' = workers + 1
  /\ UNCHANGED <<managerVars, resultVars, clientVars, looping, first, processVars>>

\* It is not, or the nodelet has no entry or is being probed.
Pass(i) ==
  /\ tick[i] # Absent
  /\ tick' = [tick EXCEPT ![i] = Absent]
  /\ UNCHANGED <<managerVars, resultVars, probe, clientVars, looping, first, workers, processVars>>

EndLoop ==
  /\ looping /\ stopper # "running" /\ tick = NoList
  /\ looping' = FALSE /\ workers' = workers - 1
  /\ UNCHANGED <<managerVars, resultVars, probe, clientVars, tick, first, processVars>>

\* initialProbe goes through the nodelets known at the start, one at a time,
\* and sets no mark.
FirstFind(i) ==
  /\ i \in first.rest /\ first.id = 0 /\ stopper = "running"
  /\ first' = [first EXCEPT !.rest = @ \ {i}, !.id = IF fleet[i] = Absent THEN 0 ELSE i,
                            !.conf = fleet[i]]
  /\ UNCHANGED <<managerVars, resultVars, probe, clientVars, tick, looping, workers, processVars>>

FirstAnswer ==
  /\ first.id # 0
  /\ ApplyResult(first.id, first.conf)
  /\ first' = FirstOf(first.rest)
  /\ UNCHANGED <<managerVars, probe, clientVars, tick, looping, workers, processVars>>

EndFirst ==
  /\ first.id = 0 /\ ~first.ended /\ (first.rest = {} \/ stopper # "running")
  /\ first' = [FirstOf({}) EXCEPT !.ended = TRUE] /\ workers' = workers - 1
  /\ UNCHANGED <<managerVars, resultVars, probe, clientVars, tick, looping, processVars>>

\* Stop: the lifecycle ends, and the workers are waited for.  The server lets no
\* request in any more and has waited for those that were in (closeResources).
Stop ==
  /\ stopper = "running" /\ stopper' = "cancelled"
  /\ \A c \in Client : at[c] = "idle" \/ c \in spawned
  /\ UNCHANGED <<managerVars, resultVars, probe, clientVars, workerVars, up>>

StopReturns ==
  /\ stopper = "cancelled" /\ workers = 0 /\ stopper' = "stopped"
  /\ UNCHANGED <<managerVars, resultVars, probe, clientVars, workerVars, up>>

-----------------------------------------------------------------------------
Request(c) ==
  /\ stopper = "running"
  /\ \/ \E f \in Conf : Add(c, f) \/ \E i \in Id : Update(c, i, f)
     \/ \E i \in Id : Remove(c, i)
     \/ ProbeAll(c)
     \/ \E i \in Id : at[c] = "idle" /\ Find(c, i)

\* What a client does once it has begun.
ClientStep(c) ==
  \/ Notify(c) \/ Mark(c) \/ Read(c) \/ AllProbed(c)
  \/ \E i \in Id : (at[c] = "asking" /\ Find(c, i)) \/ VisitOfAll(c, i)

ProbeStep(i) == Answer(i) \/ Unmark(i)

WorkerStep ==
  \/ BeginTick \/ EndLoop \/ FirstAnswer \/ EndFirst \/ StopReturns
  \/ \E i \in Id : VisitDue(i) \/ Pass(i) \/ FirstFind(i)

Next ==
  /\ up
  /\ \/ \E c \in Client : Request(c) \/ ClientStep(c) \/ Wake(c)
     \/ \E i \in Id : ProbeStep(i)
     \/ WorkerStep \/ Stop

Spec == Init /\ [][Next]_vars

\* The goroutines run on: a probe ends after five seconds at the latest, and in
\* the ticks, every five seconds, an interval of one or ten minutes is over again
\* and again.  Nobody has to send a request or stop the process.
FairSpec ==
  /\ Spec
  /\ \A c \in Client : WF_vars(up /\ ClientStep(c))
  /\ \A i \in Id : WF_vars(up /\ ProbeStep(i)) /\ SF_vars(up /\ VisitDue(i))
  /\ WF_vars(up /\ (BeginTick \/ EndLoop \/ \E i \in Id : VisitDue(i) \/ Pass(i)))
  /\ WF_vars(up /\ (FirstAnswer \/ EndFirst \/ \E i \in Id : FirstFind(i)))
  /\ WF_vars(up /\ StopReturns)

-----------------------------------------------------------------------------
(* Properties. *)

\* Two requests change the fleet and the results under two locks, and a save
\* that fails leaves the fleet changed; still, when no request is on its way
\* from the one to the other (handleNodeletAdd, -Update, -Remove), each nodelet
\* that is in use and stored has an entry, without which no tick would probe it.
StoredNodeletsAreProbed ==
  (\A c \in Client : at[c] \notin {"saved", "removed"})
    => Present(fleet) \cap Present(saved) \subseteq known

\* Stop returns when the loop, the first round and every probe of a tick have
\* ended; the counter is exact, so that it neither waits for ever nor returns
\* early (nor panics below zero, which the type excludes).
StopIsExact ==
  /\ TypeOK
  /\ workers = Cardinality({i \in Id : probe[i].by = "tick"})
                 + (IF looping THEN 1 ELSE 0) + (IF first.ended THEN 0 ELSE 1)
  /\ stopper = "stopped" => workers = 0

\* What is shown of a nodelet is not about its present configuration.
Stale(i) ==
  i \in Present(fleet) \cap known /\ from[i] # fleet[i] /\ up /\ stopper = "running"

\* Once the fleet is left alone the status of each nodelet comes from its present
\* configuration, whatever older probes end late, are waited for instead of a new
\* one, or bring back the entry of a nodelet that was removed; and Stop returns.
ProbesSettle ==
  /\ <>[][UNCHANGED fleet]_vars => \A i \in Id : []<>~Stale(i)
  /\ stopper = "cancelled" ~> (stopper # "cancelled" \/ ~up)
===============================================================================
