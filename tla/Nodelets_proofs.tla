---------------------------- MODULE Nodelets_proofs ----------------------------
(***************************************************************************)
(* Proofs about Nodelets for every set of clients and configurations and    *)
(* every number of ids: each nodelet in use and stored has an entry for the *)
(* prober, and the counter of the prober's workers is exact, so that Stop   *)
(* returns when they have ended and not before.                             *)
(***************************************************************************)
EXTENDS Nodelets, FiniteSetTheorems, WellFoundedInduction, TLAPS

Ticked == {i \in Id : probe[i].by = "tick"}

\* What is true of one client: a nodelet that ProbeNow has found was there.
ClientOK(c) == at[c] = "found" => on[c] \in Id /\ conf[c] \in Conf

\* The first round names what it probes, and nothing once it is over; a tick is
\* under way in the loop only.
BackgroundOK ==
  /\ first.id # 0 => first.conf \in Conf
  /\ first.ended => first.id = 0 /\ first.rest = {}
  /\ ~looping => tick = NoList

\* Ids are given in ascending order, so a new nodelet is stored nowhere yet.
IdsGiven == \A i \in Id : fleet[i] # Absent \/ saved[i] # Absent => i <= counter

NodeletsInv ==
  /\ StopIsExact /\ StoredNodeletsAreProbed
  /\ \A c \in Client : ClientOK(c)
  /\ BackgroundOK /\ IdsGiven

-----------------------------------------------------------------------------
\* The probes of the ticks can be counted.
LEMMA TickedCounts ==
  ASSUME TypeOK
  PROVE  /\ IsFiniteSet(Ticked) /\ Cardinality(Ticked) \in Nat
         /\ IsFiniteSet(Ticked)' /\ Cardinality(Ticked') \in Nat
<1>1. IsFiniteSet(Id)
  BY AbsentAssumption, FS_Interval DEF Id
<1>2. Ticked \subseteq Id /\ Ticked' \subseteq Id
  BY DEF Ticked
<1>3. IsFiniteSet(Ticked) /\ IsFiniteSet(Ticked')
  BY <1>1, <1>2, FS_Subset
<1>. QED BY <1>3, FS_CardinalityType

Probing(owner, f) == [by |-> owner, conf |-> f, answered |-> FALSE]

\* A mark of a client leaves the probes of the ticks alone, one of a tick adds to
\* them.
LEMMA MarkedProbe ==
  ASSUME TypeOK, NEW i \in Id, NEW owner \in Client \cup {"tick"}, NEW f \in Conf,
         probe[i] = NoProbe, Marked(i, owner, f)
  PROVE  /\ probe' \in [Id -> Probes]
         /\ owner # "tick" => Ticked' = Ticked
         /\ owner = "tick" => Cardinality(Ticked') = Cardinality(Ticked) + 1
<1>1. probe \in [Id -> Probes] /\ probe' = [probe EXCEPT ![i] = Probing(owner, f)]
  BY DEF TypeOK, Marked, Probing
<1>2. Probing(owner, f) \in Probes /\ Probing(owner, f).by = owner
  BY DEF Probing, Probes
<1>3. probe[i].by # "tick"
  BY AbsentAssumption DEF NoProbe
<1>4. probe' \in [Id -> Probes]
  BY <1>1, <1>2
<1>5. probe'[i].by = owner /\ \A j \in Id : j # i => probe'[j] = probe[j]
  BY <1>1, <1>2
<1>6. owner # "tick" => Ticked' = Ticked
  BY <1>3, <1>5 DEF Ticked
<1>7. owner = "tick" => Cardinality(Ticked') = Cardinality(Ticked) + 1
  <2>1. i \notin Ticked
    BY <1>3 DEF Ticked
  <2>2. owner = "tick" => Ticked' = Ticked \cup {i}
    BY <1>5 DEF Ticked
  <2>3. IsFiniteSet(Ticked)
    BY TickedCounts
  <2>4. Cardinality(Ticked \cup {i}) = Cardinality(Ticked) + 1
    BY <2>1, <2>3, FS_AddElement
  <2>. QED BY <2>2, <2>4
<1>. QED BY <1>4, <1>6, <1>7

\* What a step of a client leaves true when it is no change of the fleet.
LEMMA ClientMoves ==
  ASSUME NodeletsInv, NEW c \in Client, NEW place \in Places, NEW i \in 0 .. MaxId,
         at' = [at EXCEPT ![c] = place], on' = [on EXCEPT ![c] = i], spawned' \subseteq Client,
         conf' \in [Client -> Conf \cup {Absent}], \A d \in Client : d # c => conf'[d] = conf[d],
         place = "found" => i \in Id /\ conf'[c] \in Conf,
         list' \in [Client -> Lists],
         UNCHANGED managerVars, UNCHANGED workerVars, UNCHANGED stopper,
         known' \subseteq Id, from' \in Lists,
         \/ (at[c] \notin {"saved", "removed"} \/ at[c] = place) /\ known \subseteq known'
         \/ Present(fleet) \subseteq known',
         probe' \in [Id -> Probes], Ticked' = Ticked, up' \in BOOLEAN
  PROVE  NodeletsInv'
<1>. USE DEF managerVars, workerVars
<1>1. TypeOK
  BY DEF NodeletsInv, StopIsExact
<1>2. at \in [Client -> Places] /\ on \in [Client -> 0 .. MaxId]
  BY <1>1 DEF TypeOK
<1>3. at' \in [Client -> Places] /\ on' \in [Client -> 0 .. MaxId]
  BY <1>2
<1>4. TypeOK'
  BY <1>1, <1>3 DEF TypeOK
<1>5. StopIsExact'
  BY <1>4 DEF NodeletsInv, StopIsExact, Ticked
<1>6. StoredNodeletsAreProbed'
  <2>1. Present(fleet)' = Present(fleet) /\ Present(saved)' = Present(saved)
    BY DEF Present
  <2>2. CASE Present(fleet) \subseteq known'
    BY <2>1, <2>2 DEF StoredNodeletsAreProbed
  <2>3. CASE (at[c] \notin {"saved", "removed"} \/ at[c] = place) /\ known \subseteq known'
    <3>1. \A d \in Client : at'[d] \notin {"saved", "removed"} => at[d] \notin {"saved", "removed"}
      BY <1>2, <2>3
    <3>2. StoredNodeletsAreProbed
      BY DEF NodeletsInv
    <3>. QED BY <2>1, <2>3, <3>1, <3>2 DEF StoredNodeletsAreProbed
  <2>. QED BY <2>2, <2>3
<1>7. ASSUME NEW d \in Client PROVE ClientOK(d)'
  <2>1. CASE d = c
    BY <1>2, <2>1 DEF ClientOK
  <2>2. CASE d # c
    <3>1. at'[d] = at[d] /\ on'[d] = on[d] /\ conf'[d] = conf[d]
      BY <1>2, <2>2
    <3>2. ClientOK(d)
      BY DEF NodeletsInv
    <3>. QED BY <3>1, <3>2 DEF ClientOK
  <2>. QED BY <2>1, <2>2
<1>8. BackgroundOK' /\ IdsGiven'
  BY DEF NodeletsInv, BackgroundOK, IdsGiven
<1>. QED BY <1>5, <1>6, <1>7, <1>8 DEF NodeletsInv

\* What a step of the prober leaves true.
LEMMA ProberMoves ==
  ASSUME NodeletsInv, UNCHANGED managerVars, UNCHANGED clientVars, UNCHANGED up,
         known \subseteq known', known' \subseteq Id, from' \in Lists,
         probe' \in [Id -> Probes], tick' \in Lists, looping' \in BOOLEAN, first' \in Firsts,
         BackgroundOK', workers' \in Nat, stopper' \in {"running", "cancelled", "stopped"},
         workers' = Cardinality(Ticked') + (IF looping' THEN 1 ELSE 0) + (IF first'.ended THEN 0 ELSE 1),
         stopper' = "stopped" => workers' = 0
  PROVE  NodeletsInv'
<1>. USE DEF managerVars, clientVars
<1>1. TypeOK'
  BY DEF NodeletsInv, StopIsExact, TypeOK
<1>2. StopIsExact'
  BY <1>1 DEF StopIsExact, Ticked
<1>3. StoredNodeletsAreProbed'
  <2>1. Present(fleet)' = Present(fleet) /\ Present(saved)' = Present(saved)
    BY DEF Present
  <2>. QED BY <2>1 DEF NodeletsInv, StoredNodeletsAreProbed
<1>4. (\A c \in Client : ClientOK(c))' /\ IdsGiven'
  BY DEF NodeletsInv, ClientOK, IdsGiven
<1>. QED BY <1>2, <1>3, <1>4 DEF NodeletsInv

\* A change of the fleet: the entry of what is stored follows with the same
\* request.
LEMMA FleetChanged ==
  ASSUME NodeletsInv, NEW c \in Client, at[c] = "idle",
         NEW j \in Id, NEW v \in Conf \cup {Absent}, NEW to \in {"saved", "removed"},
         fleet' = [fleet EXCEPT ![j] = v], SaveAs(c, j, to),
         v # Absent /\ saved[j] # Absent => fleet[j] # Absent,
         counter' \in 0 .. MaxId, counter <= counter', v # Absent => j <= counter',
         UNCHANGED <<resultVars, probe, spawned, conf, list, workerVars, processVars>>
  PROVE  NodeletsInv'
<1>. USE DEF clientVars, workerVars, resultVars, processVars
<1>1. /\ TypeOK /\ IdsGiven /\ BackgroundOK /\ \A d \in Client : ClientOK(d)
      /\ at \in [Client -> Places] /\ on \in [Client -> 0 .. MaxId] /\ fleet \in Lists /\ saved \in Lists
      /\ counter \in 0 .. MaxId /\ MaxId \in Nat
  BY AbsentAssumption DEF NodeletsInv, StopIsExact, TypeOK
<1>2. /\ fleet' \in Lists
      /\ \A k \in Id : /\ k # j => fleet'[k] = fleet[k]
                       /\ k = j => fleet'[k] = v
  BY <1>1 DEF Lists
<1>3. \/ /\ saved' = fleet' /\ at' = [at EXCEPT ![c] = to] /\ on' = [on EXCEPT ![c] = j]
      \/ saved' = saved /\ at' = at /\ on' = on
  BY DEF SaveAs
<1>4. /\ saved' \in Lists /\ at' \in [Client -> Places] /\ on' \in [Client -> 0 .. MaxId]
      /\ \A d \in Client : at'[d] = "found" => at[d] = "found" /\ on'[d] = on[d]
  <2>1. CASE saved' = fleet' /\ at' = [at EXCEPT ![c] = to] /\ on' = [on EXCEPT ![c] = j]
    <3>1. to \in Places /\ j \in 0 .. MaxId /\ to # "found"
      BY <1>1 DEF Places, Id
    <3>2. at' \in [Client -> Places] /\ on' \in [Client -> 0 .. MaxId]
      BY <1>1, <2>1, <3>1
    <3>3. ASSUME NEW d \in Client, at'[d] = "found" PROVE at[d] = "found" /\ on'[d] = on[d]
      BY <1>1, <2>1, <3>1, <3>3
    <3>. QED BY <1>2, <2>1, <3>2, <3>3
  <2>2. CASE saved' = saved /\ at' = at /\ on' = on
    BY <1>1, <2>2
  <2>. QED BY <1>3, <2>1, <2>2
<1>5. TypeOK'
  BY <1>1, <1>2, <1>4 DEF TypeOK
<1>6. StopIsExact'
  BY <1>5 DEF NodeletsInv, StopIsExact
<1>7. StoredNodeletsAreProbed'
  <2>1. CASE saved' = fleet' /\ at' = [at EXCEPT ![c] = to]
    <3>1. at'[c] \in {"saved", "removed"}
      BY <1>1, <2>1
    <3>. QED BY <3>1 DEF StoredNodeletsAreProbed
  <2>2. CASE saved' = saved /\ at' = at
    <3>1. Present(fleet') \cap Present(saved') \subseteq Present(fleet) \cap Present(saved)
      BY <1>2, <2>2 DEF Present
    <3>2. known' = known /\ StoredNodeletsAreProbed
      BY DEF NodeletsInv
    <3>. QED BY <2>2, <3>1, <3>2 DEF StoredNodeletsAreProbed
  <2>. QED BY <1>3, <2>1, <2>2
<1>8. ASSUME NEW d \in Client PROVE ClientOK(d)'
  BY <1>1, <1>4 DEF ClientOK
<1>9. BackgroundOK'
  BY <1>1 DEF BackgroundOK
<1>10. IdsGiven'
  <2>. SUFFICES ASSUME NEW k \in Id, fleet'[k] # Absent \/ saved'[k] # Absent PROVE k <= counter'
    BY DEF IdsGiven
  <2>1. (fleet[k] # Absent \/ saved[k] # Absent) => k <= counter
    BY <1>1 DEF IdsGiven
  <2>2. k \in Nat /\ counter \in Nat /\ counter' \in Nat
    BY <1>1 DEF Id
  <2>3. CASE k = j
    <3>1. fleet'[j] = v
      BY <1>2
    <3>2. v # Absent => k <= counter'
      BY <2>3
    <3>3. v = Absent => saved[k] # Absent
      BY <1>3, <2>3, <3>1
    <3>. QED BY <2>1, <2>2, <3>2, <3>3
  <2>4. CASE k # j
    <3>1. fleet'[k] = fleet[k] /\ (saved'[k] = fleet[k] \/ saved'[k] = saved[k])
      BY <1>2, <1>3, <2>4
    <3>. QED BY <2>1, <2>2, <3>1
  <2>. QED BY <2>3, <2>4
<1>. QED BY <1>6, <1>7, <1>8, <1>9, <1>10 DEF NodeletsInv

\* Adding, changing and removing a nodelet.
LEMMA FleetMoves ==
  ASSUME NodeletsInv, NEW c \in Client,
         \/ \E f \in Conf : Add(c, f) \/ \E i \in Id : Update(c, i, f)
         \/ \E i \in Id : Remove(c, i)
  PROVE  NodeletsInv'
<1>1. IdsGiven /\ counter \in 0 .. MaxId /\ MaxId \in Nat
  BY AbsentAssumption DEF NodeletsInv, StopIsExact, TypeOK
<1>2. ASSUME NEW f \in Conf, Add(c, f) PROVE NodeletsInv'
  <2>. DEFINE k == counter + 1
  <2>1. /\ at[c] = "idle" /\ counter < MaxId /\ counter' = k
        /\ fleet' = [fleet EXCEPT ![k] = f] /\ SaveAs(c, k, "saved")
        /\ UNCHANGED <<resultVars, probe, spawned, conf, list, workerVars, processVars>>
    BY <1>2 DEF Add
  <2>2. k \in Id /\ k \in 0 .. MaxId /\ ~(k <= counter) /\ counter <= counter' /\ k <= counter'
    BY <1>1, <2>1 DEF Id
  <2>3. saved[k] = Absent
    BY <1>1, <2>2 DEF IdsGiven
  <2>4. counter' \in 0 .. MaxId
    BY <2>1, <2>2
  <2>. HIDE DEF k
  <2>. QED BY <2>1, <2>2, <2>3, <2>4, FleetChanged
<1>3. ASSUME NEW f \in Conf, NEW i \in Id, Update(c, i, f) PROVE NodeletsInv'
  <2>1. /\ at[c] = "idle" /\ fleet[i] # Absent /\ counter' = counter
        /\ fleet' = [fleet EXCEPT ![i] = f] /\ SaveAs(c, i, "saved")
        /\ UNCHANGED <<resultVars, probe, spawned, conf, list, workerVars, processVars>>
    BY <1>3 DEF Update
  <2>2. counter' \in 0 .. MaxId /\ counter <= counter' /\ i <= counter'
    BY <1>1, <2>1 DEF IdsGiven
  <2>. QED BY <2>1, <2>2, FleetChanged
<1>4. ASSUME NEW i \in Id, Remove(c, i) PROVE NodeletsInv'
  <2>1. /\ at[c] = "idle" /\ counter' = counter
        /\ fleet' = [fleet EXCEPT ![i] = Absent] /\ SaveAs(c, i, "removed")
        /\ UNCHANGED <<resultVars, probe, spawned, conf, list, workerVars, processVars>>
    BY <1>4 DEF Remove
  <2>2. counter' \in 0 .. MaxId /\ counter <= counter'
    BY <1>1, <2>1
  <2>. QED BY <2>1, <2>2, FleetChanged
<1>. QED BY <1>2, <1>3, <1>4

-----------------------------------------------------------------------------
\* The steps of the handlers and of ProbeNow.
LEMMA Returns ==
  ASSUME NodeletsInv, NEW c \in Client, Done(c), UNCHANGED <<managerVars, probe, workerVars>>,
         UNCHANGED stopper, conf' = conf, list' = list,
         known' \subseteq Id, from' \in Lists, up' \in BOOLEAN,
         \/ at[c] \notin {"saved", "removed"} /\ known \subseteq known'
         \/ Present(fleet) \subseteq known'
  PROVE  NodeletsInv'
<1>1. TypeOK /\ MaxId \in Nat
  BY AbsentAssumption DEF NodeletsInv, StopIsExact
<1>2. /\ at' = [at EXCEPT ![c] = "idle"] /\ on' = [on EXCEPT ![c] = 0] /\ spawned' \subseteq Client
      /\ "idle" \in Places /\ 0 \in 0 .. MaxId /\ "idle" # "found"
  BY <1>1 DEF Done, TypeOK, Places
<1>3. /\ conf' \in [Client -> Conf \cup {Absent}] /\ list' \in [Client -> Lists]
      /\ \A d \in Client : d # c => conf'[d] = conf[d]
  BY <1>1 DEF TypeOK
<1>4. /\ UNCHANGED managerVars /\ UNCHANGED workerVars /\ UNCHANGED stopper
      /\ probe' \in [Id -> Probes] /\ Ticked' = Ticked
  BY <1>1 DEF TypeOK, Ticked
<1>. QED BY <1>2, <1>3, <1>4, ClientMoves

LEMMA Goes ==
  ASSUME NodeletsInv, NEW c \in Client, NEW place \in Places, Goto(c, place),
         UNCHANGED <<managerVars, resultVars, workerVars, processVars>>,
         conf' \in [Client -> Conf \cup {Absent}], \A d \in Client : d # c => conf'[d] = conf[d],
         list' \in [Client -> Lists], at[c] \notin {"saved", "removed"}, place # "found",
         probe' \in [Id -> Probes], Ticked' = Ticked
  PROVE  NodeletsInv'
<1>1. TypeOK
  BY DEF NodeletsInv, StopIsExact
<1>2. at' = [at EXCEPT ![c] = place] /\ spawned' = spawned /\ on' = on
  BY DEF Goto
<1>3. on[c] \in 0 .. MaxId /\ on' = [on EXCEPT ![c] = on[c]] /\ spawned' \subseteq Client
  BY <1>1, <1>2 DEF TypeOK
<1>4. /\ UNCHANGED managerVars /\ UNCHANGED workerVars /\ UNCHANGED stopper
      /\ known \subseteq known' /\ known' \subseteq Id /\ from' \in Lists /\ up' \in BOOLEAN
  BY <1>1 DEF TypeOK, resultVars, processVars
<1>. QED BY <1>2, <1>3, <1>4, ClientMoves

LEMMA NotifyMoves ==
  ASSUME NodeletsInv, NEW c \in Client, Notify(c)
  PROVE  NodeletsInv'
<1>1. TypeOK
  BY DEF NodeletsInv, StopIsExact
<1>2. /\ known' \subseteq Id /\ from' \in Lists /\ Present(fleet) \subseteq known'
      /\ UNCHANGED <<managerVars, probe, workerVars>> /\ UNCHANGED stopper /\ UNCHANGED up
      /\ conf' = conf /\ list' = list
  BY <1>1 DEF Notify, OnConfigChange, Present, Lists, TypeOK, processVars
<1>3. up' \in BOOLEAN
  BY <1>1, <1>2 DEF TypeOK
<1>4. CASE Done(c)
  BY <1>2, <1>3, <1>4, Returns
<1>5. CASE at' = [at EXCEPT ![c] = "asking"] /\ spawned' = spawned \cup {c} /\ UNCHANGED on
  <2>1. /\ "asking" \in Places /\ "asking" # "found" /\ spawned' \subseteq Client
        /\ on[c] \in 0 .. MaxId /\ on' = [on EXCEPT ![c] = on[c]]
    BY <1>1, <1>5 DEF TypeOK, Places
  <2>2. /\ conf' \in [Client -> Conf \cup {Absent}] /\ list' \in [Client -> Lists]
        /\ \A d \in Client : d # c => conf'[d] = conf[d]
    BY <1>1, <1>2 DEF TypeOK
  <2>3. /\ UNCHANGED managerVars /\ UNCHANGED workerVars
        /\ probe' \in [Id -> Probes] /\ Ticked' = Ticked
    BY <1>1, <1>2 DEF TypeOK, Ticked
  <2>. QED BY <1>2, <1>3, <1>5, <2>1, <2>2, <2>3, ClientMoves
<1>. QED BY <1>4, <1>5 DEF Notify

LEMMA FindMoves ==
  ASSUME NodeletsInv, NEW c \in Client, NEW i \in Id, Find(c, i)
  PROVE  NodeletsInv'
<1>1. TypeOK
  BY DEF NodeletsInv, StopIsExact
<1>2. /\ UNCHANGED <<managerVars, probe, workerVars>> /\ UNCHANGED stopper
      /\ known' \subseteq Id /\ from' \in Lists /\ up' \in BOOLEAN /\ known \subseteq known'
      /\ list' = list /\ at[c] \notin {"saved", "removed"}
  BY <1>1 DEF Find, TypeOK, resultVars, processVars
<1>3. CASE fleet[i] = Absent
  <2>1. Done(c) /\ conf' = conf
    BY <1>3 DEF Find
  <2>. QED BY <1>2, <2>1, Returns
<1>4. CASE fleet[i] # Absent
  <2>1. /\ at' = [at EXCEPT ![c] = "found"] /\ spawned' = spawned
        /\ on' = [on EXCEPT ![c] = i] /\ conf' = [conf EXCEPT ![c] = fleet[i]]
    BY <1>4 DEF Find
  <2>2. "found" \in Places /\ i \in 0 .. MaxId /\ spawned' \subseteq Client
    BY <1>1, <2>1 DEF TypeOK, Places, Id
  <2>3. fleet[i] \in Conf
    BY <1>1, <1>4 DEF TypeOK, Lists
  <2>4. /\ conf' \in [Client -> Conf \cup {Absent}] /\ conf'[c] \in Conf
        /\ \A d \in Client : d # c => conf'[d] = conf[d]
    BY <1>1, <2>1, <2>3 DEF TypeOK
  <2>5. /\ UNCHANGED managerVars /\ UNCHANGED workerVars
        /\ probe' \in [Id -> Probes] /\ Ticked' = Ticked /\ list' \in [Client -> Lists]
    BY <1>1, <1>2 DEF TypeOK, Ticked
  <2>. QED BY <1>2, <2>1, <2>2, <2>4, <2>5, ClientMoves
<1>. QED BY <1>3, <1>4

LEMMA MarkMoves ==
  ASSUME NodeletsInv, NEW c \in Client, Mark(c)
  PROVE  NodeletsInv'
<1>1. TypeOK /\ ClientOK(c) /\ at[c] = "found"
  BY DEF NodeletsInv, StopIsExact, Mark
<1>2. on[c] \in Id /\ conf[c] \in Conf
  BY <1>1 DEF ClientOK
<1>3. /\ UNCHANGED <<managerVars, resultVars, workerVars, processVars>>
      /\ conf' \in [Client -> Conf \cup {Absent}] /\ list' \in [Client -> Lists]
      /\ \A d \in Client : d # c => conf'[d] = conf[d]
  BY <1>1 DEF Mark, TypeOK
<1>4. "probing" \in Places /\ "waiting" \in Places /\ at[c] \notin {"saved", "removed"}
  BY <1>1 DEF Places
<1>5. CASE probe[on[c]] = NoProbe
  <2>1. Marked(on[c], c, conf[c]) /\ Goto(c, "probing") /\ c # "tick"
    BY <1>5, AbsentAssumption DEF Mark
  <2>2. probe' \in [Id -> Probes] /\ Ticked' = Ticked
    BY <1>1, <1>2, <1>5, <2>1, MarkedProbe
  <2>. QED BY <1>3, <1>4, <2>1, <2>2, Goes
<1>6. CASE probe[on[c]] # NoProbe
  <2>1. Goto(c, "waiting") /\ probe' \in [Id -> Probes] /\ Ticked' = Ticked
    BY <1>1, <1>6 DEF Mark, TypeOK, Ticked
  <2>. QED BY <1>3, <1>4, <2>1, Goes
<1>. QED BY <1>5, <1>6

LEMMA WakeMoves ==
  ASSUME NodeletsInv, NEW c \in Client, Wake(c)
  PROVE  NodeletsInv'
<1>1. TypeOK
  BY DEF NodeletsInv, StopIsExact
<1>2. /\ Goto(c, "reading") /\ UNCHANGED <<managerVars, resultVars, workerVars, processVars>>
      /\ at[c] \notin {"saved", "removed"} /\ "reading" \in Places /\ "reading" # "found"
  BY DEF Wake, Places
<1>3. /\ conf' \in [Client -> Conf \cup {Absent}] /\ list' \in [Client -> Lists]
      /\ \A d \in Client : d # c => conf'[d] = conf[d]
      /\ probe' \in [Id -> Probes] /\ Ticked' = Ticked
  BY <1>1 DEF Wake, TypeOK, Ticked
<1>. QED BY <1>2, <1>3, Goes

LEMMA ReadMoves ==
  ASSUME NodeletsInv, NEW c \in Client, Read(c)
  PROVE  NodeletsInv'
<1>1. TypeOK
  BY DEF NodeletsInv, StopIsExact
<1>2. /\ Done(c) /\ UNCHANGED <<managerVars, probe, workerVars>> /\ UNCHANGED stopper
      /\ conf' = conf /\ list' = list /\ known' \subseteq Id /\ from' \in Lists /\ up' \in BOOLEAN
      /\ at[c] \notin {"saved", "removed"} /\ known \subseteq known'
  BY <1>1 DEF Read, TypeOK, resultVars
<1>. QED BY <1>2, Returns

LEMMA AllMoves ==
  ASSUME NodeletsInv, NEW c \in Client,
         ProbeAll(c) \/ AllProbed(c) \/ \E i \in Id : VisitOfAll(c, i)
  PROVE  NodeletsInv'
<1>1. TypeOK /\ ClientOK(c)
  BY DEF NodeletsInv, StopIsExact
<1>2. ASSUME ProbeAll(c) PROVE NodeletsInv'
  <2>1. /\ Goto(c, "all") /\ UNCHANGED <<managerVars, resultVars, workerVars, processVars>>
        /\ at[c] \notin {"saved", "removed"} /\ "all" \in Places /\ "all" # "found"
    BY <1>2 DEF ProbeAll, Places
  <2>2. /\ conf' \in [Client -> Conf \cup {Absent}] /\ \A d \in Client : d # c => conf'[d] = conf[d]
        /\ probe' \in [Id -> Probes] /\ Ticked' = Ticked
    BY <1>1, <1>2 DEF ProbeAll, TypeOK, Ticked
  <2>3. list' \in [Client -> Lists]
    BY <1>1, <1>2 DEF ProbeAll, TypeOK
  <2>. QED BY <2>1, <2>2, <2>3, Goes
<1>3. ASSUME AllProbed(c) PROVE NodeletsInv'
  <2>1. /\ Done(c) /\ UNCHANGED <<managerVars, probe, workerVars>> /\ UNCHANGED stopper
        /\ conf' = conf /\ list' = list /\ known' \subseteq Id /\ from' \in Lists /\ up' \in BOOLEAN
        /\ at[c] \notin {"saved", "removed"} /\ known \subseteq known'
    BY <1>1, <1>3 DEF AllProbed, TypeOK, resultVars, processVars
  <2>. QED BY <2>1, Returns
<1>4. ASSUME NEW i \in Id, VisitOfAll(c, i) PROVE NodeletsInv'
  <2>1. list[c] \in Lists /\ list[c][i] \in Conf
    BY <1>1, <1>4 DEF TypeOK, VisitOfAll, Lists
  <2>2. [list[c] EXCEPT ![i] = Absent] \in Lists
    BY <2>1 DEF Lists
  <2>3. list' = [list EXCEPT ![c] = [list[c] EXCEPT ![i] = Absent]]
    BY <1>4 DEF VisitOfAll
  <2>4. list' \in [Client -> Lists]
    BY <1>1, <2>2, <2>3 DEF TypeOK
  <2>5. probe' \in [Id -> Probes] /\ Ticked' = Ticked
    <3>1. CASE probe[i] = NoProbe
      <4>1. Marked(i, c, list[c][i]) /\ c # "tick"
        BY <1>4, <3>1, AbsentAssumption DEF VisitOfAll
      <4>. QED BY <1>1, <2>1, <3>1, <4>1, MarkedProbe
    <3>2. CASE probe[i] # NoProbe
      BY <1>1, <1>4, <3>2 DEF VisitOfAll, TypeOK, Ticked
    <3>. QED BY <3>1, <3>2
  <2>6. /\ at[c] \in Places /\ on[c] \in 0 .. MaxId /\ spawned' \subseteq Client
        /\ at' = [at EXCEPT ![c] = at[c]] /\ on' = [on EXCEPT ![c] = on[c]]
    BY <1>1, <1>4 DEF VisitOfAll, TypeOK
  <2>7. /\ conf' \in [Client -> Conf \cup {Absent}] /\ \A d \in Client : d # c => conf'[d] = conf[d]
        /\ at[c] = "found" => on[c] \in Id /\ conf'[c] \in Conf
    BY <1>1, <1>4 DEF VisitOfAll, TypeOK, ClientOK
  <2>8. /\ UNCHANGED managerVars /\ UNCHANGED workerVars /\ UNCHANGED stopper
        /\ known \subseteq known' /\ known' \subseteq Id /\ from' \in Lists /\ up' \in BOOLEAN
    BY <1>1, <1>4 DEF VisitOfAll, TypeOK, resultVars, processVars
  <2>. QED BY <2>4, <2>5, <2>6, <2>7, <2>8, ClientMoves
<1>. QED BY <1>2, <1>3, <1>4

-----------------------------------------------------------------------------
\* A probe answers and ends.
LEMMA AnswerMoves ==
  ASSUME NodeletsInv, NEW i \in Id, Answer(i)
  PROVE  NodeletsInv'
<1>1. TypeOK /\ BackgroundOK /\ StopIsExact
  BY DEF NodeletsInv, StopIsExact
<1>2. /\ UNCHANGED managerVars /\ UNCHANGED clientVars /\ UNCHANGED up
      /\ tick' = tick /\ looping' = looping /\ first' = first /\ workers' = workers /\ stopper' = stopper
  BY DEF Answer, workerVars, processVars
<1>3. /\ probe[i] \in [by : Client \cup {"tick"}, conf : Conf, answered : BOOLEAN]
      /\ probe' = [probe EXCEPT ![i] = [probe[i] EXCEPT !.answered = TRUE]]
  BY <1>1 DEF Answer, TypeOK, Probes
<1>4. probe' \in [Id -> Probes] /\ Ticked' = Ticked
  <2>. DEFINE p == [probe[i] EXCEPT !.answered = TRUE]
  <2>1. p \in Probes /\ p.by = probe[i].by
    BY <1>3 DEF Probes
  <2>2. probe \in [Id -> Probes] /\ probe' = [probe EXCEPT ![i] = p]
    BY <1>1, <1>3 DEF TypeOK
  <2>. HIDE DEF p
  <2>3. \A j \in Id : probe'[j].by = probe[j].by
    BY <2>1, <2>2
  <2>. QED BY <2>1, <2>2, <2>3 DEF Ticked
<1>5. known \subseteq known' /\ known' \subseteq Id /\ from' \in Lists
  BY <1>1, <1>3 DEF Answer, ApplyResult, TypeOK, Lists
<1>6. /\ tick' \in Lists /\ looping' \in BOOLEAN /\ first' \in Firsts /\ workers' \in Nat
      /\ stopper' \in {"running", "cancelled", "stopped"} /\ BackgroundOK'
      /\ stopper' = "stopped" => workers' = 0
  BY <1>1, <1>2 DEF TypeOK, BackgroundOK, StopIsExact
<1>7. workers' = Cardinality(Ticked') + (IF looping' THEN 1 ELSE 0) + (IF first'.ended THEN 0 ELSE 1)
  BY <1>1, <1>2, <1>4 DEF StopIsExact, Ticked
<1>. QED BY <1>2, <1>4, <1>5, <1>6, <1>7, ProberMoves

LEMMA UnmarkMoves ==
  ASSUME NodeletsInv, NEW i \in Id, Unmark(i)
  PROVE  NodeletsInv'
<1>1. TypeOK /\ BackgroundOK /\ StopIsExact
  BY DEF NodeletsInv, StopIsExact
<1>. DEFINE owner == probe[i].by
<1>2. /\ UNCHANGED <<managerVars, resultVars, conf, list, tick, looping, first, processVars>>
      /\ probe[i].answered /\ probe' = [probe EXCEPT ![i] = NoProbe]
      /\ owner = "tick" => workers' = workers - 1 /\ UNCHANGED <<at, spawned, on>>
      /\ owner # "tick" => UNCHANGED workers
      /\ owner # "tick" /\ at[owner] = "probing" => Done(owner)
      /\ owner # "tick" /\ at[owner] # "probing" => UNCHANGED <<at, spawned, on>>
  BY DEF Unmark
<1>3. owner \in Client \cup {"tick"}
  BY <1>1, <1>2 DEF TypeOK, Probes, NoProbe
<1>4. /\ probe \in [Id -> Probes] /\ NoProbe \in Probes /\ NoProbe.by # "tick"
      /\ probe' \in [Id -> Probes]
  BY <1>1, <1>2, AbsentAssumption DEF TypeOK, Probes, NoProbe
<1>5. Ticked' = Ticked \ {i}
  BY <1>2, <1>4 DEF Ticked
<1>6. /\ known \subseteq known' /\ known' \subseteq Id /\ from' \in Lists /\ up' \in BOOLEAN
      /\ tick' \in Lists /\ looping' \in BOOLEAN /\ first' \in Firsts
      /\ stopper' \in {"running", "cancelled", "stopped"} /\ BackgroundOK' /\ UNCHANGED managerVars
      /\ UNCHANGED up /\ UNCHANGED stopper /\ conf' = conf /\ list' = list
  BY <1>1, <1>2 DEF TypeOK, BackgroundOK, resultVars, processVars
<1>7. CASE owner = "tick"
  <2>1. UNCHANGED clientVars /\ workers' = workers - 1
    BY <1>2, <1>7 DEF clientVars
  <2>2. i \in Ticked
    BY <1>7 DEF Ticked
  <2>3. IsFiniteSet(Ticked) /\ Cardinality(Ticked) \in Nat /\ Cardinality(Ticked') \in Nat
    BY <1>1, TickedCounts
  <2>4. Cardinality(Ticked') = Cardinality(Ticked) - 1
    BY <1>5, <2>2, <2>3, FS_RemoveElement
  <2>5. workers = Cardinality(Ticked) + (IF looping THEN 1 ELSE 0) + (IF first.ended THEN 0 ELSE 1)
    BY <1>1 DEF StopIsExact, Ticked
  <2>6. workers' = Cardinality(Ticked') + (IF looping' THEN 1 ELSE 0) + (IF first'.ended THEN 0 ELSE 1)
    BY <1>2, <2>1, <2>3, <2>4, <2>5
  <2>7. workers' \in Nat
    BY <2>3, <2>6
  <2>8. stopper' = "stopped" => workers' = 0
    <3>1. stopper # "stopped"
      BY <1>1, <2>1, <2>7, <2>3 DEF StopIsExact
    <3>. QED BY <1>6, <3>1
  <2>. QED BY <1>4, <1>6, <2>1, <2>6, <2>7, <2>8, ProberMoves
<1>8. CASE owner # "tick"
  <2>1. owner \in Client /\ workers' = workers
    BY <1>2, <1>3, <1>8
  <2>2. Ticked' = Ticked
    BY <1>5, <1>8 DEF Ticked
  <2>3. UNCHANGED workerVars
    BY <1>2, <2>1 DEF workerVars
  <2>4. CASE at[owner] = "probing"
    <3>1. /\ "idle" \in Places /\ 0 \in 0 .. MaxId /\ spawned' \subseteq Client /\ "idle" # "found"
          /\ at' = [at EXCEPT ![owner] = "idle"] /\ on' = [on EXCEPT ![owner] = 0]
      BY <1>1, <1>2, <1>8, <2>4, AbsentAssumption DEF Done, TypeOK, Places
    <3>2. /\ conf' \in [Client -> Conf \cup {Absent}] /\ \A d \in Client : d # owner => conf'[d] = conf[d]
          /\ list' \in [Client -> Lists] /\ at[owner] \notin {"saved", "removed"}
      BY <1>1, <1>6, <2>4 DEF TypeOK
    <3>. HIDE DEF owner
    <3>. QED BY <1>4, <1>6, <2>1, <2>2, <2>3, <3>1, <3>2, ClientMoves
  <2>5. CASE at[owner] # "probing"
    <3>1. UNCHANGED clientVars
      BY <1>2, <1>8, <2>5 DEF clientVars
    <3>2. workers' \in Nat /\ (stopper' = "stopped" => workers' = 0)
      BY <1>1, <1>6, <2>1 DEF StopIsExact, TypeOK
    <3>3. workers' = Cardinality(Ticked') + (IF looping' THEN 1 ELSE 0) + (IF first'.ended THEN 0 ELSE 1)
      BY <1>1, <1>2, <2>1, <2>2 DEF StopIsExact, Ticked
    <3>. QED BY <1>4, <1>6, <3>1, <3>2, <3>3, ProberMoves
  <2>. QED BY <2>4, <2>5
<1>. QED BY <1>7, <1>8

-----------------------------------------------------------------------------
\* The steps of the loop and of the first round.
LEMMA WorkersMove ==
  ASSUME NodeletsInv, BeginTick \/ EndLoop \/ FirstAnswer \/ EndFirst \/ StopReturns \/ Stop
  PROVE  NodeletsInv'
<1>1. TypeOK /\ BackgroundOK /\ StopIsExact
  BY DEF NodeletsInv, StopIsExact
<1>2. /\ UNCHANGED managerVars /\ UNCHANGED clientVars /\ UNCHANGED up /\ probe' = probe
      /\ known \subseteq known' /\ known' \subseteq Id /\ from' \in Lists
  <2>1. CASE FirstAnswer
    <3>1. first.id \in Id /\ first.conf \in Conf
      BY <1>1, <2>1 DEF FirstAnswer, BackgroundOK, TypeOK, Firsts, Id
    <3>2. from \in Lists /\ known \subseteq Id /\ from' = [from EXCEPT ![first.id] = first.conf]
          /\ known' = known \cup {first.id}
      BY <1>1, <2>1 DEF FirstAnswer, ApplyResult, TypeOK
    <3>3. from' \in Lists
      BY <3>1, <3>2 DEF Lists
    <3>. QED BY <2>1, <3>1, <3>2, <3>3 DEF FirstAnswer, processVars
  <2>2. CASE BeginTick \/ EndLoop \/ EndFirst \/ StopReturns \/ Stop
    BY <1>1, <2>2 DEF BeginTick, EndLoop, EndFirst, StopReturns, Stop, TypeOK, resultVars, processVars
  <2>. QED BY <2>1, <2>2
<1>3. probe' \in [Id -> Probes] /\ Ticked' = Ticked /\ Cardinality(Ticked) \in Nat
  BY <1>1, <1>2, TickedCounts DEF TypeOK, Ticked
<1>4. workers = Cardinality(Ticked) + (IF looping THEN 1 ELSE 0) + (IF first.ended THEN 0 ELSE 1)
  BY <1>1 DEF StopIsExact, Ticked
<1>5. /\ NoList \in Lists /\ \A rest \in SUBSET Id : FirstOf(rest) \in Firsts /\ ~FirstOf(rest).ended
                                                      /\ FirstOf(rest).id = 0
      /\ [FirstOf({}) EXCEPT !.ended = TRUE] \in Firsts
      /\ [FirstOf({}) EXCEPT !.ended = TRUE].ended
      /\ [FirstOf({}) EXCEPT !.ended = TRUE].id = 0
      /\ [FirstOf({}) EXCEPT !.ended = TRUE].rest = {}
  <2>1. NoList \in Lists
    BY DEF NoList, Lists
  <2>2. ASSUME NEW rest \in SUBSET Id
        PROVE  /\ FirstOf(rest) \in Firsts /\ ~FirstOf(rest).ended /\ FirstOf(rest).id = 0
               /\ FirstOf(rest).rest = rest
    BY AbsentAssumption DEF FirstOf, Firsts
  <2>3. ASSUME NEW r \in Firsts
        PROVE  /\ [r EXCEPT !.ended = TRUE] \in Firsts /\ [r EXCEPT !.ended = TRUE].ended
               /\ [r EXCEPT !.ended = TRUE].id = r.id /\ [r EXCEPT !.ended = TRUE].rest = r.rest
    BY DEF Firsts
  <2>. QED BY <2>1, <2>2, <2>3
<1>6. /\ tick' \in Lists /\ looping' \in BOOLEAN /\ first' \in Firsts /\ BackgroundOK'
      /\ workers' = Cardinality(Ticked') + (IF looping' THEN 1 ELSE 0) + (IF first'.ended THEN 0 ELSE 1)
      /\ stopper' \in {"running", "cancelled", "stopped"}
      /\ stopper' = "stopped" => stopper = "stopped" \/ workers' = 0
      /\ workers' = workers \/ workers' = workers - 1
  <2>1. CASE BeginTick
    BY <1>1, <1>3, <1>4, <2>1 DEF BeginTick, TypeOK, BackgroundOK, processVars
  <2>2. CASE EndLoop
    <3>1. /\ looping /\ tick = NoList /\ ~looping' /\ workers' = workers - 1
          /\ tick' = tick /\ first' = first /\ stopper' = stopper
      BY <2>2 DEF EndLoop, processVars
    <3>2. workers' = Cardinality(Ticked') + (IF looping' THEN 1 ELSE 0) + (IF first'.ended THEN 0 ELSE 1)
      BY <1>3, <1>4, <3>1
    <3>3. looping' \in BOOLEAN
      BY <2>2 DEF EndLoop
    <3>. QED BY <1>1, <3>1, <3>2, <3>3 DEF TypeOK, BackgroundOK
  <2>3. CASE FirstAnswer
    <3>1. first \in Firsts /\ ~first.ended /\ first.rest \in SUBSET Id
      BY <1>1, <2>3 DEF FirstAnswer, TypeOK, BackgroundOK, Firsts
    <3>2. /\ first' = FirstOf(first.rest) /\ tick' = tick /\ looping' = looping /\ workers' = workers
          /\ stopper' = stopper
      BY <2>3 DEF FirstAnswer, processVars
    <3>3. first' \in Firsts /\ ~first'.ended /\ first'.id = 0
      BY <1>5, <3>1, <3>2
    <3>4. workers' = Cardinality(Ticked') + (IF looping' THEN 1 ELSE 0) + (IF first'.ended THEN 0 ELSE 1)
      BY <1>3, <1>4, <3>1, <3>2, <3>3
    <3>. QED BY <1>1, <3>2, <3>3, <3>4 DEF TypeOK, BackgroundOK
  <2>4. CASE EndFirst
    <3>1. /\ ~first.ended /\ first' = [FirstOf({}) EXCEPT !.ended = TRUE] /\ workers' = workers - 1
          /\ tick' = tick /\ looping' = looping /\ stopper' = stopper
      BY <2>4 DEF EndFirst, processVars
    <3>2. first' \in Firsts /\ first'.ended /\ first'.id = 0 /\ first'.rest = {}
      BY <1>5, <3>1
    <3>3. workers' = Cardinality(Ticked') + (IF looping' THEN 1 ELSE 0) + (IF first'.ended THEN 0 ELSE 1)
      BY <1>1, <1>3, <1>4, <3>1, <3>2 DEF TypeOK
    <3>. QED BY <1>1, <3>1, <3>2, <3>3 DEF TypeOK, BackgroundOK
  <2>5. CASE StopReturns \/ Stop
    BY <1>1, <1>3, <1>4, <2>5 DEF StopReturns, Stop, TypeOK, BackgroundOK, workerVars
  <2>. QED BY <2>1, <2>2, <2>3, <2>4, <2>5
<1>7. workers' \in Nat
  BY <1>3, <1>6
<1>8. stopper' = "stopped" => workers' = 0
  BY <1>1, <1>6, <1>7 DEF StopIsExact
<1>. QED BY <1>2, <1>3, <1>6, <1>7, <1>8, ProberMoves

LEMMA ToursMove ==
  ASSUME NodeletsInv, NEW i \in Id, VisitDue(i) \/ Pass(i) \/ FirstFind(i)
  PROVE  NodeletsInv'
<1>1. TypeOK /\ BackgroundOK /\ StopIsExact
  BY DEF NodeletsInv, StopIsExact
<1>2. /\ UNCHANGED managerVars /\ UNCHANGED clientVars /\ UNCHANGED up
      /\ known \subseteq known' /\ known' \subseteq Id /\ from' \in Lists
      /\ stopper' = stopper /\ looping' = looping
  BY <1>1 DEF VisitDue, Pass, FirstFind, TypeOK, resultVars, processVars
<1>3. Cardinality(Ticked) \in Nat
  BY <1>1, TickedCounts
<1>4. workers = Cardinality(Ticked) + (IF looping THEN 1 ELSE 0) + (IF first.ended THEN 0 ELSE 1)
  BY <1>1 DEF StopIsExact, Ticked
<1>5. tick \in Lists /\ [tick EXCEPT ![i] = Absent] \in Lists
  BY <1>1 DEF TypeOK, Lists
<1>6. tick[i] # Absent => looping /\ tick[i] \in Conf
  BY <1>1, <1>5 DEF BackgroundOK, NoList, Lists
<1>7. CASE VisitDue(i)
  <2>1. /\ tick[i] # Absent /\ probe[i] = NoProbe /\ tick' = [tick EXCEPT ![i] = Absent]
        /\ Marked(i, "tick", tick[i]) /\ workers' = workers + 1 /\ first' = first
    BY <1>7 DEF VisitDue
  <2>2. looping /\ tick[i] \in Conf /\ "tick" \in Client \cup {"tick"}
    BY <1>6, <2>1
  <2>3. probe' \in [Id -> Probes] /\ Cardinality(Ticked') = Cardinality(Ticked) + 1
    BY <1>1, <2>1, <2>2, MarkedProbe
  <2>4. /\ workers' = Cardinality(Ticked') + (IF looping' THEN 1 ELSE 0) + (IF first'.ended THEN 0 ELSE 1)
        /\ workers' \in Nat /\ workers # 0
    BY <1>2, <1>3, <1>4, <2>1, <2>2, <2>3
  <2>5. stopper' = "stopped" => workers' = 0
    BY <1>1, <1>2, <2>4 DEF StopIsExact
  <2>6. /\ tick' \in Lists /\ looping' \in BOOLEAN /\ first' \in Firsts /\ BackgroundOK'
        /\ stopper' \in {"running", "cancelled", "stopped"}
    BY <1>1, <1>2, <1>5, <2>1, <2>2 DEF TypeOK, BackgroundOK
  <2>. QED BY <1>2, <2>3, <2>4, <2>5, <2>6, ProberMoves
<1>8. CASE Pass(i) \/ FirstFind(i)
  <2>1. probe' = probe /\ workers' = workers
    BY <1>8 DEF Pass, FirstFind
  <2>2. probe' \in [Id -> Probes] /\ Ticked' = Ticked
    BY <1>1, <2>1 DEF TypeOK, Ticked
  <2>3. tick' \in Lists /\ first' \in Firsts /\ first'.ended = first.ended /\ BackgroundOK'
    <3>1. CASE Pass(i)
      <4>1. tick[i] # Absent /\ tick' = [tick EXCEPT ![i] = Absent] /\ first' = first
        BY <3>1 DEF Pass
      <4>. QED BY <1>1, <1>2, <1>5, <1>6, <4>1 DEF TypeOK, BackgroundOK
    <3>2. CASE FirstFind(i)
      <4>1. /\ i \in first.rest /\ tick' = tick /\ first \in Firsts
            /\ first' = [first EXCEPT !.rest = first.rest \ {i}, !.id = IF fleet[i] = Absent THEN 0 ELSE i,
                                      !.conf = fleet[i]]
        BY <1>1, <3>2 DEF FirstFind, TypeOK
      <4>2. /\ fleet[i] \in Conf \cup {Absent} /\ 0 \in 0 .. MaxId /\ i \in 0 .. MaxId
        BY <1>1, AbsentAssumption DEF TypeOK, Lists, Id
      <4>3. /\ first' \in Firsts /\ first'.ended = first.ended /\ first'.conf = fleet[i]
            /\ first'.id = IF fleet[i] = Absent THEN 0 ELSE i
        BY <4>1, <4>2 DEF Firsts
      <4>4. ~first.ended
        BY <1>1, <4>1 DEF BackgroundOK
      <4>. QED BY <1>1, <1>2, <4>1, <4>2, <4>3, <4>4 DEF BackgroundOK, TypeOK
    <3>. QED BY <1>8, <3>1, <3>2
  <2>4. workers' = Cardinality(Ticked') + (IF looping' THEN 1 ELSE 0) + (IF first'.ended THEN 0 ELSE 1)
    BY <1>2, <1>4, <2>1, <2>2, <2>3
  <2>5. /\ workers' \in Nat /\ looping' \in BOOLEAN /\ stopper' \in {"running", "cancelled", "stopped"}
        /\ stopper' = "stopped" => workers' = 0
    BY <1>1, <1>2, <2>1 DEF TypeOK, StopIsExact
  <2>. QED BY <1>2, <2>2, <2>3, <2>4, <2>5, ProberMoves
<1>. QED BY <1>7, <1>8

-----------------------------------------------------------------------------
\* The process finds a highest id in the table.
LEMMA HighestOfTable ==
  ASSUME NEW table \in Lists
  PROVE  /\ Highest(table) \in 0 .. MaxId
         /\ \A i \in Present(table) : i <= Highest(table)
<1>. DEFINE Above == {n \in Nat : \A i \in Present(table) : i <= n}
            R     == OpToRel(<, Nat)
<1>1. MaxId \in Nat /\ Present(table) \subseteq 1 .. MaxId
  BY AbsentAssumption DEF Present, Id
<1>2. MaxId \in Above
  BY <1>1
<1>3. PICK x \in Above : \A y \in Above : ~(<<y, x>> \in R)
  BY <1>2, WFMin, NatLessThanWellFounded
<1>4. x \in Nat /\ \A y \in Above : ~(y < x)
  BY <1>3 DEF OpToRel
<1>5. x \in Present(table) \cup {0}
  <2>. SUFFICES ASSUME x # 0, x \notin Present(table) PROVE FALSE
    OBVIOUS
  <2>1. x - 1 \in Nat
    BY <1>4
  <2>2. ASSUME NEW i \in Present(table) PROVE i <= x - 1
    BY <1>1, <1>4, <2>1
  <2>3. x - 1 \in Above
    BY <2>1, <2>2
  <2>. QED BY <1>4, <2>1, <2>3
<1>6. \A i \in Present(table) : i <= x
  BY <1>4
<1>7. Highest(table) \in Present(table) \cup {0} /\ \A i \in Present(table) : i <= Highest(table)
  BY <1>5, <1>6 DEF Highest
<1>. QED BY <1>1, <1>7

LEMMA Initially == Init => NodeletsInv
<1>. SUFFICES ASSUME Init PROVE NodeletsInv
  OBVIOUS
<1>. USE AbsentAssumption
<1>1. saved \in Lists /\ fleet = saved /\ counter = Highest(saved)
  BY DEF Init
<1>2. counter \in 0 .. MaxId /\ \A i \in Present(saved) : i <= counter
  BY <1>1, HighestOfTable
<1>3. NoList \in Lists /\ NoProbe \in Probes /\ NoProbe.by # "tick" /\ Present(saved) \in SUBSET Id
  BY DEF NoList, Lists, Probes, NoProbe, Present
<1>4. first = FirstOf(Present(saved)) /\ first \in Firsts /\ ~first.ended /\ first.id = 0
  BY <1>3 DEF Init, FirstOf, Firsts
<1>5. TypeOK
  BY <1>1, <1>2, <1>3, <1>4 DEF Init, TypeOK, Places
<1>6. StopIsExact
  <2>1. {i \in Id : probe[i].by = "tick"} = {}
    BY <1>3 DEF Init
  <2>2. Cardinality({}) = 0
    BY FS_EmptySet
  <2>. QED BY <1>4, <1>5, <2>1, <2>2 DEF Init, StopIsExact
<1>7. StoredNodeletsAreProbed
  BY DEF Init, StoredNodeletsAreProbed
<1>8. \A c \in Client : ClientOK(c)
  BY DEF Init, ClientOK
<1>9. BackgroundOK
  BY <1>4 DEF Init, BackgroundOK
<1>10. IdsGiven
  BY <1>1, <1>2 DEF IdsGiven, Present
<1>. QED BY <1>6, <1>7, <1>8, <1>9, <1>10 DEF NodeletsInv

LEMMA NodeletsStepwise ==
  ASSUME NodeletsInv, [Next]_vars
  PROVE  NodeletsInv'
<1>1. ASSUME NEW c \in Client, Request(c) PROVE NodeletsInv'
  BY <1>1, FleetMoves, AllMoves, FindMoves DEF Request
<1>2. ASSUME NEW c \in Client, ClientStep(c) PROVE NodeletsInv'
  BY <1>2, NotifyMoves, MarkMoves, ReadMoves, AllMoves, FindMoves DEF ClientStep
<1>3. ASSUME NEW c \in Client, Wake(c) PROVE NodeletsInv'
  BY <1>3, WakeMoves
<1>4. ASSUME NEW i \in Id, ProbeStep(i) PROVE NodeletsInv'
  BY <1>4, AnswerMoves, UnmarkMoves DEF ProbeStep
<1>5. CASE WorkerStep \/ Stop
  BY <1>5, WorkersMove, ToursMove DEF WorkerStep
<1>6. CASE UNCHANGED vars
  BY <1>6 DEF NodeletsInv, StopIsExact, StoredNodeletsAreProbed, ClientOK, BackgroundOK, IdsGiven,
              TypeOK, Present, vars, managerVars, resultVars, clientVars, workerVars, processVars
<1>. QED BY <1>1, <1>2, <1>3, <1>4, <1>5, <1>6 DEF Next

\* The inductive invariant of the manager, the prober and the handlers that
\* drive both.
THEOREM FleetKeepsInv == Spec => []NodeletsInv
<1>. QED BY Initially, NodeletsStepwise, PTL DEF Spec

\* handleNodeletAdd, -Update and -Remove change the fleet under one lock and the
\* results under another, and several run at once: when none is between the two,
\* OnConfigChange has left no nodelet in use and stored without an entry.
THEOREM StoredAreProbed == Spec => []StoredNodeletsAreProbed
<1>1. NodeletsInv => StoredNodeletsAreProbed
  BY DEF NodeletsInv
<1>. QED BY <1>1, FleetKeepsInv, PTL

\* NodeletProber.workers counts the loop, the first round and the probes of the
\* ticks, one each: Stop waits for all of them and for nothing else.
THEOREM StopWaitsForWorkers == Spec => []StopIsExact
<1>1. NodeletsInv => StopIsExact
  BY DEF NodeletsInv
<1>. QED BY <1>1, FleetKeepsInv, PTL

================================================================================
