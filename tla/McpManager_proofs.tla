--------------------------- MODULE McpManager_proofs ---------------------------
(***************************************************************************)
(* Proofs about McpManager for every set of connections, configurations and *)
(* callers, every capacity of the queue and every number of starts: what    *)
(* runs and is shown is current, the snapshots of the tools end with the    *)
(* newest list, no process is closed under a user, the store agrees with    *)
(* the configuration, and no process is stopped for another one's failure.  *)
(* The inductive invariant has one part for the request that holds          *)
(* mutationMu, one for each connection and one for each start.              *)
(***************************************************************************)
EXTENDS McpManager, SequenceTheorems, TLAPS

Start == [conn : Conn, conf : Conf, stage : Stages, health : Healths]

Pending == {"connecting", "connected", "failed"}
Open == {"attached", "draining", "closing"}

\* The request that holds mutationMu: its draft changes one connection of the
\* configuration in use, and whoever holds the mutex came before StopAll.
Mutation ==
  /\ stored = IF step = "publishing" THEN draft ELSE config
  /\ step \in {"saving", "publishing"} =>
       /\ \A c \in Conn : c # edited => draft[c] = config[c]
       /\ draft[edited] = Absent => Exists(edited)
       /\ draft[edited] # Absent /\ draft[edited].enabled => Len(start) < MaxStarts
  /\ step # "announcing" => change = NoChange
  /\ step # "free" => shutdown \in {"open", "closed"}

\* What runs and what starts of a connection is what is saved of it, and its
\* status says so.
ConnectionOK(c) ==
  /\ attached[c] # 0 =>
       LET s == start[attached[c]]
       IN s.conn = c /\ s.stage = "attached" /\ Enabled(c) /\ config[c].conf = s.conf
  /\ starting[c] # 0 =>
       LET s == start[starting[c]]
       IN /\ s.conn = c /\ s.stage \in Pending /\ Enabled(c) /\ config[c].conf = s.conf
          /\ attached[c] = 0
  /\ c \in errors => Exists(c) /\ attached[c] = 0 /\ starting[c] = 0
  /\ shutdown = "open" /\ Enabled(c) /\ attached[c] = 0 /\ starting[c] = 0 => c \in errors
  /\ \A t \in Token : start[t].conn = c => /\ attached[c] # 0 => t <= attached[c]
                                           /\ starting[c] # 0 => t <= starting[c]
  /\ shutdown \notin {"open", "closed"} => attached[c] = 0

\* A start that is attached is the process of its connection and its tools are
\* visible; who uses a process finds it open; the shutdown leaves nothing.
StartOK(t) ==
  /\ t \in visible <=> start[t].stage = "attached"
  /\ start[t].stage = "attached" => attached[start[t].conn] = t
  /\ start[t].health \notin {"none", "over"} => start[t].stage \in Open
  /\ \A k \in Caller : call[k] = t => start[t].stage \in Open
  /\ recheck.proc = t /\ ~recheck.failed => start[t].stage \in Open
  /\ shutdown \in {"closing", "done"} => start[t].stage \in {"closing", "closed", "over"}
  /\ shutdown = "done" => start[t].stage # "closing"

McpInv ==
  /\ TypeOK /\ Mutation /\ NewestSnapshot
  /\ recheck.failed => recheck.proc # 0
  /\ \A c \in Conn : ConnectionOK(c)
  /\ \A t \in Token : StartOK(t)

-----------------------------------------------------------------------------
\* The starts after an update, as long as the manager does nothing but move
\* them on, and add to them.
Continued ==
  /\ start' \in Seq(Start) /\ Len(start) <= Len(start')
  /\ \A t \in Token : start'[t].conn = start[t].conn /\ start'[t].conf = start[t].conf

LEMMA StartsTyped ==
  ASSUME TypeOK
  PROVE  /\ start \in Seq(Start) /\ Len(start) \in Nat /\ Len(start) <= MaxStarts
         /\ \A t \in Token : /\ t \in Nat /\ t # 0 /\ start[t] \in Start
                             /\ start[t].conn \in Conn /\ start[t].conf \in Conf
                             /\ start[t].stage \in Stages /\ start[t].health \in Healths
<1>1. start \in Seq(Start) /\ Len(start) \in Nat /\ Len(start) <= MaxStarts
  BY DEF TypeOK, Start
<1>2. ASSUME NEW t \in Token PROVE t \in Nat /\ t # 0 /\ start[t] \in Start
  BY <1>1 DEF Token
<1>. QED BY <1>1, <1>2 DEF Start

Staged(seq, t, x) == [seq EXCEPT ![t].stage = x]
Diagnosed(seq, t, x) == [seq EXCEPT ![t].health = x]

\* One start goes to another stage.
LEMMA StageMoves ==
  ASSUME NEW seq \in Seq(Start), NEW t \in 1 .. Len(seq), NEW x \in Stages
  PROVE  /\ Staged(seq, t, x) \in Seq(Start) /\ Len(Staged(seq, t, x)) = Len(seq)
         /\ Staged(seq, t, x)[t].conn = seq[t].conn /\ Staged(seq, t, x)[t].conf = seq[t].conf
         /\ Staged(seq, t, x)[t].stage = x /\ Staged(seq, t, x)[t].health = seq[t].health
         /\ \A u \in 1 .. Len(seq) : u # t => Staged(seq, t, x)[u] = seq[u]
<1>. DEFINE row == [seq[t] EXCEPT !.stage = x]
<1>1. seq[t] \in Start
  OBVIOUS
<1>2. row \in Start /\ row = [conn |-> seq[t].conn, conf |-> seq[t].conf, stage |-> x, health |-> seq[t].health]
  BY <1>1 DEF Start
<1>. HIDE DEF row
<1>3. LET new == [seq EXCEPT ![t] = row]
      IN new \in Seq(Start) /\ Len(new) = Len(seq) /\ new[t] = row /\ \A u \in 1 .. Len(seq) : u # t => new[u] = seq[u]
  BY <1>2
<1>. QED BY <1>2, <1>3 DEF row, Staged

\* The health of one start changes.
LEMMA HealthMoves ==
  ASSUME NEW seq \in Seq(Start), NEW t \in 1 .. Len(seq), NEW x \in Healths
  PROVE  /\ Diagnosed(seq, t, x) \in Seq(Start) /\ Len(Diagnosed(seq, t, x)) = Len(seq)
         /\ Diagnosed(seq, t, x)[t].conn = seq[t].conn /\ Diagnosed(seq, t, x)[t].conf = seq[t].conf
         /\ Diagnosed(seq, t, x)[t].stage = seq[t].stage /\ Diagnosed(seq, t, x)[t].health = x
         /\ \A u \in 1 .. Len(seq) : u # t => Diagnosed(seq, t, x)[u] = seq[u]
<1>. DEFINE row == [seq[t] EXCEPT !.health = x]
<1>1. seq[t] \in Start
  OBVIOUS
<1>2. row \in Start /\ row = [conn |-> seq[t].conn, conf |-> seq[t].conf, stage |-> seq[t].stage, health |-> x]
  BY <1>1 DEF Start
<1>. HIDE DEF row
<1>3. LET new == [seq EXCEPT ![t] = row]
      IN new \in Seq(Start) /\ Len(new) = Len(seq) /\ new[t] = row /\ \A u \in 1 .. Len(seq) : u # t => new[u] = seq[u]
  BY <1>2
<1>. QED BY <1>2, <1>3 DEF row, Diagnosed

\* The same of the starts themselves.
LEMMA StageSteps ==
  ASSUME start \in Seq(Start), NEW t \in Token, NEW x \in Stages, start' = Staged(start, t, x)
  PROVE  /\ start' \in Seq(Start) /\ Len(start') = Len(start)
         /\ start'[t].conn = start[t].conn /\ start'[t].conf = start[t].conf
         /\ start'[t].stage = x /\ start'[t].health = start[t].health
         /\ \A u \in Token : u # t => start'[u] = start[u]
<1>1. t \in 1 .. Len(start)
  BY DEF Token
<1>2. LET seq == Staged(start, t, x)
      IN /\ seq \in Seq(Start) /\ Len(seq) = Len(start)
         /\ seq[t].conn = start[t].conn /\ seq[t].conf = start[t].conf
         /\ seq[t].stage = x /\ seq[t].health = start[t].health
         /\ \A u \in 1 .. Len(start) : u # t => seq[u] = start[u]
  BY <1>1, StageMoves
<1>. QED BY <1>2, Zenon DEF Token

LEMMA HealthSteps ==
  ASSUME start \in Seq(Start), NEW t \in Token, NEW x \in Healths, start' = Diagnosed(start, t, x)
  PROVE  /\ start' \in Seq(Start) /\ Len(start') = Len(start)
         /\ start'[t].conn = start[t].conn /\ start'[t].conf = start[t].conf
         /\ start'[t].stage = start[t].stage /\ start'[t].health = x
         /\ \A u \in Token : u # t => start'[u] = start[u]
<1>1. t \in 1 .. Len(start)
  BY DEF Token
<1>2. LET seq == Diagnosed(start, t, x)
      IN /\ seq \in Seq(Start) /\ Len(seq) = Len(start)
         /\ seq[t].conn = start[t].conn /\ seq[t].conf = start[t].conf
         /\ seq[t].stage = start[t].stage /\ seq[t].health = x
         /\ \A u \in 1 .. Len(start) : u # t => seq[u] = start[u]
  BY <1>1, HealthMoves
<1>. QED BY <1>2, Zenon DEF Token

\* detachProcessLocked drains the attached process and nothing else.
LEMMA DrainGives ==
  ASSUME McpInv, NEW c \in Conn
  PROVE  LET new == DrainedStarts(c)
         IN /\ new \in Seq(Start) /\ Len(new) = Len(start)
            /\ attached[c] = 0 => new = start
            /\ attached[c] # 0 => /\ attached[c] \in Token
                                  /\ new[attached[c]].conn = c
                                  /\ new[attached[c]].conf = start[attached[c]].conf
                                  /\ new[attached[c]].stage = "draining"
                                  /\ new[attached[c]].health = start[attached[c]].health
            /\ \A t \in Token : t # attached[c] => new[t] = start[t]
<1>1. /\ start \in Seq(Start) /\ attached[c] \in 0 .. Len(start) /\ Len(start) \in Nat
      /\ attached[c] # 0 => start[attached[c]].conn = c
  BY StartsTyped DEF McpInv, TypeOK, ConnectionOK
<1>2. CASE attached[c] = 0
  BY <1>1, <1>2 DEF DrainedStarts, Token
<1>3. CASE attached[c] # 0
  <2>1. attached[c] \in 1 .. Len(start) /\ "draining" \in Stages
    BY <1>1, <1>3 DEF Stages
  <2>2. DrainedStarts(c) = Staged(start, attached[c], "draining")
    BY <1>3 DEF DrainedStarts, Staged
  <2>3. start[attached[c]].conn = c
    BY <1>1, <1>3
  <2>4. /\ DrainedStarts(c) \in Seq(Start) /\ Len(DrainedStarts(c)) = Len(start)
        /\ DrainedStarts(c)[attached[c]].conn = start[attached[c]].conn
        /\ DrainedStarts(c)[attached[c]].conf = start[attached[c]].conf
        /\ DrainedStarts(c)[attached[c]].stage = "draining"
        /\ DrainedStarts(c)[attached[c]].health = start[attached[c]].health
        /\ \A t \in 1 .. Len(start) : t # attached[c] => DrainedStarts(c)[t] = start[t]
    <3>. DEFINE k == attached[c]
    <3>1. start \in Seq(Start) /\ k \in 1 .. Len(start) /\ "draining" \in Stages
      BY <1>1, <2>1
    <3>2. DrainedStarts(c) = Staged(start, k, "draining")
      BY <2>2
    <3>. HIDE DEF k
    <3>3. /\ DrainedStarts(c) \in Seq(Start) /\ Len(DrainedStarts(c)) = Len(start)
          /\ DrainedStarts(c)[k].conn = start[k].conn
          /\ DrainedStarts(c)[k].conf = start[k].conf
          /\ DrainedStarts(c)[k].stage = "draining"
          /\ DrainedStarts(c)[k].health = start[k].health
          /\ \A t \in 1 .. Len(start) : t # k => DrainedStarts(c)[t] = start[t]
      BY <3>1, <3>2, StageMoves
    <3>. QED BY <3>3 DEF k
  <2>. QED BY <1>3, <2>1, <2>3, <2>4 DEF Token
<1>. QED BY <1>2, <1>3

\* refreshVisibleToolsLocked: no two processes of one connection are visible, so
\* lists that compare equal are equal.
LEMMA RefreshIsExact ==
  ASSUME NEW tools, Refresh(tools),
         \A t, u \in tools \cup visible : start[t].conn = start[u].conn => t = u
  PROVE  /\ visible' = tools
         /\ change' = tools \/ (visible' = visible /\ change' = change)
<1>1. CASE Signature(tools) = Signature(visible)
  <2>1. ASSUME NEW t \in tools PROVE t \in visible
    <3>1. <<start[t].conn, start[t].conf>> \in Signature(visible)
      BY <1>1 DEF Signature
    <3>2. PICK u \in visible : <<start[t].conn, start[t].conf>> = <<start[u].conn, start[u].conf>>
      BY <3>1 DEF Signature
    <3>. QED BY <3>2
  <2>2. ASSUME NEW t \in visible PROVE t \in tools
    <3>1. <<start[t].conn, start[t].conf>> \in Signature(tools)
      BY <1>1 DEF Signature
    <3>2. PICK u \in tools : <<start[t].conn, start[t].conf>> = <<start[u].conn, start[u].conf>>
      BY <3>1 DEF Signature
    <3>. QED BY <3>2
  <2>3. tools = visible
    BY <2>1, <2>2
  <2>. QED BY <1>1, <2>3 DEF Refresh, toolVars
<1>2. CASE Signature(tools) # Signature(visible)
  BY <1>2 DEF Refresh
<1>. QED BY <1>1, <1>2

\* The tools without those of one connection.
LEMMA RefreshTakesOut ==
  ASSUME McpInv, NEW c \in Conn, Refresh(Live \ {attached[c]})
  PROVE  /\ visible' = visible \ {attached[c]}
         /\ change' = visible' \/ (visible' = visible /\ change' = change)
<1>1. visible = Live /\ \A t \in visible : attached[start[t].conn] = t
  BY DEF McpInv, StartOK, Live, TypeOK
<1>. QED BY <1>1, RefreshIsExact

-----------------------------------------------------------------------------
\* What does not change is still typed when there are more starts.
LEMMA StillTyped ==
  ASSUME TypeOK, Continued, Len(start') <= MaxStarts
  PROVE  /\ start' \in Seq([conn : Conn, conf : Conf, stage : Stages, health : Healths])
         /\ Len(start) \in Nat /\ Len(start') \in Nat
         /\ Token \subseteq Token' /\ Token \subseteq 1 .. MaxStarts /\ Token' \subseteq 1 .. MaxStarts
         /\ 0 .. Len(start) \subseteq 0 .. Len(start')
         /\ starting \in [Conn -> 0 .. Len(start')] /\ attached \in [Conn -> 0 .. Len(start')]
         /\ call \in [Caller -> 0 .. Len(start')]
         /\ recheck \in [proc : 0 .. Len(start'), failed : BOOLEAN]
         /\ visible \subseteq Token' /\ delivered \subseteq Token'
         /\ change \in {NoChange} \cup SUBSET Token'
         /\ queue \in Seq(SUBSET Token')
<1>1. Len(start) \in Nat /\ Len(start') \in Nat /\ Len(start) <= Len(start')
      /\ start' \in Seq([conn : Conn, conf : Conf, stage : Stages, health : Healths])
  BY StartsTyped DEF Continued, Start
<1>2. /\ Token \subseteq Token' /\ Token \subseteq 1 .. MaxStarts /\ Token' \subseteq 1 .. MaxStarts
      /\ 0 .. Len(start) \subseteq 0 .. Len(start')
  BY <1>1, ManagerAssumption DEF Token
<1>3. starting \in [Conn -> 0 .. Len(start')] /\ attached \in [Conn -> 0 .. Len(start')]
      /\ call \in [Caller -> 0 .. Len(start')]
  BY <1>2 DEF TypeOK
<1>4. recheck \in [proc : 0 .. Len(start'), failed : BOOLEAN]
  BY <1>2 DEF TypeOK
<1>5. /\ visible \subseteq Token' /\ delivered \subseteq Token'
      /\ change \in {NoChange} \cup SUBSET Token'
  BY <1>2 DEF TypeOK
<1>6. queue \in Seq(SUBSET Token')
  <2>1. queue \in Seq(SUBSET Token) /\ SUBSET Token \subseteq SUBSET Token'
    BY <1>2 DEF TypeOK
  <2>. QED BY <2>1
<1>. QED BY <1>1, <1>2, <1>3, <1>4, <1>5, <1>6

\* A connection that nothing was done to.
LEMMA ConnectionKept ==
  ASSUME McpInv, Continued, NEW d \in Conn,
         attached'[d] = attached[d], starting'[d] = starting[d], d \in errors' <=> d \in errors,
         config'[d] = config[d],
         shutdown' = "open" => shutdown = "open",
         shutdown' \notin {"open", "closed"} => shutdown \notin {"open", "closed"} \/ attached[d] = 0,
         attached[d] # 0 => start'[attached[d]].stage = "attached",
         starting[d] # 0 => start'[starting[d]].stage \in Pending,
         \A t \in Token' \ Token : start'[t].conn # d
  PROVE  ConnectionOK(d)'
<1>1. /\ attached[d] \in 0 .. Len(start) /\ starting[d] \in 0 .. Len(start) /\ Len(start) \in Nat
      /\ ConnectionOK(d) /\ (Enabled(d)' <=> Enabled(d)) /\ (Exists(d)' <=> Exists(d))
  BY StartsTyped DEF McpInv, TypeOK, Enabled, Exists
<1>2. attached[d] # 0 => attached[d] \in Token
  BY <1>1 DEF Token
<1>3. starting[d] # 0 => starting[d] \in Token
  BY <1>1 DEF Token
<1>4. \A t \in Token' : start'[t].conn = d => t \in Token /\ start[t].conn = d
  BY DEF Continued
<1>. QED BY <1>1, <1>2, <1>3, <1>4 DEF ConnectionOK, Continued

\* A start that nothing was done to.
LEMMA StartKept ==
  ASSUME McpInv, NEW t \in Token, start'[t] = start[t],
         attached[start[t].conn] = t => attached'[start[t].conn] = t,
         t \in visible' <=> t \in visible,
         \A k \in Caller : call'[k] = t => call[k] = t,
         recheck'.proc = t /\ ~recheck'.failed => recheck.proc = t /\ ~recheck.failed,
         shutdown' \in {"closing", "done"} => shutdown' = shutdown
  PROVE  StartOK(t)'
<1>1. StartOK(t)
  BY DEF McpInv
<1>. QED BY <1>1 DEF StartOK

\* The newest snapshot is the list that is visible.
LEMMA SnapshotKept ==
  ASSUME McpInv, step # "announcing", visible' \subseteq 1 .. MaxStarts,
         change' = visible' \/ (visible' = visible /\ change' = change),
         UNCHANGED <<queue, delivered, shutdown>>
  PROVE  NewestSnapshot'
<1>1. change = NoChange /\ NewestSnapshot /\ visible' # NoChange
  BY ManagerAssumption DEF McpInv, Mutation
<1>. QED BY <1>1 DEF NewestSnapshot

\* Steps that move one start on and do nothing else.
LEMMA OneStartMoves ==
  ASSUME McpInv, NEW t \in Token,
         start' \in Seq(Start), Len(start') = Len(start),
         start'[t].conn = start[t].conn, start'[t].conf = start[t].conf,
         \A u \in Token : u # t => start'[u] = start[u],
         UNCHANGED <<adminVars, step, toolVars, starting, attached, errors,
                     queue, delivered, call, recheck, shutdown>>,
         start[t].stage = "attached" <=> start'[t].stage = "attached",
         starting[start[t].conn] = t => start'[t].stage \in Pending,
         start'[t].health \notin {"none", "over"} => start'[t].stage \in Open,
         Leased(t) => start'[t].stage \in Open,
         shutdown \in {"closing", "done"} => start'[t].stage \in {"closing", "closed", "over"},
         shutdown = "done" => start'[t].stage # "closing"
  PROVE  McpInv'
<1>. USE DEF adminVars, toolVars
<1>1. Token' = Token /\ Continued
  <2>1. Len(start) \in Nat
    BY StartsTyped DEF McpInv
  <2>. QED BY <2>1 DEF Token, Continued
<1>2. TypeOK' /\ Mutation' /\ NewestSnapshot' /\ (recheck.failed => recheck.proc # 0)'
  BY <1>1 DEF McpInv, TypeOK, Mutation, NewestSnapshot, Start, Exists
<1>3. ASSUME NEW d \in Conn PROVE ConnectionOK(d)'
  <2>1. /\ ConnectionOK(d) /\ attached[d] \in 0 .. Len(start) /\ starting[d] \in 0 .. Len(start)
        /\ Len(start) \in Nat
    BY StartsTyped DEF McpInv, TypeOK
  <2>2. attached[d] # 0 => start'[attached[d]].stage = "attached"
    BY <2>1 DEF ConnectionOK, Token
  <2>3. starting[d] # 0 => start'[starting[d]].stage \in Pending
    BY <2>1 DEF ConnectionOK, Token
  <2>. QED BY <1>1, <2>2, <2>3, ConnectionKept
<1>4. ASSUME NEW u \in Token PROVE StartOK(u)'
  <2>1. CASE u # t
    BY <2>1, StartKept
  <2>2. CASE u = t
    <3>1. StartOK(t)
      BY DEF McpInv
    <3>. QED BY <2>2, <3>1 DEF StartOK, Leased
  <2>. QED BY <2>1, <2>2
<1>. QED BY <1>1, <1>2, <1>3, <1>4 DEF McpInv


\* What a start that has not arrived yet is like.
LEMMA PendingStart ==
  ASSUME McpInv, NEW t \in Token, start[t].stage \in Pending
  PROVE  start[t].health \in {"none", "over"} /\ ~Leased(t) /\ start[t].stage # "attached"
         /\ shutdown \notin {"closing", "done"}
<1>1. StartOK(t) /\ start[t].health \in Healths
  BY StartsTyped DEF McpInv
<1>. QED BY <1>1 DEF StartOK, Leased, Pending, Open

\* The steps of a start and of its health check that concern nobody else.
LEMMA StartStepsKeep ==
  ASSUME McpInv, NEW t \in Token,
         Connect(t) \/ StartSuperseded(t) \/ Probe(t) \/ ProbeEnds(t) \/ ProbesStop(t) \/ Close(t)
  PROVE  McpInv'
<1>. USE DEF SetStage, SetHealth, healthOnly
<1>1. /\ start \in Seq(Start) /\ t \in 1 .. Len(start) /\ start[t].stage \in Stages /\ StartOK(t)
      /\ start[t].conn \in Conn /\ ConnectionOK(start[t].conn)
  BY StartsTyped DEF McpInv, Token
<1>2. starting[start[t].conn] = t => start[t].stage \in Pending
  BY <1>1 DEF ConnectionOK, Token
<1>3. /\ \A x \in Stages : start' = Staged(start, t, x) =>
           /\ start' \in Seq(Start) /\ Len(start') = Len(start)
           /\ start'[t].conn = start[t].conn /\ start'[t].conf = start[t].conf
           /\ start'[t].stage = x /\ start'[t].health = start[t].health
           /\ \A u \in Token : u # t => start'[u] = start[u]
      /\ \A x \in Healths : start' = Diagnosed(start, t, x) =>
           /\ start' \in Seq(Start) /\ Len(start') = Len(start)
           /\ start'[t].conn = start[t].conn /\ start'[t].conf = start[t].conf
           /\ start'[t].stage = start[t].stage /\ start'[t].health = x
           /\ \A u \in Token : u # t => start'[u] = start[u]
  <2>1. ASSUME NEW x \in Stages, start' = Staged(start, t, x)
        PROVE  /\ start' \in Seq(Start) /\ Len(start') = Len(start)
               /\ start'[t].conn = start[t].conn /\ start'[t].conf = start[t].conf
               /\ start'[t].stage = x /\ start'[t].health = start[t].health
               /\ \A u \in Token : u # t => start'[u] = start[u]
    BY <1>1, <2>1, StageSteps, Zenon
  <2>2. ASSUME NEW x \in Healths, start' = Diagnosed(start, t, x)
        PROVE  /\ start' \in Seq(Start) /\ Len(start') = Len(start)
               /\ start'[t].conn = start[t].conn /\ start'[t].conf = start[t].conf
               /\ start'[t].stage = start[t].stage /\ start'[t].health = x
               /\ \A u \in Token : u # t => start'[u] = start[u]
    BY <1>1, <2>2, HealthSteps, Zenon
  <2>. QED BY <2>1, <2>2
<1>4. CASE Connect(t)
  <2>1. PICK x \in {"connected", "failed"} : start' = Staged(start, t, x)
    BY <1>4 DEF Connect, Staged
  <2>2. start[t].stage \in Pending /\ x \in Stages /\ x \in Pending /\ x # "attached"
    BY <1>4 DEF Connect, Pending, Stages
  <2>. QED BY <1>3, <1>4, <2>1, <2>2, PendingStart, OneStartMoves DEF Connect
<1>5. CASE StartSuperseded(t)
  <2>1. PICK x \in {"closed", "over"} : start' = Staged(start, t, x)
    BY <1>5 DEF StartSuperseded, DropProcess, Staged
  <2>2. start[t].stage \in Pending /\ x \in Stages /\ x # "attached" /\ starting[start[t].conn] # t
    BY <1>5 DEF StartSuperseded, Arrives, Superseded, Pending, Stages
  <2>. QED BY <1>3, <1>5, <2>1, <2>2, PendingStart, OneStartMoves DEF StartSuperseded
<1>6. CASE Probe(t)
  <2>1. "probing" \in Healths /\ start[t].stage = "attached" /\ start' = Diagnosed(start, t, "probing")
    BY <1>6 DEF Probe, Healths, Diagnosed
  <2>2. "attached" \in Open /\ "attached" \notin Pending
    BY DEF Open, Pending
  <2>. QED BY <1>1, <1>2, <1>3, <1>6, <2>1, <2>2, OneStartMoves DEF Probe, StartOK, Leased
<1>7. CASE ProbeEnds(t)
  <2>1. PICK x \in {"good", "bad"} : start' = Diagnosed(start, t, x)
    BY <1>7 DEF ProbeEnds, Diagnosed
  <2>2. x \in Healths /\ start[t].stage \in Open
    BY <1>1, <1>7 DEF ProbeEnds, StartOK, Healths
  <2>. QED BY <1>1, <1>2, <1>3, <1>7, <2>1, <2>2, OneStartMoves DEF ProbeEnds, StartOK, Leased
<1>8. CASE ProbesStop(t)
  <2>1. "over" \in Healths /\ start' = Diagnosed(start, t, "over")
    BY <1>8 DEF ProbesStop, Healths, Diagnosed
  <2>. QED BY <1>1, <1>2, <1>3, <1>8, <2>1, OneStartMoves DEF ProbesStop, StartOK, Leased
<1>9. CASE Close(t)
  <2>1. /\ "closed" \in Stages /\ start' = Staged(start, t, "closed") /\ start[t].stage = "closing"
        /\ start[t].health \in {"none", "over"} /\ ~Leased(t) /\ start[t].stage \notin Pending
    BY <1>9 DEF Close, Stages, Unused, Pending, Staged
  <2>. QED BY <1>2, <1>3, <1>9, <2>1, OneStartMoves DEF Close
<1>. QED BY <1>4, <1>5, <1>6, <1>7, <1>8, <1>9

\* The start that arrives is not wanted any more, or its connection fails.
LEMMA StartGivesUp ==
  ASSUME McpInv, NEW t \in Token, StartObsolete(t) \/ StartFails(t)
  PROVE  McpInv'
<1>. DEFINE c == start[t].conn
<1>. USE DEF SetStage, adminVars, toolVars
<1>1. /\ start \in Seq(Start) /\ t \in 1 .. Len(start) /\ Len(start) \in Nat /\ StartOK(t) /\ t # 0
      /\ c \in Conn /\ ConnectionOK(c) /\ step = "free"
      /\ start[t].stage \in Pending /\ starting[c] = t /\ attached[c] = 0
      /\ starting \in [Conn -> 0 .. Len(start)] /\ starting' = [starting EXCEPT ![c] = 0]
  <2>1. /\ start \in Seq(Start) /\ t \in 1 .. Len(start) /\ Len(start) \in Nat /\ t # 0 /\ StartOK(t)
        /\ c \in Conn /\ ConnectionOK(c) /\ starting \in [Conn -> 0 .. Len(start)]
    BY StartsTyped DEF McpInv, TypeOK, Token
  <2>2. step = "free" /\ start[t].stage \in Pending /\ starting[c] = t /\ starting' = [starting EXCEPT ![c] = 0]
    BY DEF StartObsolete, StartFails, Arrives, Superseded, Pending
  <2>. QED BY <2>1, <2>2 DEF ConnectionOK
<1>2. PICK x \in {"closed", "over"} : start' = Staged(start, t, x)
  BY DEF StartObsolete, StartFails, DropProcess, Staged
<1>3. x \in Stages /\ x \notin Open /\ x \notin Pending /\ x # "attached"
  BY DEF Stages, Open, Pending
<1>4. /\ start' \in Seq(Start) /\ Len(start') = Len(start)
      /\ start'[t].conn = c /\ start'[t].conf = start[t].conf
      /\ start'[t].stage = x /\ start'[t].health = start[t].health
      /\ \A u \in Token : u # t => start'[u] = start[u]
  <2>1. start \in Seq(Start) /\ t \in Token /\ x \in Stages
    BY <1>1, <1>3 DEF Token
  <2>. QED BY <1>2, <2>1, StageSteps, Zenon
<1>5. Token' = Token /\ Continued
  BY <1>1, <1>4 DEF Token, Continued
<1>6. /\ stored' = stored /\ config' = config /\ draft' = draft /\ edited' = edited /\ step' = step
      /\ visible' = visible /\ change' = change /\ attached' = attached /\ queue' = queue
      /\ delivered' = delivered /\ call' = call /\ recheck' = recheck /\ shutdown' = shutdown
      /\ errors' = errors \/ errors' = errors \cup {c}
      /\ errors' = errors => shutdown # "open"
      /\ errors' # errors => Exists(c)
  <2>1. CASE StartObsolete(t)
    <3>1. shutdown # "open"
      BY <1>1, <2>1 DEF StartObsolete, Obsolete, ConnectionOK
    <3>. QED BY <2>1, <3>1 DEF StartObsolete
  <2>2. CASE StartFails(t)
    <3>1. Exists(c) /\ shutdown = "open" /\ c \notin errors
      BY <1>1, <2>2 DEF StartFails, Obsolete, Enabled, ConnectionOK
    <3>. QED BY <2>2, <3>1 DEF StartFails
  <2>. QED BY <2>1, <2>2
<1>7. TypeOK' /\ Mutation' /\ NewestSnapshot' /\ (recheck.failed => recheck.proc # 0)'
  <2>1. starting' \in [Conn -> 0 .. Len(start)] /\ errors' \subseteq Conn
    <3>1. errors \subseteq Conn
      BY DEF McpInv, TypeOK
    <3>. QED BY <1>1, <1>6, <3>1
  <2>. QED BY <1>4, <1>5, <1>6, <2>1 DEF McpInv, TypeOK, Mutation, NewestSnapshot, Start, Exists
<1>8. ASSUME NEW d \in Conn PROVE ConnectionOK(d)'
  <2>1. /\ ConnectionOK(d) /\ attached[d] \in 0 .. Len(start) /\ starting[d] \in 0 .. Len(start)
    BY DEF McpInv, TypeOK
  <2>2. CASE d # c
    <3>1. attached[d] # 0 => start'[attached[d]].stage = "attached"
      <4>1. attached[d] # 0 => attached[d] \in Token /\ attached[d] # t /\ start[attached[d]].stage = "attached"
        BY <1>1, <2>1, <2>2 DEF ConnectionOK, Token
      <4>. QED BY <1>4, <4>1
    <3>2. starting[d] # 0 => start'[starting[d]].stage \in Pending
      <4>1. starting[d] # 0 => starting[d] \in Token /\ starting[d] # t /\ start[starting[d]].stage \in Pending
        BY <1>1, <2>1, <2>2 DEF ConnectionOK, Token
      <4>. QED BY <1>4, <4>1
    <3>3. starting'[d] = starting[d] /\ (d \in errors' <=> d \in errors)
      BY <1>1, <1>6, <2>2
    <3>. QED BY <1>5, <1>6, <3>1, <3>2, <3>3, ConnectionKept
  <2>3. CASE d = c
    <3>1. attached'[c] = 0 /\ starting'[c] = 0 /\ (c \in errors' \/ shutdown # "open")
      BY <1>1, <1>6
    <3>2. d \in errors' => config'[d] # Absent
      BY <1>1, <1>6, <2>3 DEF ConnectionOK, Exists
    <3>3. attached'[d] = 0 /\ starting'[d] = 0 /\ (shutdown' = "open" => d \in errors')
      BY <1>6, <2>3, <3>1
    <3>. QED BY <3>2, <3>3 DEF ConnectionOK, Exists
  <2>. QED BY <2>2, <2>3
<1>9. ASSUME NEW u \in Token PROVE StartOK(u)'
  <2>1. CASE u # t
    BY <1>4, <1>6, <2>1, StartKept
  <2>2. CASE u = t
    <3>1. start[t].health \in {"none", "over"} /\ ~Leased(t) /\ shutdown \notin {"closing", "done"}
      BY <1>1, PendingStart
    <3>. QED BY <1>1, <1>3, <1>4, <1>6, <2>2, <3>1 DEF StartOK, Leased, Pending, Open
  <2>. QED BY <2>1, <2>2
<1>. QED BY <1>5, <1>7, <1>8, <1>9 DEF McpInv


-----------------------------------------------------------------------------
\* The process of a connection.
LEMMA AttachedProcess ==
  ASSUME McpInv, NEW c \in Conn
  PROVE  /\ attached[c] \in 0 .. Len(start) /\ starting[c] \in 0 .. Len(start)
         /\ attached[c] # 0 => /\ attached[c] \in Token /\ start[attached[c]].conn = c
                               /\ start[attached[c]].stage = "attached" /\ Enabled(c) /\ Exists(c)
                               /\ starting[c] = 0
         /\ starting[c] # 0 => /\ starting[c] \in Token /\ start[starting[c]].conn = c
                               /\ start[starting[c]].stage \in Pending /\ Enabled(c) /\ Exists(c)
                               /\ attached[c] = 0
         /\ \A d \in Conn : d # c => /\ attached[d] = 0 \/ attached[d] # attached[c]
                                     /\ starting[d] = 0 \/ starting[d] # attached[c]
<1>1. \A d \in Conn : ConnectionOK(d) /\ attached[d] \in 0 .. Len(start) /\ starting[d] \in 0 .. Len(start)
  BY DEF McpInv, TypeOK
<1>2. Len(start) \in Nat
  BY StartsTyped DEF McpInv
<1>3. attached[c] # 0 => /\ attached[c] \in Token /\ start[attached[c]].conn = c
                         /\ start[attached[c]].stage = "attached" /\ Enabled(c) /\ Exists(c)
                         /\ starting[c] = 0
  BY <1>1, <1>2 DEF ConnectionOK, Enabled, Token
<1>4. starting[c] # 0 => /\ starting[c] \in Token /\ start[starting[c]].conn = c
                         /\ start[starting[c]].stage \in Pending /\ Enabled(c) /\ Exists(c)
                         /\ attached[c] = 0
  BY <1>1, <1>2 DEF ConnectionOK, Enabled, Token
<1>5. ASSUME NEW d \in Conn, d # c
      PROVE  /\ attached[d] = 0 \/ attached[d] # attached[c]
             /\ starting[d] = 0 \/ starting[d] # attached[c]
  BY <1>1, <1>5 DEF ConnectionOK
<1>. QED BY <1>1, <1>3, <1>4, <1>5

\* A process is detached for a failure; nothing starts in its place.
LEMMA FailKeeps ==
  ASSUME McpInv, NEW c \in Conn, attached[c] # 0, step = "free", shutdown = "open",
         start' \in Seq(Start), Len(start') = Len(start),
         start'[attached[c]].conn = start[attached[c]].conn,
         start'[attached[c]].conf = start[attached[c]].conf,
         start'[attached[c]].stage = "draining",
         \A t \in Token : t # attached[c] => start'[t] = start[t],
         attached' = [attached EXCEPT ![c] = 0], starting' = [starting EXCEPT ![c] = 0],
         errors' = errors \cup {c}, Refresh(Live \ {attached[c]}), step' = "announcing",
         UNCHANGED <<adminVars, queue, delivered, call, shutdown>>,
         recheck' = recheck \/ recheck' = NoRecheck
  PROVE  McpInv'
<1>. DEFINE a == attached[c]
<1>. USE DEF adminVars
<1>1. /\ a \in Token /\ start[a].conn = c /\ start[a].stage = "attached" /\ Exists(c)
      /\ \A d \in Conn : d # c => attached[d] # a /\ starting[d] # a
  BY AttachedProcess, StartsTyped DEF McpInv
<1>2. Token' = Token /\ Continued /\ Len(start) \in Nat
  <2>1. Len(start) \in Nat
    BY StartsTyped DEF McpInv
  <2>. QED BY <2>1 DEF Token, Continued
<1>3. /\ visible' = visible \ {a}
      /\ change' = visible' \/ (visible' = visible /\ change' = change)
  BY RefreshTakesOut
<1>4. /\ attached \in [Conn -> 0 .. Len(start)] /\ starting \in [Conn -> 0 .. Len(start)]
      /\ visible \subseteq Token /\ change \in {NoChange} \cup SUBSET Token /\ errors \subseteq Conn
      /\ recheck \in [proc : 0 .. Len(start), failed : BOOLEAN]
  BY DEF McpInv, TypeOK
<1>5. TypeOK'
  <2>1. NoRecheck \in [proc : 0 .. Len(start), failed : BOOLEAN] /\ 0 \in 0 .. Len(start)
    BY <1>2 DEF NoRecheck
  <2>2. attached' \in [Conn -> 0 .. Len(start)] /\ starting' \in [Conn -> 0 .. Len(start)]
    BY <1>4, <2>1
  <2>3. visible' \subseteq Token /\ change' \in {NoChange} \cup SUBSET Token /\ errors' \subseteq Conn
    BY <1>3, <1>4
  <2>4. recheck' \in [proc : 0 .. Len(start), failed : BOOLEAN]
    BY <1>4, <2>1
  <2>. QED BY <1>2, <2>2, <2>3, <2>4 DEF McpInv, TypeOK, Start
<1>6. Mutation' /\ (recheck.failed => recheck.proc # 0)'
  BY DEF McpInv, Mutation, NoRecheck
<1>7. NewestSnapshot'
  <2>1. visible' \subseteq 1 .. MaxStarts
    <3>1. Len(start) <= MaxStarts /\ MaxStarts \in Nat
      BY ManagerAssumption DEF McpInv, TypeOK
    <3>2. Token \subseteq 1 .. MaxStarts
      BY <1>2, <3>1 DEF Token
    <3>. QED BY <1>3, <1>4, <3>2
  <2>. QED BY <1>3, <2>1, SnapshotKept
<1>8. ASSUME NEW d \in Conn PROVE ConnectionOK(d)'
  <2>1. CASE d # c
    <3>1. attached[d] # 0 => start'[attached[d]].stage = "attached"
      <4>1. attached[d] # 0 => attached[d] \in Token /\ start[attached[d]].stage = "attached"
        BY AttachedProcess
      <4>. QED BY <1>1, <2>1, <4>1
    <3>2. starting[d] # 0 => start'[starting[d]].stage \in Pending
      <4>1. starting[d] # 0 => starting[d] \in Token /\ start[starting[d]].stage \in Pending
        BY AttachedProcess
      <4>. QED BY <1>1, <2>1, <4>1
    <3>3. attached'[d] = attached[d] /\ starting'[d] = starting[d] /\ (d \in errors' <=> d \in errors)
      BY <1>4, <2>1
    <3>. QED BY <1>2, <3>1, <3>2, <3>3, ConnectionKept
  <2>2. CASE d = c
    <3>1. attached'[d] = 0 /\ starting'[d] = 0 /\ d \in errors' /\ config'[d] # Absent
      BY <1>1, <1>4, <2>2 DEF Exists
    <3>. QED BY <3>1 DEF ConnectionOK, Exists
  <2>. QED BY <2>1, <2>2
<1>9. ASSUME NEW u \in Token PROVE StartOK(u)'
  <2>1. CASE u # a
    <3>1. attached[start[u].conn] = u => attached'[start[u].conn] = u
      <4>1. start[u].conn \in Conn
        BY StartsTyped DEF McpInv
      <4>. QED BY <1>4, <2>1, <4>1
    <3>2. recheck'.proc = u /\ ~recheck'.failed => recheck.proc = u /\ ~recheck.failed
      BY <1>2 DEF NoRecheck, Token
    <3>. QED BY <1>3, <2>1, <3>1, <3>2, StartKept
  <2>2. CASE u = a
    BY <1>3, <2>2 DEF StartOK, Open
  <2>. QED BY <2>1, <2>2
<1>. QED BY <1>2, <1>5, <1>6, <1>7, <1>8, <1>9 DEF McpInv

\* The last start of a sequence with one more.
LEMMA OneMoreStart ==
  ASSUME NEW seq \in Seq(Start), NEW row \in Start
  PROVE  /\ Append(seq, row) \in Seq(Start) /\ Len(Append(seq, row)) = Len(seq) + 1
         /\ Append(seq, row)[Len(seq) + 1] = row
         /\ \A t \in 1 .. Len(seq) : Append(seq, row)[t] = seq[t]
BY AppendProperties

\* A connection changes and its process is detached; it starts again if it is
\* enabled.
LEMMA ScheduleKeeps ==
  ASSUME McpInv, NEW c \in Conn,
         \/ step = "publishing" /\ c = edited /\ config' = draft /\ step' = "announcing"
         \/ step = "free" /\ shutdown = "open" /\ config' = config /\ step' = "free" /\ change' = change,
         NEW n \in {0, Len(start) + 1},
         n # 0 => /\ Len(start) < MaxStarts /\ config'[c] # Absent /\ config'[c].enabled
                  /\ start' = Append(DrainedStarts(c), NewStart(c, config'[c].conf)),
         n = 0 => ~(config'[c] # Absent /\ config'[c].enabled) /\ start' = DrainedStarts(c),
         starting' = [starting EXCEPT ![c] = n], attached' = [attached EXCEPT ![c] = 0],
         errors' = errors \ {c}, visible' = visible \ {attached[c]},
         change' = visible' \/ (visible' = visible /\ change' = change),
         UNCHANGED <<stored, draft, edited, queue, delivered, call, recheck, shutdown>>
  PROVE  McpInv'
<1>. DEFINE a == attached[c]
<1>1. /\ a # 0 => a \in Token /\ start[a].conn = c
      /\ \A d \in Conn : d # c => (attached[d] # 0 => attached[d] # a) /\ (starting[d] # 0 => starting[d] # a)
  BY AttachedProcess
<1>2. /\ config' \in [Conn -> Saved \cup {Absent}] /\ \A d \in Conn : d # c => config'[d] = config[d]
      /\ shutdown \in {"open", "closed"} /\ stored' = config'
  BY DEF McpInv, Mutation, TypeOK
<1>3. /\ Len(start) \in Nat /\ Len(start) <= MaxStarts /\ MaxStarts \in Nat
  BY StartsTyped, ManagerAssumption DEF McpInv
<1>4. /\ DrainedStarts(c) \in Seq(Start) /\ Len(DrainedStarts(c)) = Len(start)
      /\ a # 0 => /\ DrainedStarts(c)[a].conn = c /\ DrainedStarts(c)[a].conf = start[a].conf
                  /\ DrainedStarts(c)[a].stage = "draining"
      /\ \A t \in Token : t # a => DrainedStarts(c)[t] = start[t]
  BY DrainGives
<1>5. /\ start' \in Seq(Start) /\ Len(start') <= MaxStarts
      /\ Token' = Token \cup ({n} \ {0}) /\ n \notin Token
      /\ \A t \in Token : start'[t] = DrainedStarts(c)[t]
      /\ n # 0 => start'[n] = NewStart(c, config'[c].conf)
      /\ \A t \in Token' : n # 0 => t <= n
  <2>1. CASE n = 0
    BY <1>3, <1>4, <2>1 DEF Token
  <2>2. CASE n # 0
    <3>1. NewStart(c, config'[c].conf) \in Start
      BY <1>2, <2>2 DEF NewStart, Start, Saved, Stages, Healths
    <3>2. /\ start' \in Seq(Start) /\ Len(start') = Len(start) + 1
          /\ start'[Len(start) + 1] = NewStart(c, config'[c].conf)
          /\ \A t \in 1 .. Len(start) : start'[t] = DrainedStarts(c)[t]
      <4>. DEFINE new == Append(DrainedStarts(c), NewStart(c, config'[c].conf))
      <4>1. /\ new \in Seq(Start) /\ Len(new) = Len(DrainedStarts(c)) + 1
            /\ new[Len(DrainedStarts(c)) + 1] = NewStart(c, config'[c].conf)
            /\ \A t \in 1 .. Len(DrainedStarts(c)) : new[t] = DrainedStarts(c)[t]
        BY <1>4, <3>1, OneMoreStart
      <4>2. start' = new /\ Len(DrainedStarts(c)) = Len(start)
        BY <1>4, <2>2
      <4>. HIDE DEF new
      <4>. QED BY <4>1, <4>2
    <3>3. n = Len(start) + 1 /\ Len(start) < MaxStarts
      BY <2>2
    <3>. QED BY <1>3, <3>2, <3>3 DEF Token
  <2>. QED BY <2>1, <2>2
<1>6. Continued
  <2>1. Len(start) <= Len(start')
    <3>1. Token \subseteq Token' /\ Len(start') \in Nat
      BY <1>5
    <3>. QED BY <1>3, <3>1 DEF Token
  <2>2. ASSUME NEW t \in Token PROVE start'[t].conn = start[t].conn /\ start'[t].conf = start[t].conf
    <3>1. t # 0
      BY <1>3 DEF Token
    <3>2. CASE t = a
      BY <1>1, <1>4, <1>5, <3>1, <3>2
    <3>3. CASE t # a
      BY <1>4, <1>5, <3>3
    <3>. QED BY <3>2, <3>3
  <2>. QED BY <1>5, <2>1, <2>2 DEF Continued
<1>7. /\ attached \in [Conn -> 0 .. Len(start)] /\ starting \in [Conn -> 0 .. Len(start)]
      /\ visible \subseteq Token /\ change \in {NoChange} \cup SUBSET Token /\ errors \subseteq Conn
      /\ call \in [Caller -> 0 .. Len(start)] /\ recheck \in [proc : 0 .. Len(start), failed : BOOLEAN]
  BY DEF McpInv, TypeOK
<1>8. TypeOK'
  <2>1. 0 .. Len(start) \subseteq 0 .. Len(start') /\ 0 \in 0 .. Len(start') /\ n \in 0 .. Len(start')
    BY <1>3, <1>5, <1>6 DEF Continued, Token
  <2>2. starting' \in [Conn -> 0 .. Len(start')] /\ attached' \in [Conn -> 0 .. Len(start')]
    BY <1>7, <2>1
  <2>3. visible' \subseteq Token' /\ change' \in {NoChange} \cup SUBSET Token' /\ errors' \subseteq Conn
    BY <1>5, <1>7
  <2>4. step' \in {"free", "saving", "publishing", "announcing"}
    OBVIOUS
  <2>. QED BY <1>2, <1>5, <1>6, <2>2, <2>3, <2>4, StillTyped DEF McpInv, TypeOK
<1>9. Mutation' /\ (recheck.failed => recheck.proc # 0)'
  BY <1>2 DEF McpInv, Mutation
<1>10. NewestSnapshot'
  <2>1. visible' \subseteq 1 .. MaxStarts
    <3>1. Token \subseteq 1 .. MaxStarts
      BY <1>3 DEF Token
    <3>. QED BY <1>7, <3>1
  <2>. QED BY <2>1, SnapshotKept
<1>11. ASSUME NEW d \in Conn PROVE ConnectionOK(d)'
  <2>1. CASE d # c
    <3>1. attached[d] # 0 => start'[attached[d]].stage = "attached"
      <4>1. attached[d] # 0 => attached[d] \in Token /\ start[attached[d]].stage = "attached"
        BY AttachedProcess
      <4>. QED BY <1>1, <1>4, <1>5, <2>1, <4>1
    <3>2. starting[d] # 0 => start'[starting[d]].stage \in Pending
      <4>1. starting[d] # 0 => starting[d] \in Token /\ start[starting[d]].stage \in Pending
        BY AttachedProcess
      <4>. QED BY <1>1, <1>4, <1>5, <2>1, <4>1
    <3>3. attached'[d] = attached[d] /\ starting'[d] = starting[d] /\ (d \in errors' <=> d \in errors)
      BY <1>7, <2>1
    <3>4. \A t \in Token' \ Token : start'[t].conn # d
      BY <1>5, <2>1 DEF NewStart
    <3>. QED BY <1>2, <1>6, <2>1, <3>1, <3>2, <3>3, <3>4, ConnectionKept
  <2>2. CASE d = c
    <3>1. attached'[d] = 0 /\ starting'[d] = n /\ d \notin errors'
      BY <1>7, <2>2
    <3>2. n # 0 => LET s == start'[n]
                   IN s.conn = d /\ s.stage \in Pending /\ config'[d] # Absent /\ config'[d].enabled
                      /\ config'[d].conf = s.conf
      BY <1>5, <2>2 DEF NewStart, Pending
    <3>3. n = 0 => ~(config'[d] # Absent /\ config'[d].enabled)
      BY <2>2
    <3>4. \A t \in Token' : n # 0 => t <= n
      BY <1>5
    <3>. QED BY <3>1, <3>2, <3>3, <3>4 DEF ConnectionOK, Enabled, Exists
  <2>. QED BY <2>1, <2>2
<1>12. ASSUME NEW u \in Token' PROVE StartOK(u)'
  <2>1. CASE u \in Token /\ u # a
    <3>1. attached[start[u].conn] = u => attached'[start[u].conn] = u
      <4>1. start[u].conn \in Conn
        BY <2>1, StartsTyped DEF McpInv
      <4>. QED BY <1>7, <2>1, <4>1
    <3>. QED BY <1>4, <1>5, <2>1, <3>1, StartKept
  <2>2. CASE u \in Token /\ u = a
    <3>1. start'[u].stage = "draining" /\ u \notin visible'
      BY <1>3, <1>4, <1>5, <2>2 DEF Token
    <3>. QED BY <1>2, <3>1 DEF StartOK, Open
  <2>3. CASE u = n /\ n # 0
    <3>1. start'[u].stage = "connecting" /\ start'[u].health = "none"
      BY <1>5, <2>3 DEF NewStart
    <3>2. u \notin visible' /\ \A k \in Caller : call[k] # u
      BY <1>3, <1>7, <2>3 DEF Token
    <3>3. recheck.proc # u
      BY <1>3, <1>7, <2>3
    <3>. QED BY <1>2, <3>1, <3>2, <3>3 DEF StartOK
  <2>. QED BY <1>5, <2>1, <2>2, <2>3
<1>. QED BY <1>8, <1>9, <1>10, <1>11, <1>12 DEF McpInv


\* Add, Update and Remove are published.
LEMMA PublishKeeps ==
  ASSUME McpInv, PublishStep
  PROVE  McpInv'
<1>. DEFINE c == edited
<1>. USE DEF toolVars
<1>1. /\ c \in Conn /\ step = "publishing" /\ config' = draft /\ step' = "announcing"
      /\ UNCHANGED <<stored, draft, edited, queue, delivered, call, recheck, shutdown>>
      /\ draft[c] = Absent => Exists(c)
      /\ draft[c] # Absent /\ draft[c].enabled => Len(start) < MaxStarts
  BY DEF PublishStep, PublishAdd, PublishUpdate, PublishRemove, McpInv, TypeOK, Mutation
<1>2. /\ attached \in [Conn -> 0 .. Len(start)] /\ starting \in [Conn -> 0 .. Len(start)]
      /\ errors \subseteq Conn /\ ConnectionOK(c) /\ visible \subseteq Token /\ 0 \notin Token
      /\ Len(start) \in Nat /\ Len(DrainedStarts(c)) = Len(start)
  BY <1>1, StartsTyped, DrainGives DEF McpInv, TypeOK, Token
<1>3. CASE PublishAdd
  <2>1. ~Exists(c) /\ attached[c] = 0 /\ starting[c] = 0 /\ c \notin errors /\ DrainedStarts(c) = start
    BY <1>2, <1>3 DEF PublishAdd, ConnectionOK, Enabled, DrainedStarts
  <2>2. /\ attached' = [attached EXCEPT ![c] = 0] /\ visible' = visible \ {attached[c]}
        /\ change' = visible' \/ (visible' = visible /\ change' = change)
        /\ draft[c] # Absent
    BY <1>1, <1>2, <1>3, <2>1 DEF PublishAdd
  <2>3. CASE draft[c].enabled
    <3>1. /\ start' = Append(DrainedStarts(c), NewStart(c, config'[c].conf))
          /\ starting' = [starting EXCEPT ![c] = Len(start) + 1] /\ errors' = errors \ {c}
      BY <1>3, <2>1, <2>3 DEF PublishAdd, Schedule
    <3>2. Len(start) + 1 # 0 /\ Len(start) < MaxStarts /\ config'[c] # Absent /\ config'[c].enabled
      BY <1>1, <1>2, <2>2, <2>3
    <3>. QED BY <1>1, <2>2, <3>1, <3>2, ScheduleKeeps
  <2>4. CASE ~draft[c].enabled
    <3>1. /\ start' = DrainedStarts(c) /\ starting' = [starting EXCEPT ![c] = 0] /\ errors' = errors \ {c}
      BY <1>2, <1>3, <2>1, <2>4 DEF PublishAdd
    <3>. QED BY <1>1, <1>2, <2>2, <2>4, <3>1, ScheduleKeeps
  <2>. QED BY <2>3, <2>4
<1>4. CASE PublishUpdate
  <2>1. /\ attached' = [attached EXCEPT ![c] = 0] /\ draft[c] # Absent /\ errors' = errors \ {c}
        /\ Refresh(Live \ {attached[c]})
    BY <1>4 DEF PublishUpdate, Detach
  <2>2. /\ visible' = visible \ {attached[c]}
        /\ change' = visible' \/ (visible' = visible /\ change' = change)
    BY <1>1, <2>1, RefreshTakesOut
  <2>3. CASE draft[c].enabled
    <3>1. /\ start' = Append(DrainedStarts(c), NewStart(c, config'[c].conf))
          /\ starting' = [[starting EXCEPT ![c] = 0] EXCEPT ![c] = Len(DrainedStarts(c)) + 1]
      BY <1>4, <2>3 DEF PublishUpdate, Schedule
    <3>2. starting' = [starting EXCEPT ![c] = Len(start) + 1]
      BY <1>1, <1>2, <3>1
    <3>. QED BY <1>1, <1>2, <2>1, <2>2, <2>3, <3>1, <3>2, ScheduleKeeps
  <2>4. CASE ~draft[c].enabled
    <3>1. start' = DrainedStarts(c) /\ starting' = [starting EXCEPT ![c] = 0]
      BY <1>4, <2>4 DEF PublishUpdate
    <3>. QED BY <1>1, <1>2, <2>1, <2>2, <2>4, <3>1, ScheduleKeeps
  <2>. QED BY <2>3, <2>4
<1>5. CASE PublishRemove
  <2>1. /\ attached' = [attached EXCEPT ![c] = 0] /\ draft[c] = Absent /\ errors' = errors \ {c}
        /\ Refresh(Live \ {attached[c]})
        /\ start' = DrainedStarts(c) /\ starting' = [starting EXCEPT ![c] = 0]
    BY <1>5 DEF PublishRemove, Detach
  <2>2. /\ visible' = visible \ {attached[c]}
        /\ change' = visible' \/ (visible' = visible /\ change' = change)
    BY <1>1, <2>1, RefreshTakesOut
  <2>. QED BY <1>1, <1>2, <2>1, <2>2, ScheduleKeeps
<1>. QED BY <1>3, <1>4, <1>5 DEF PublishStep

\* A finding about a connection that neither starts nor stops anything.
LEMMA StatusKeeps ==
  ASSUME McpInv, NEW c \in Conn, step = "free", shutdown = "open", Exists(c),
         start' \in Seq(Start), Len(start') = Len(start),
         \A t \in Token : /\ start'[t].conn = start[t].conn /\ start'[t].conf = start[t].conf
                          /\ start'[t].stage = start[t].stage
                          /\ start'[t].health \notin {"none", "over"} => start'[t].stage \in Open,
         \/ errors' = errors \ {c} /\ starting' = starting /\ (attached[c] # 0 \/ starting[c] # 0 \/ ~Enabled(c))
         \/ errors' = errors \cup {c} /\ starting' = [starting EXCEPT ![c] = 0] /\ attached[c] = 0,
         UNCHANGED <<adminVars, step, toolVars, attached, queue, delivered, call, recheck, shutdown>>
  PROVE  McpInv'
<1>. USE DEF adminVars, toolVars
<1>1. Token' = Token /\ Continued /\ Len(start) \in Nat
  <2>1. Len(start) \in Nat
    BY StartsTyped DEF McpInv
  <2>. QED BY <2>1 DEF Token, Continued
<1>2. starting \in [Conn -> 0 .. Len(start)] /\ errors \subseteq Conn
  BY DEF McpInv, TypeOK
<1>3. /\ starting' \in [Conn -> 0 .. Len(start)] /\ errors' \subseteq Conn
      /\ \A d \in Conn : d # c => starting'[d] = starting[d] /\ (d \in errors' <=> d \in errors)
      /\ \/ c \notin errors' /\ starting'[c] = starting[c] /\ (attached[c] # 0 \/ starting[c] # 0 \/ ~Enabled(c))
         \/ c \in errors' /\ starting'[c] = 0 /\ attached[c] = 0
  BY <1>1, <1>2
<1>4. TypeOK' /\ Mutation' /\ NewestSnapshot' /\ (recheck.failed => recheck.proc # 0)'
  BY <1>1, <1>3 DEF McpInv, TypeOK, Mutation, NewestSnapshot, Start, Exists
<1>5. ASSUME NEW d \in Conn PROVE ConnectionOK(d)'
  <2>1. /\ attached[d] # 0 => attached[d] \in Token /\ start'[attached[d]].stage = "attached"
        /\ starting[d] # 0 => starting[d] \in Token /\ start'[starting[d]].stage \in Pending
    BY AttachedProcess
  <2>2. CASE d # c
    BY <1>1, <1>3, <2>1, <2>2, ConnectionKept
  <2>3. CASE d = c
    <3>1. ConnectionOK(d) /\ (Exists(d)' <=> Exists(d)) /\ (Enabled(d)' <=> Enabled(d)) /\ Exists(d)
      BY <2>3 DEF McpInv, Exists, Enabled
    <3>. QED BY <1>1, <1>3, <2>1, <2>3, <3>1 DEF ConnectionOK
  <2>. QED BY <2>2, <2>3
<1>6. ASSUME NEW u \in Token PROVE StartOK(u)'
  <2>1. StartOK(u)
    BY DEF McpInv
  <2>. QED BY <2>1 DEF StartOK
<1>. QED BY <1>1, <1>4, <1>5, <1>6 DEF McpInv


\* A process becomes the one of its connection.
LEMMA AttachKeeps ==
  ASSUME McpInv, NEW t \in Token, Attach(t)
  PROVE  McpInv'
<1>. DEFINE c == start[t].conn
<1>. USE DEF adminVars, toolVars
<1>1. /\ start \in Seq(Start) /\ t \in 1 .. Len(start) /\ Len(start) \in Nat /\ t # 0
      /\ c \in Conn /\ ConnectionOK(c)
      /\ step = "free" /\ starting[c] = t /\ shutdown = "open" /\ Enabled(c) /\ Exists(c)
      /\ config[c].conf = start[t].conf /\ start[t].stage \in Pending
  BY StartsTyped DEF McpInv, Attach, Arrives, Superseded, Obsolete, Pending, Token, Enabled
<1>2. attached[c] = 0 /\ \A d \in Conn : d # c => attached[d] # t /\ starting[d] # t
  BY <1>1, AttachedProcess
<1>3. /\ start' = Staged(start, t, "attached") /\ attached' = [attached EXCEPT ![c] = t]
      /\ starting' = [starting EXCEPT ![c] = 0] /\ errors' = errors \ {c}
      /\ Refresh(Live \cup {t}) /\ step' = "announcing"
      /\ UNCHANGED <<adminVars, queue, delivered, call, recheck, shutdown>>
  BY <1>2 DEF Attach, Staged
<1>4. /\ start' \in Seq(Start) /\ Len(start') = Len(start)
      /\ start'[t].conn = c /\ start'[t].conf = start[t].conf
      /\ start'[t].stage = "attached" /\ start'[t].health = start[t].health
      /\ \A u \in Token : u # t => start'[u] = start[u]
  <2>1. "attached" \in Stages /\ start \in Seq(Start)
    BY <1>1 DEF Stages
  <2>. QED BY <1>3, <2>1, StageSteps, Zenon
<1>5. Token' = Token /\ Continued
  BY <1>1, <1>4 DEF Token, Continued
<1>6. /\ visible' = visible \cup {t}
      /\ change' = visible' \/ (visible' = visible /\ change' = change)
  <2>1. visible = Live /\ \A u \in visible : attached[start[u].conn] = u
    BY DEF McpInv, StartOK, Live, TypeOK
  <2>2. \A u \in visible : start[u].conn # c
    BY <1>1, <1>2, <2>1, StartsTyped DEF Token, McpInv, Live
  <2>3. ASSUME NEW u \in visible \cup {t}, NEW v \in visible \cup {t}, start[u].conn = start[v].conn
        PROVE  u = v
    BY <2>1, <2>2, <2>3
  <2>. QED BY <1>3, <2>1, <2>3, RefreshIsExact
<1>7. /\ attached \in [Conn -> 0 .. Len(start)] /\ starting \in [Conn -> 0 .. Len(start)]
      /\ visible \subseteq Token /\ change \in {NoChange} \cup SUBSET Token /\ errors \subseteq Conn
      /\ Token \subseteq 1 .. MaxStarts
  BY StillTyped, <1>1, <1>4, <1>5 DEF McpInv, TypeOK
<1>8. TypeOK'
  <2>1. attached' \in [Conn -> 0 .. Len(start)] /\ starting' \in [Conn -> 0 .. Len(start)]
    BY <1>1, <1>3, <1>7
  <2>2. visible' \subseteq Token /\ change' \in {NoChange} \cup SUBSET Token /\ errors' \subseteq Conn
    BY <1>3, <1>6, <1>7
  <2>. QED BY <1>3, <1>4, <1>5, <2>1, <2>2 DEF McpInv, TypeOK, Start
<1>9. Mutation' /\ (recheck.failed => recheck.proc # 0)'
  BY <1>1, <1>3 DEF McpInv, Mutation
<1>10. NewestSnapshot'
  <2>1. visible' \subseteq 1 .. MaxStarts
    BY <1>6, <1>7
  <2>. QED BY <1>1, <1>3, <1>6, <2>1, SnapshotKept
<1>11. ASSUME NEW d \in Conn PROVE ConnectionOK(d)'
  <2>1. CASE d # c
    <3>1. attached[d] # 0 => start'[attached[d]].stage = "attached"
      <4>1. attached[d] # 0 => attached[d] \in Token /\ start[attached[d]].stage = "attached"
        BY AttachedProcess
      <4>. QED BY <1>2, <1>4, <2>1, <4>1
    <3>2. starting[d] # 0 => start'[starting[d]].stage \in Pending
      <4>1. starting[d] # 0 => starting[d] \in Token /\ start[starting[d]].stage \in Pending
        BY AttachedProcess
      <4>. QED BY <1>2, <1>4, <2>1, <4>1
    <3>3. attached'[d] = attached[d] /\ starting'[d] = starting[d] /\ (d \in errors' <=> d \in errors)
      BY <1>3, <1>7, <2>1
    <3>. QED BY <1>3, <1>5, <3>1, <3>2, <3>3, ConnectionKept
  <2>2. CASE d = c
    <3>1. attached'[d] = t /\ starting'[d] = 0 /\ d \notin errors'
      BY <1>1, <1>3, <1>7, <2>2
    <3>2. start'[t].conn = d /\ start'[t].stage = "attached" /\ Enabled(d)' /\ config'[d].conf = start'[t].conf
      BY <1>1, <1>3, <1>4, <2>2 DEF Enabled, Exists
    <3>3. \A u \in Token' : start'[u].conn = d => u <= t
      <4>1. \A u \in Token : start[u].conn = c => u <= t
        BY <1>1 DEF ConnectionOK
      <4>. QED BY <1>5, <2>2, <4>1 DEF Continued
    <3>. QED BY <1>1, <1>3, <3>1, <3>2, <3>3 DEF ConnectionOK
  <2>. QED BY <2>1, <2>2
<1>12. ASSUME NEW u \in Token PROVE StartOK(u)'
  <2>1. CASE u # t
    <3>1. attached[start[u].conn] = u => attached'[start[u].conn] = u
      <4>1. start[u].conn \in Conn /\ u # 0
        BY StartsTyped DEF McpInv
      <4>. QED BY <1>2, <1>3, <1>7, <4>1
    <3>. QED BY <1>3, <1>4, <1>6, <2>1, <3>1, StartKept
  <2>2. CASE u = t
    <3>1. attached'[start'[u].conn] = u /\ u \in visible'
      BY <1>1, <1>3, <1>4, <1>6, <1>7, <2>2
    <3>. QED BY <1>1, <1>3, <1>4, <2>2, <3>1 DEF StartOK, Open
  <2>. QED BY <2>1, <2>2
<1>. QED BY <1>5, <1>8, <1>9, <1>10, <1>11, <1>12 DEF McpInv

\* The result of a health check, for the process that was probed only.
LEMMA ApplyHealthKeeps ==
  ASSUME McpInv, NEW t \in Token, ApplyHealth(t)
  PROVE  McpInv'
<1>. DEFINE c == start[t].conn
<1>1. /\ start \in Seq(Start) /\ t \in 1 .. Len(start) /\ Len(start) \in Nat /\ t # 0
      /\ c \in Conn /\ StartOK(t) /\ step = "free" /\ start[t].stage \in Open
      /\ "waiting" \in Healths /\ "over" \in Healths
      /\ UNCHANGED <<adminVars, queue, delivered, call, recheck, shutdown>>
  BY StartsTyped DEF McpInv, ApplyHealth, Token, StartOK, Healths
<1>2. CASE ~ProbedIsAttached(t)
  <2>1. start' = Diagnosed(start, t, "over") /\ UNCHANGED <<step, toolVars, starting, attached, errors>>
    BY <1>2 DEF ApplyHealth, SetHealth, Diagnosed
  <2>2. /\ start' \in Seq(Start) /\ Len(start') = Len(start)
        /\ start'[t].conn = c /\ start'[t].conf = start[t].conf
        /\ start'[t].stage = start[t].stage /\ start'[t].health = "over"
        /\ \A u \in Token : u # t => start'[u] = start[u]
    <3>1. start' = Diagnosed(start, t, "over") /\ "over" \in Healths /\ start \in Seq(Start)
      BY <1>1, <2>1
    <3>. QED BY <3>1, HealthSteps, Zenon
  <2>3. starting[c] # t
    BY <1>1, AttachedProcess DEF Open, Pending
  <2>. QED BY <1>1, <2>1, <2>2, <2>3, OneStartMoves DEF StartOK
<1>3. CASE ProbedIsAttached(t) /\ start[t].health = "good"
  <2>1. /\ start' = Diagnosed(start, t, "waiting") /\ UNCHANGED <<step, toolVars, starting, attached>>
        /\ errors' = errors \ {c}
    BY <1>3 DEF ApplyHealth, SetHealth, Diagnosed
  <2>2. /\ start' \in Seq(Start) /\ Len(start') = Len(start)
        /\ start'[t].conn = c /\ start'[t].conf = start[t].conf
        /\ start'[t].stage = start[t].stage /\ start'[t].health = "waiting"
        /\ \A u \in Token : u # t => start'[u] = start[u]
    <3>1. start' = Diagnosed(start, t, "waiting") /\ "waiting" \in Healths /\ start \in Seq(Start)
      BY <1>1, <2>1
    <3>. QED BY <3>1, HealthSteps, Zenon
  <2>3. attached[c] = t /\ shutdown = "open" /\ Exists(c)
    BY <1>1, <1>3, AttachedProcess DEF ProbedIsAttached
  <2>4. \A u \in Token : /\ start'[u].conn = start[u].conn /\ start'[u].conf = start[u].conf
                         /\ start'[u].stage = start[u].stage
                         /\ start'[u].health \notin {"none", "over"} => start'[u].stage \in Open
    <3>. SUFFICES ASSUME NEW u \in Token
                  PROVE  /\ start'[u].conn = start[u].conn /\ start'[u].conf = start[u].conf
                         /\ start'[u].stage = start[u].stage
                         /\ start'[u].health \notin {"none", "over"} => start'[u].stage \in Open
      OBVIOUS
    <3>1. StartOK(u)
      BY DEF McpInv
    <3>. QED BY <1>1, <2>2, <3>1 DEF StartOK
  <2>. QED BY <1>1, <2>1, <2>2, <2>3, <2>4, StatusKeeps
<1>4. CASE ProbedIsAttached(t) /\ start[t].health = "bad"
  <2>1. /\ start' = Diagnosed(DrainedStarts(c), t, "over") /\ attached' = [attached EXCEPT ![c] = 0]
        /\ starting' = [starting EXCEPT ![c] = 0] /\ errors' = errors \cup {c}
        /\ Refresh(Live \ {attached[c]}) /\ step' = "announcing"
    BY <1>4 DEF ApplyHealth, SetHealth, Diagnosed, Detach
  <2>2. attached[c] = t /\ shutdown = "open" /\ attached[c] # 0
    BY <1>1, <1>4 DEF ProbedIsAttached
  <2>3. /\ DrainedStarts(c) \in Seq(Start) /\ Len(DrainedStarts(c)) = Len(start)
        /\ DrainedStarts(c)[t].conn = c /\ DrainedStarts(c)[t].conf = start[t].conf
        /\ DrainedStarts(c)[t].stage = "draining"
        /\ \A u \in Token : u # t => DrainedStarts(c)[u] = start[u]
    BY <1>1, <2>2, DrainGives
  <2>4. /\ start' \in Seq(Start) /\ Len(start') = Len(start)
        /\ start'[t].conn = c /\ start'[t].conf = start[t].conf /\ start'[t].stage = "draining"
        /\ \A u \in Token : u # t => start'[u] = start[u]
    <3>. DEFINE seq == DrainedStarts(c)
    <3>1. t \in 1 .. Len(seq) /\ seq \in Seq(Start) /\ start' = Diagnosed(seq, t, "over") /\ "over" \in Healths
      BY <1>1, <2>1, <2>3
    <3>2. /\ seq[t].conn = c /\ seq[t].conf = start[t].conf /\ seq[t].stage = "draining"
          /\ Len(seq) = Len(start) /\ \A u \in 1 .. Len(seq) : u # t => seq[u] = start[u]
      BY <2>3 DEF Token
    <3>. HIDE DEF seq
    <3>3. /\ start' \in Seq(Start) /\ Len(start') = Len(seq)
          /\ start'[t].conn = seq[t].conn /\ start'[t].conf = seq[t].conf /\ start'[t].stage = seq[t].stage
          /\ \A u \in 1 .. Len(seq) : u # t => start'[u] = seq[u]
      BY <3>1, HealthMoves
    <3>. QED BY <3>2, <3>3 DEF Token
  <2>. QED BY <1>1, <2>1, <2>2, <2>4, FailKeeps
<1>. QED BY <1>2, <1>3, <1>4 DEF ApplyHealth

\* The outcome of a test of a configuration, applied to the saved connection.
LEMMA TestKeeps ==
  ASSUME McpInv, NEW c \in Conn, NEW f \in Conf,
         TestPasses(c, f) \/ TestFailsIdle(c, f) \/ TestFailsRunning(c, f)
  PROVE  McpInv'
<1>1. /\ step = "free" /\ shutdown = "open" /\ Exists(c)
      /\ start \in Seq(Start) /\ attached \in [Conn -> 0 .. Len(start)] /\ starting \in [Conn -> 0 .. Len(start)]
      /\ Len(start) \in Nat /\ visible \subseteq Token /\ 0 \notin Token
  BY StartsTyped DEF McpInv, TypeOK, TestPasses, TestFailsIdle, TestFailsRunning, MayApplyTest
<1>2. \A t \in Token : start[t].health \notin {"none", "over"} => start[t].stage \in Open
  BY DEF McpInv, StartOK
<1>3. CASE TestPasses(c, f)
  <2>1. /\ config' = config /\ errors' = errors \ {c} /\ Len(start) < MaxStarts
        /\ UNCHANGED <<stored, draft, edited, step, visible, change, attached, queue, delivered,
                       call, recheck, shutdown>>
    BY <1>3 DEF TestPasses, toolVars
  <2>2. CASE config[c].enabled /\ attached[c] = 0 /\ starting[c] = 0
    <3>1. /\ start' = Append(start, NewStart(c, config'[c].conf))
          /\ starting' = [starting EXCEPT ![c] = Len(start) + 1]
      BY <1>3, <2>2 DEF TestPasses, Schedule
    <3>2. /\ DrainedStarts(c) = start /\ attached' = [attached EXCEPT ![c] = 0]
          /\ visible' = visible \ {attached[c]} /\ visible' = visible
      BY <1>1, <2>1, <2>2 DEF DrainedStarts
    <3>3. Len(start) + 1 # 0 /\ config'[c] # Absent /\ config'[c].enabled /\ step' = "free"
      BY <1>1, <2>1, <2>2 DEF Exists
    <3>. QED BY <1>1, <2>1, <3>1, <3>2, <3>3, ScheduleKeeps
  <2>3. CASE ~(config[c].enabled /\ attached[c] = 0 /\ starting[c] = 0)
    <3>1. start' = start /\ starting' = starting
      BY <1>3, <2>3 DEF TestPasses
    <3>2. attached[c] # 0 \/ starting[c] # 0 \/ ~Enabled(c)
      BY <2>3 DEF Enabled
    <3>. QED BY <1>1, <1>2, <2>1, <3>1, <3>2, StatusKeeps DEF adminVars, toolVars
  <2>. QED BY <2>2, <2>3
<1>4. CASE TestFailsIdle(c, f)
  <2>1. /\ attached[c] = 0 /\ starting' = [starting EXCEPT ![c] = 0] /\ errors' = errors \cup {c}
        /\ UNCHANGED <<adminVars, step, toolVars, start, attached, queue, delivered, call, recheck, shutdown>>
    BY <1>4 DEF TestFailsIdle
  <2>. QED BY <1>1, <1>2, <2>1, StatusKeeps
<1>5. CASE TestFailsRunning(c, f)
  <2>1. /\ attached[c] # 0 /\ start' = DrainedStarts(c) /\ attached' = [attached EXCEPT ![c] = 0]
        /\ starting' = [starting EXCEPT ![c] = 0] /\ errors' = errors \cup {c}
        /\ Refresh(Live \ {attached[c]}) /\ step' = "announcing"
        /\ UNCHANGED <<adminVars, queue, delivered, call, recheck, shutdown>>
    BY <1>5 DEF TestFailsRunning, Fail, Detach
  <2>2. /\ start' \in Seq(Start) /\ Len(start') = Len(start)
        /\ start'[attached[c]].conn = start[attached[c]].conn
        /\ start'[attached[c]].conf = start[attached[c]].conf
        /\ start'[attached[c]].stage = "draining"
        /\ \A t \in Token : t # attached[c] => start'[t] = start[t]
    BY <2>1, DrainGives, AttachedProcess
  <2>. QED BY <1>1, <2>1, <2>2, FailKeeps
<1>. QED BY <1>3, <1>4, <1>5

\* A step that leaves the starts and the connections alone.
LEMMA OutsideKeeps ==
  ASSUME McpInv, TypeOK', Mutation', NewestSnapshot', (recheck.failed => recheck.proc # 0)',
         UNCHANGED <<config, start, starting, attached, errors, visible>>,
         shutdown' = "open" => shutdown = "open",
         shutdown' \notin {"open", "closed"} =>
           shutdown \notin {"open", "closed"} \/ \A c \in Conn : attached[c] = 0,
         \A k \in Caller, t \in Token : call'[k] = t => call[k] = t \/ start[t].stage \in Open,
         \A t \in Token : recheck'.proc = t /\ ~recheck'.failed =>
                            (recheck.proc = t /\ ~recheck.failed) \/ start[t].stage \in Open,
         shutdown' \in {"closing", "done"} =>
           \A t \in Token : start[t].stage \in {"closing", "closed", "over"},
         shutdown' = "done" => \A t \in Token : start[t].stage # "closing"
  PROVE  McpInv'
<1>1. Token' = Token
  BY DEF Token
<1>2. ASSUME NEW c \in Conn PROVE ConnectionOK(c)'
  <2>1. ConnectionOK(c) /\ (Exists(c)' <=> Exists(c)) /\ (Enabled(c)' <=> Enabled(c))
    BY DEF McpInv, Exists, Enabled
  <2>. QED BY <1>1, <2>1 DEF ConnectionOK
<1>3. ASSUME NEW t \in Token PROVE StartOK(t)'
  <2>1. StartOK(t)
    BY DEF McpInv
  <2>. QED BY <2>1 DEF StartOK
<1>. QED BY <1>1, <1>2, <1>3 DEF McpInv

\* A test that verifies the process of another configuration.
LEMMA RecheckKeeps ==
  ASSUME McpInv, RecheckEnds \/ ApplyRecheck \/ \E c \in Conn, f \in Conf : TestFailsOther(c, f)
  PROVE  McpInv'
<1>. USE DEF adminVars, toolVars
<1>1. /\ start \in Seq(Start) /\ Len(start) \in Nat
      /\ recheck \in [proc : 0 .. Len(start), failed : BOOLEAN]
      /\ recheck.failed => recheck.proc # 0
      /\ 0 \notin Token
  BY StartsTyped DEF McpInv, TypeOK, Token
<1>2. NoRecheck \in [proc : 0 .. Len(start), failed : BOOLEAN] /\ NoRecheck.proc = 0 /\ ~NoRecheck.failed
  BY <1>1 DEF NoRecheck
<1>3. ASSUME UNCHANGED <<adminVars, step, toolVars, start, starting, attached, errors,
                         queue, delivered, call, shutdown>>,
             recheck' \in [proc : 0 .. Len(start), failed : BOOLEAN], recheck'.failed => recheck'.proc # 0,
             \A t \in Token : recheck'.proc = t /\ ~recheck'.failed => start[t].stage \in Open
      PROVE  McpInv'
  <2>1. TypeOK' /\ Mutation' /\ NewestSnapshot'
    BY <1>3 DEF McpInv, TypeOK, Mutation, NewestSnapshot, Exists, Token
  <2>2. /\ shutdown \notin {"open", "closed"} => \A c \in Conn : attached[c] = 0
        /\ shutdown \in {"closing", "done"} => \A t \in Token : start[t].stage \in {"closing", "closed", "over"}
        /\ shutdown = "done" => \A t \in Token : start[t].stage # "closing"
    BY DEF McpInv, ConnectionOK, StartOK
  <2>3. (recheck.failed => recheck.proc # 0)'
    BY <1>3
  <2>. QED BY <1>3, <2>1, <2>2, <2>3, OutsideKeeps
<1>4. CASE RecheckEnds
  <2>1. PICK r \in {NoRecheck, [recheck EXCEPT !.failed = TRUE]} : recheck' = r
    BY <1>4 DEF RecheckEnds
  <2>2. /\ [recheck EXCEPT !.failed = TRUE] \in [proc : 0 .. Len(start), failed : BOOLEAN]
        /\ [recheck EXCEPT !.failed = TRUE].proc = recheck.proc
        /\ [recheck EXCEPT !.failed = TRUE].failed
    BY <1>1
  <2>3. recheck'.failed => recheck'.proc # 0
    BY <1>2, <1>4, <2>1, <2>2 DEF RecheckEnds
  <2>4. recheck' \in [proc : 0 .. Len(start), failed : BOOLEAN]
    BY <1>2, <2>1, <2>2
  <2>5. \A t \in Token : recheck'.proc = t /\ ~recheck'.failed => start[t].stage \in Open
    BY <1>1, <1>2, <2>1, <2>2
  <2>. QED BY <1>3, <1>4, <2>3, <2>4, <2>5 DEF RecheckEnds
<1>5. CASE \E c \in Conn, f \in Conf : TestFailsOther(c, f)
  <2>1. PICK c \in Conn, f \in Conf : TestFailsOther(c, f)
    BY <1>5
  <2>2. attached[c] # 0 /\ recheck' = [proc |-> attached[c], failed |-> FALSE]
    BY <2>1 DEF TestFailsOther
  <2>3. attached[c] \in 0 .. Len(start) /\ start[attached[c]].stage = "attached" /\ "attached" \in Open
    BY <2>2, AttachedProcess DEF Open
  <2>4. /\ recheck' \in [proc : 0 .. Len(start), failed : BOOLEAN] /\ recheck'.proc = attached[c]
        /\ ~recheck'.failed
    BY <2>2, <2>3
  <2>. QED BY <1>3, <2>1, <2>3, <2>4 DEF TestFailsOther
<1>6. CASE ApplyRecheck /\ shutdown = "open" /\ attached[start[recheck.proc].conn] = recheck.proc
  <2>. DEFINE t == recheck.proc
              c == start[t].conn
  <2>1. /\ recheck.failed /\ step = "free" /\ recheck' = NoRecheck
        /\ start' = DrainedStarts(c) /\ attached' = [attached EXCEPT ![c] = 0]
        /\ starting' = [starting EXCEPT ![c] = 0] /\ errors' = errors \cup {c}
        /\ Refresh(Live \ {attached[c]}) /\ step' = "announcing"
        /\ UNCHANGED <<adminVars, queue, delivered, call, shutdown>>
    BY <1>6 DEF ApplyRecheck, Fail, Detach
  <2>2. t \in Token /\ c \in Conn /\ attached[c] = t /\ t # 0
    <3>1. t # 0 /\ t \in 0 .. Len(start)
      BY <1>1, <2>1
    <3>2. t \in Token
      BY <1>1, <3>1 DEF Token
    <3>. QED BY <1>6, <3>1, <3>2, StartsTyped DEF McpInv
  <2>3. /\ start' \in Seq(Start) /\ Len(start') = Len(start)
        /\ start'[attached[c]].conn = start[attached[c]].conn
        /\ start'[attached[c]].conf = start[attached[c]].conf
        /\ start'[attached[c]].stage = "draining"
        /\ \A u \in Token : u # attached[c] => start'[u] = start[u]
    <3>. HIDE DEF c, t
    <3>. QED BY <2>1, <2>2, DrainGives, AttachedProcess
  <2>. HIDE DEF c, t
  <2>. QED BY <1>6, <2>1, <2>2, <2>3, FailKeeps
<1>7. CASE ApplyRecheck /\ ~(shutdown = "open" /\ attached[start[recheck.proc].conn] = recheck.proc)
  <2>1. /\ recheck' = NoRecheck
        /\ UNCHANGED <<adminVars, step, toolVars, start, starting, attached, errors,
                       queue, delivered, call, shutdown>>
    BY <1>7 DEF ApplyRecheck
  <2>. QED BY <1>1, <1>2, <1>3, <2>1
<1>. QED BY <1>4, <1>5, <1>6, <1>7

\* Add, Update, Remove and the save: the draft is ahead of the configuration in
\* one connection only.
LEMMA RequestKeeps ==
  ASSUME McpInv,
         \/ \E c \in Conn : Remove(c) \/ \E new \in Saved : Add(c, new) \/ Update(c, new)
         \/ SaveStep
  PROVE  McpInv'
<1>. USE DEF adminVars, toolVars
<1>1. /\ config \in [Conn -> Saved \cup {Absent}] /\ draft \in [Conn -> Saved \cup {Absent}]
      /\ stored \in [Conn -> Saved \cup {Absent}]
      /\ Mutation
  BY DEF McpInv, TypeOK
<1>2. ASSUME UNCHANGED <<config, toolVars, start, starting, attached, errors,
                         queue, delivered, call, recheck, shutdown>>,
             stored' \in [Conn -> Saved \cup {Absent}], draft' \in [Conn -> Saved \cup {Absent}],
             edited' \in Conn, step' \in {"free", "saving", "publishing"}, Mutation'
      PROVE  McpInv'
  <2>1. TypeOK'
    BY <1>2 DEF McpInv, TypeOK, Token
  <2>2. NewestSnapshot' /\ (recheck.failed => recheck.proc # 0)'
    BY <1>2 DEF McpInv, NewestSnapshot
  <2>3. /\ shutdown \notin {"open", "closed"} => \A c \in Conn : attached[c] = 0
        /\ shutdown \in {"closing", "done"} => \A t \in Token : start[t].stage \in {"closing", "closed", "over"}
        /\ shutdown = "done" => \A t \in Token : start[t].stage # "closing"
    BY DEF McpInv, ConnectionOK, StartOK
  <2>. QED BY <1>2, <2>1, <2>2, <2>3, OutsideKeeps
<1>3. CASE \E c \in Conn : Remove(c) \/ \E new \in Saved : Add(c, new) \/ Update(c, new)
  <2>1. PICK c \in Conn, new \in Saved \cup {Absent} :
          /\ Propose(c, new) /\ (new = Absent => Exists(c))
    <3>1. PICK c \in Conn : Remove(c) \/ \E new \in Saved : Add(c, new) \/ Update(c, new)
      BY <1>3
    <3>2. CASE Remove(c)
      BY <3>2 DEF Remove
    <3>3. CASE \E new \in Saved : Add(c, new) \/ Update(c, new)
      <4>1. PICK new \in Saved : Propose(c, new)
        BY <3>3 DEF Add, Update
      <4>2. new # Absent
        BY ManagerAssumption DEF Saved
      <4>. QED BY <4>1, <4>2
    <3>. QED BY <3>1, <3>2, <3>3
  <2>2. /\ step = "free" /\ shutdown = "open" /\ draft' = [config EXCEPT ![c] = new] /\ edited' = c
        /\ step' = "saving" /\ (new # Absent /\ new.enabled => Len(start) < MaxStarts)
        /\ UNCHANGED <<stored, config, toolVars, start, starting, attached, errors,
                       queue, delivered, call, recheck, shutdown>>
    BY <2>1 DEF Propose
  <2>3. /\ draft' \in [Conn -> Saved \cup {Absent}] /\ draft'[c] = new
        /\ \A d \in Conn : d # c => draft'[d] = config[d]
    BY <1>1, <2>2
  <2>4. Mutation'
    BY <1>1, <2>1, <2>2, <2>3 DEF Mutation, Exists
  <2>. QED BY <1>1, <1>2, <2>2, <2>3, <2>4
<1>4. CASE Save
  <2>1. Mutation'
    BY <1>1, <1>4 DEF Mutation, Save, Exists
  <2>2. edited \in Conn
    BY DEF McpInv, TypeOK
  <2>. QED BY <1>1, <1>2, <1>4, <2>1, <2>2 DEF Save
<1>5. CASE SaveFails
  <2>1. Mutation'
    BY <1>1, <1>5 DEF Mutation, SaveFails, Exists
  <2>2. edited \in Conn
    BY DEF McpInv, TypeOK
  <2>. QED BY <1>1, <1>2, <1>5, <2>1, <2>2 DEF SaveFails
<1>. QED BY <1>3, <1>4, <1>5 DEF SaveStep

\* The dispatcher, the callers of tools and the steps of the shutdown that only
\* note how far it is.
LEMMA WaitersKeep ==
  ASSUME McpInv,
         \/ Deliver \/ Shutdown \/ DispatcherEnds \/ ShutdownEnds
         \/ \E k \in Caller : EndCall(k) \/ \E t \in Token : Call(k, t)
  PROVE  McpInv'
<1>. USE DEF adminVars, toolVars, shutdownOnly
<1>1. /\ shutdown \notin {"open", "closed"} => \A c \in Conn : attached[c] = 0
      /\ shutdown \in {"closing", "done"} => \A t \in Token : start[t].stage \in {"closing", "closed", "over"}
      /\ shutdown = "done" => \A t \in Token : start[t].stage # "closing"
      /\ recheck.failed => recheck.proc # 0
  BY DEF McpInv, ConnectionOK, StartOK
<1>2. Token' = Token /\ Mutation' /\ (recheck.failed => recheck.proc # 0)'
  BY DEF Token, McpInv, Mutation, Deliver, Shutdown, DispatcherEnds, ShutdownEnds, EndCall, Call, Exists
<1>3. CASE Deliver
  <2>1. /\ queue \in Seq(SUBSET Token) /\ queue # <<>> /\ delivered' = Head(queue) /\ queue' = Tail(queue)
        /\ Len(queue) <= QueueCapacity
        /\ UNCHANGED <<adminVars, step, toolVars, start, starting, attached, errors, call, recheck, shutdown>>
    BY <1>3 DEF Deliver, McpInv, TypeOK
  <2>2. /\ Head(queue) \in SUBSET Token /\ Tail(queue) \in Seq(SUBSET Token)
        /\ Len(Tail(queue)) = Len(queue) - 1 /\ Len(queue) \in Nat /\ Len(queue) # 0
        /\ Head(queue) = queue[1]
        /\ Tail(queue) # <<>> => Tail(queue)[Len(Tail(queue))] = queue[Len(queue)]
        /\ Tail(queue) = <<>> => Len(queue) = 1
    <3>. DEFINE Snapshot == SUBSET Token
    <3>1. queue \in Seq(Snapshot) /\ queue # <<>>
      BY <2>1
    <3>. HIDE DEF Snapshot
    <3>2. Len(queue) \in Nat /\ Len(queue) # 0
      BY <3>1, EmptySeq
    <3>3. /\ Head(queue) \in Snapshot /\ Tail(queue) \in Seq(Snapshot)
          /\ Len(Tail(queue)) = Len(queue) - 1 /\ Head(queue) = queue[1]
          /\ \A i \in 1 .. Len(Tail(queue)) : Tail(queue)[i] = queue[i + 1]
      BY <3>1, <3>2, HeadTailProperties
    <3>4. Tail(queue) # <<>> => Len(queue) - 1 \in 1 .. Len(Tail(queue)) /\ (Len(queue) - 1) + 1 = Len(queue)
      BY <3>2, <3>3, EmptySeq
    <3>5. Tail(queue) # <<>> => Tail(queue)[Len(Tail(queue))] = queue[Len(queue)]
      BY <3>3, <3>4
    <3>6. Tail(queue) = <<>> => Len(queue) = 1
      <4>1. Len(<<>>) = 0
        OBVIOUS
      <4>2. Tail(queue) = <<>> => Len(Tail(queue)) = 0
        BY <4>1, Zenon
      <4>3. Len(Tail(queue)) = Len(queue) - 1
        BY <3>3
      <4>. QED BY <3>2, <4>2, <4>3
    <3>. QED BY <3>2, <3>3, <3>5, <3>6 DEF Snapshot
  <2>3. TypeOK'
    <3>1. Len(queue') <= QueueCapacity /\ queue' \in Seq(SUBSET Token) /\ delivered' \subseteq Token
      BY <2>1, <2>2, ManagerAssumption
    <3>. QED BY <1>2, <2>1, <3>1 DEF McpInv, TypeOK
  <2>4. NewestSnapshot'
    <3>1. NewestSnapshot
      BY DEF McpInv
    <3>2. queue' # <<>> => queue'[Len(queue')] = queue[Len(queue)]
      BY <2>1, <2>2
    <3>3. queue' = <<>> => delivered' = queue[Len(queue)]
      BY <2>1, <2>2
    <3>. QED BY <2>1, <3>1, <3>2, <3>3 DEF NewestSnapshot
  <2>. QED BY <1>1, <1>2, <2>1, <2>3, <2>4, OutsideKeeps
<1>4. CASE Shutdown \/ DispatcherEnds \/ ShutdownEnds
  <2>1. /\ UNCHANGED <<shutdownOnly, visible, start, starting, attached>>
        /\ \/ shutdown = "open" /\ shutdown' = "closed"
           \/ shutdown = "stopped" /\ shutdown' = "notified"
           \/ shutdown = "closing" /\ shutdown' = "done" /\ \A t \in Token : start[t].stage # "closing"
    BY <1>4 DEF Shutdown, DispatcherEnds, ShutdownEnds
  <2>2. TypeOK'
    BY <1>2, <2>1 DEF McpInv, TypeOK
  <2>3. NewestSnapshot'
    BY <2>1 DEF McpInv, NewestSnapshot
  <2>. QED BY <1>1, <1>2, <2>1, <2>2, <2>3, OutsideKeeps
<1>5. CASE \E k \in Caller : EndCall(k) \/ \E t \in Token : Call(k, t)
  <2>1. PICK k \in Caller, t \in 0 .. Len(start) :
          /\ call' = [call EXCEPT ![k] = t]
          /\ t # 0 => start[t].stage \in Open
          /\ UNCHANGED <<adminVars, step, toolVars, start, starting, attached, errors,
                         queue, delivered, recheck, shutdown>>
    <3>1. Len(start) \in Nat
      BY StartsTyped DEF McpInv
    <3>2. PICK k \in Caller : EndCall(k) \/ \E t \in Token : Call(k, t)
      BY <1>5
    <3>3. CASE EndCall(k)
      <4>1. /\ 0 \in 0 .. Len(start) /\ call' = [call EXCEPT ![k] = 0]
            /\ UNCHANGED <<adminVars, step, toolVars, start, starting, attached, errors,
                           queue, delivered, recheck, shutdown>>
        BY <3>1, <3>3 DEF EndCall
      <4>. QED BY <4>1
    <3>4. CASE \E t \in Token : Call(k, t)
      <4>1. PICK t \in Token : Call(k, t)
        BY <3>4
      <4>2. t \in 0 .. Len(start) /\ start[t].stage \in Open
        BY <3>1, <4>1 DEF Token, Call, Acquirable, Open
      <4>. QED BY <4>1, <4>2 DEF Call
    <3>. QED BY <3>2, <3>3, <3>4
  <2>2. call \in [Caller -> 0 .. Len(start)]
    BY DEF McpInv, TypeOK
  <2>3. call' \in [Caller -> 0 .. Len(start)]
    BY <2>1, <2>2
  <2>4. TypeOK' /\ NewestSnapshot'
    BY <1>2, <2>1, <2>3 DEF McpInv, TypeOK, NewestSnapshot
  <2>5. \A m \in Caller, u \in Token : call'[m] = u => call[m] = u \/ start[u].stage \in Open
    <3>1. 0 \notin Token
      BY DEF Token
    <3>. QED BY <2>1, <2>2, <3>1
  <2>. QED BY <1>1, <1>2, <2>1, <2>4, <2>5, OutsideKeeps
<1>. QED BY <1>3, <1>4, <1>5

\* Processes that drain are closed from here on, and new ones are probed.
LEMMA UnlockKeeps ==
  ASSUME McpInv,
         start' \in Seq(Start), Len(start') = Len(start),
         \A t \in Token :
           /\ start'[t].conn = start[t].conn /\ start'[t].conf = start[t].conf
           /\ \/ start'[t].stage = start[t].stage
              \/ start[t].stage = "draining" /\ start'[t].stage = "closing"
           /\ \/ start'[t].health = start[t].health
              \/ start[t].stage = "attached" /\ start'[t].stage = "attached",
         TypeOK', Mutation', NewestSnapshot',
         UNCHANGED <<config, starting, attached, errors, visible, call, recheck>>,
         \/ shutdown' = shutdown /\ shutdown \in {"open", "closed"}
         \/ /\ shutdown = "notified" /\ shutdown' = "closing"
            /\ \A t \in Token : start[t].stage \notin Pending /\ start'[t].stage # "draining"
  PROVE  McpInv'
<1>1. Token' = Token /\ Continued /\ Len(start) \in Nat
  <2>1. Len(start) \in Nat
    BY StartsTyped DEF McpInv
  <2>. QED BY <2>1 DEF Token, Continued
<1>2. ASSUME NEW d \in Conn PROVE ConnectionOK(d)'
  <2>1. /\ attached[d] # 0 => attached[d] \in Token /\ start'[attached[d]].stage = "attached"
        /\ starting[d] # 0 => starting[d] \in Token /\ start'[starting[d]].stage \in Pending
    <3>1. /\ attached[d] # 0 => attached[d] \in Token /\ start[attached[d]].stage = "attached"
          /\ starting[d] # 0 => starting[d] \in Token /\ start[starting[d]].stage \in Pending
      BY AttachedProcess
    <3>. QED BY <3>1 DEF Pending
  <2>. QED BY <1>1, <2>1, ConnectionKept
<1>3. ASSUME NEW t \in Token PROVE StartOK(t)'
  <2>1. StartOK(t) /\ start[t].stage \in Stages
    BY StartsTyped DEF McpInv
  <2>2. /\ start'[t].stage = "attached" <=> start[t].stage = "attached"
        /\ start'[t].stage \in Open <=> start[t].stage \in Open
        /\ start'[t].health \notin {"none", "over"} => start'[t].stage \in Open
    BY <2>1 DEF StartOK, Open
  <2>3. /\ shutdown' \in {"closing", "done"} => start'[t].stage \in {"closing", "closed", "over"}
        /\ shutdown' # "done"
    <3>1. CASE shutdown = "notified" /\ shutdown' = "closing"
      <4>1. start[t].stage # "attached"
        <5>1. start[t].conn \in Conn /\ t # 0
          BY StartsTyped DEF McpInv
        <5>2. ConnectionOK(start[t].conn)
          BY <5>1 DEF McpInv
        <5>. QED BY <2>1, <3>1, <5>1, <5>2 DEF StartOK, ConnectionOK
      <4>. QED BY <2>1, <3>1, <4>1 DEF Pending, Stages
    <3>. QED BY <3>1
  <2>. QED BY <2>1, <2>2, <2>3 DEF StartOK
<1>4. (recheck.failed => recheck.proc # 0)'
  BY DEF McpInv
<1>. QED BY <1>1, <1>2, <1>3, <1>4 DEF McpInv

\* enqueueToolChange waits for room in the queue, so no snapshot is lost.
LEMMA AnnounceKeeps ==
  ASSUME McpInv, Announce
  PROVE  McpInv'
<1>. USE DEF adminVars
<1>1. /\ start \in Seq(Start) /\ Len(start) \in Nat /\ queue \in Seq(SUBSET Token) /\ Len(queue) <= QueueCapacity
      /\ change \in {NoChange} \cup SUBSET Token /\ Mutation /\ NewestSnapshot /\ QueueCapacity \in Nat
  BY StartsTyped, ManagerAssumption DEF McpInv, TypeOK
<1>2. /\ step = "announcing" /\ change' = NoChange /\ step' = "free"
      /\ start' = [t \in Token |-> AfterUnlock(start[t])]
      /\ UNCHANGED <<adminVars, visible, starting, attached, errors, delivered, call, recheck, shutdown>>
      /\ change = NoChange => queue' = queue
      /\ change # NoChange => Len(queue) < QueueCapacity /\ queue' = Append(queue, change)
  BY DEF Announce
<1>3. ASSUME NEW t \in Token
      PROVE  /\ AfterUnlock(start[t]) \in Start
             /\ AfterUnlock(start[t]).conn = start[t].conn /\ AfterUnlock(start[t]).conf = start[t].conf
             /\ \/ AfterUnlock(start[t]).stage = start[t].stage
                \/ start[t].stage = "draining" /\ AfterUnlock(start[t]).stage = "closing"
             /\ \/ AfterUnlock(start[t]).health = start[t].health
                \/ start[t].stage = "attached" /\ AfterUnlock(start[t]).stage = "attached"
  <2>. DEFINE s == start[t]
  <2>1. s \in Start
    BY StartsTyped DEF McpInv
  <2>. HIDE DEF s
  <2>2. "closing" \in Stages /\ "waiting" \in Healths
    BY DEF Stages, Healths
  <2>3. CASE s.stage = "draining"
    <3>1. AfterUnlock(s) = [s EXCEPT !.stage = "closing"]
      BY <2>3 DEF AfterUnlock
    <3>. QED BY <2>1, <2>2, <2>3, <3>1 DEF Start, s
  <2>4. CASE s.stage = "attached" /\ s.health = "none"
    <3>1. AfterUnlock(s) = [s EXCEPT !.health = "waiting"]
      BY <2>4 DEF AfterUnlock
    <3>. QED BY <2>1, <2>2, <2>4, <3>1 DEF Start, s
  <2>5. CASE s.stage # "draining" /\ ~(s.stage = "attached" /\ s.health = "none")
    <3>1. AfterUnlock(s) = s
      BY <2>5 DEF AfterUnlock
    <3>. QED BY <2>1, <3>1 DEF s
  <2>. QED BY <2>3, <2>4, <2>5
<1>4. /\ start' \in Seq(Start) /\ Len(start') = Len(start) /\ Token' = Token
      /\ \A t \in Token : start'[t] = AfterUnlock(start[t])
  BY <1>1, <1>2, <1>3 DEF Token
<1>5. /\ queue' \in Seq(SUBSET Token) /\ Len(queue') <= QueueCapacity
      /\ change # NoChange => queue' # <<>> /\ queue'[Len(queue')] = change
  <2>1. CASE change = NoChange
    BY <1>1, <1>2, <2>1
  <2>2. CASE change # NoChange
    <3>. DEFINE Snapshot == SUBSET Token
    <3>1. queue \in Seq(Snapshot) /\ change \in Snapshot
      BY <1>1, <2>2
    <3>. HIDE DEF Snapshot
    <3>2. /\ Append(queue, change) \in Seq(Snapshot) /\ Len(Append(queue, change)) = Len(queue) + 1
          /\ Append(queue, change)[Len(queue) + 1] = change /\ Append(queue, change) # <<>>
          /\ Len(queue) \in Nat
      BY <3>1, AppendProperties, EmptySeq
    <3>3. queue' = Append(queue, change) /\ Len(queue) + 1 <= QueueCapacity
      BY <1>1, <1>2, <2>2, <3>2
    <3>4. /\ queue' \in Seq(Snapshot) /\ Len(queue') <= QueueCapacity
          /\ queue' # <<>> /\ queue'[Len(queue')] = change
      BY <3>2, <3>3
    <3>. QED BY <3>4 DEF Snapshot
  <2>. QED BY <2>1, <2>2
<1>6. TypeOK'
  <2>1. change' \in {NoChange} \cup SUBSET Token
    BY <1>2
  <2>. QED BY <1>2, <1>4, <1>5, <2>1 DEF McpInv, TypeOK, Start
<1>7. Mutation'
  BY <1>1, <1>2 DEF Mutation
<1>8. NewestSnapshot'
  BY <1>1, <1>2, <1>5 DEF NewestSnapshot
<1>9. shutdown \in {"open", "closed"}
  BY <1>1, <1>2 DEF Mutation
<1>. QED BY <1>2, <1>3, <1>4, <1>6, <1>7, <1>8, <1>9, UnlockKeeps

\* The starts are over when closeResources closes the processes.
LEMMA StartsEndKeeps ==
  ASSUME McpInv, StartsEnd
  PROVE  McpInv'
<1>. USE DEF adminVars, shutdownOnly
<1>. DEFINE row(t) == IF start[t].stage = "draining" THEN [start[t] EXCEPT !.stage = "closing"] ELSE start[t]
<1>1. /\ start \in Seq(Start) /\ Len(start) \in Nat
      /\ shutdown = "notified" /\ shutdown' = "closing"
      /\ start' = [t \in Token |-> row(t)]
      /\ UNCHANGED <<shutdownOnly, visible, starting, attached>>
      /\ \A t \in Token : start[t].stage \notin Pending
  BY StartsTyped DEF McpInv, StartsEnd, StartsOver, Pending
<1>2. ASSUME NEW t \in Token
      PROVE  /\ row(t) \in Start /\ row(t).stage # "draining"
             /\ row(t).conn = start[t].conn /\ row(t).conf = start[t].conf /\ row(t).health = start[t].health
             /\ \/ row(t).stage = start[t].stage
                \/ start[t].stage = "draining" /\ row(t).stage = "closing"
  <2>. DEFINE s == start[t]
  <2>1. s \in Start /\ "closing" \in Stages
    BY StartsTyped DEF McpInv, Stages
  <2>2. row(t) = IF s.stage = "draining" THEN [s EXCEPT !.stage = "closing"] ELSE s
    OBVIOUS
  <2>. HIDE DEF s, row
  <2>3. CASE s.stage = "draining"
    BY <2>1, <2>2, <2>3 DEF Start, s
  <2>4. CASE s.stage # "draining"
    BY <2>1, <2>2, <2>4 DEF s
  <2>. QED BY <2>3, <2>4
<1>. HIDE DEF row
<1>3. /\ start' \in Seq(Start) /\ Len(start') = Len(start) /\ Token' = Token
      /\ \A t \in Token : start'[t] = row(t)
  BY <1>1, <1>2 DEF Token
<1>4. TypeOK' /\ Mutation' /\ NewestSnapshot'
  BY <1>1, <1>3 DEF McpInv, TypeOK, Start, Mutation, NewestSnapshot, Exists
<1>. QED BY <1>1, <1>2, <1>3, <1>4, UnlockKeeps

\* closeResources stops all that runs and starts.
LEMMA StopAllKeeps ==
  ASSUME McpInv, StopAll
  PROVE  McpInv'
<1>. USE DEF adminVars, shutdownOnly
<1>. DEFINE row(t) == IF t \in Live THEN [start[t] EXCEPT !.stage = "draining"] ELSE start[t]
<1>1. /\ start \in Seq(Start) /\ Len(start) \in Nat
      /\ shutdown = "closed" /\ shutdown' = "stopped" /\ step = "free"
      /\ start' = [t \in Token |-> row(t)]
      /\ starting' = [c \in Conn |-> 0] /\ attached' = [c \in Conn |-> 0] /\ visible' = {}
      /\ UNCHANGED shutdownOnly
  BY StartsTyped DEF McpInv, StopAll
<1>2. ASSUME NEW t \in Token
      PROVE  /\ row(t) \in Start
             /\ row(t).conn = start[t].conn /\ row(t).conf = start[t].conf /\ row(t).health = start[t].health
             /\ row(t).stage # "attached"
             /\ \/ row(t).stage = start[t].stage
                \/ start[t].stage = "attached" /\ row(t).stage = "draining"
  <2>. DEFINE s == start[t]
  <2>1. s \in Start /\ "draining" \in Stages
    BY StartsTyped DEF McpInv, Stages
  <2>2. row(t) = IF s.stage = "attached" THEN [s EXCEPT !.stage = "draining"] ELSE s
    BY DEF Live
  <2>. HIDE DEF s, row
  <2>3. CASE s.stage = "attached"
    BY <2>1, <2>2, <2>3 DEF Start, s
  <2>4. CASE s.stage # "attached"
    BY <2>1, <2>2, <2>4 DEF s
  <2>. QED BY <2>3, <2>4
<1>. HIDE DEF row
<1>3. /\ start' \in Seq(Start) /\ Len(start') = Len(start) /\ Token' = Token
      /\ \A t \in Token : start'[t] = row(t)
  BY <1>1, <1>2 DEF Token
<1>4. TypeOK'
  <2>1. starting' \in [Conn -> 0 .. Len(start)] /\ attached' \in [Conn -> 0 .. Len(start)]
    BY <1>1
  <2>. QED BY <1>1, <1>3, <2>1 DEF McpInv, TypeOK, Start
<1>5. Mutation' /\ NewestSnapshot' /\ (recheck.failed => recheck.proc # 0)'
  BY <1>1 DEF McpInv, Mutation, NewestSnapshot, Exists
<1>6. ASSUME NEW c \in Conn PROVE ConnectionOK(c)'
  <2>1. attached'[c] = 0 /\ starting'[c] = 0
    BY <1>1
  <2>2. c \in errors => Exists(c)
    BY DEF McpInv, ConnectionOK
  <2>3. c \in errors' => Exists(c)'
    BY <1>1, <2>2 DEF Exists
  <2>. QED BY <1>1, <2>1, <2>3 DEF ConnectionOK
<1>7. ASSUME NEW t \in Token PROVE StartOK(t)'
  <2>1. StartOK(t)
    BY DEF McpInv
  <2>2. /\ start'[t].stage # "attached" /\ start'[t].health = start[t].health
        /\ start[t].stage \in Open => start'[t].stage \in Open
    BY <1>2, <1>3 DEF Open
  <2>. QED BY <1>1, <2>1, <2>2 DEF StartOK
<1>. QED BY <1>3, <1>4, <1>5, <1>6, <1>7 DEF McpInv

-----------------------------------------------------------------------------
\* A manager that starts: the enabled connections of the store are scheduled, in
\* any order.
LEMMA Initially == Init => McpInv
<1>. SUFFICES ASSUME Init PROVE McpInv
  OBVIOUS
<1>. DEFINE on == {c \in Conn : Enabled(c)}
<1>1. PICK order \in [Conn -> 0 .. MaxStarts], n \in 0 .. MaxStarts :
        /\ \A c \in Conn : order[c] = 0 <=> c \notin on
        /\ \A c, d \in on : order[c] = order[d] => c = d
        /\ {order[c] : c \in on} = 1 .. n
        /\ start = [t \in 1 .. n |-> LET c == CHOOSE c \in on : order[c] = t IN NewStart(c, config[c].conf)]
        /\ starting = order
  BY DEF Init
<1>2. /\ stored \in [Conn -> Saved \cup {Absent}] /\ config = stored /\ draft = stored /\ edited \in Conn
      /\ step = "free" /\ change = NoChange
      /\ attached = [c \in Conn |-> 0]
      /\ errors = {} /\ visible = {} /\ queue = <<>> /\ delivered = {}
      /\ call = [k \in Caller |-> 0] /\ recheck = NoRecheck /\ shutdown = "open"
  BY DEF Init
<1>3. MaxStarts \in Nat /\ QueueCapacity \in Nat \ {0} /\ n \in Nat /\ n <= MaxStarts
  BY ManagerAssumption
<1>. DEFINE owner(t) == CHOOSE c \in on : order[c] = t
<1>4. ASSUME NEW t \in 1 .. n
      PROVE  owner(t) \in on /\ order[owner(t)] = t /\ \A c \in on : order[c] = t => c = owner(t)
  <2>1. PICK c \in on : order[c] = t
    BY <1>1
  <2>2. owner(t) \in on /\ order[owner(t)] = t
    BY <2>1
  <2>. QED BY <1>1, <2>2
<1>5. ASSUME NEW c \in on PROVE order[c] \in 1 .. n
  BY <1>1
<1>6. start = [t \in 1 .. n |-> NewStart(owner(t), config[owner(t)].conf)]
  BY <1>1
<1>. HIDE DEF owner
<1>7. \A c \in on : c \in Conn /\ Enabled(c) /\ config[c] \in Saved
  BY <1>2 DEF Enabled, Exists
<1>8. ASSUME NEW t \in 1 .. n
      PROVE  /\ start[t] = [conn |-> owner(t), conf |-> config[owner(t)].conf, stage |-> "connecting", health |-> "none"]
             /\ start[t] \in Start
  <2>1. owner(t) \in Conn /\ config[owner(t)].conf \in Conf
    BY <1>4, <1>7 DEF Saved
  <2>. QED BY <1>6, <2>1 DEF NewStart, Start, Stages, Healths
<1>9. start \in Seq(Start) /\ Len(start) = n /\ Token = 1 .. n
  <2>1. start \in [1 .. n -> Start]
    BY <1>6, <1>8
  <2>. QED BY <1>3, <2>1 DEF Token
<1>10. starting \in [Conn -> 0 .. Len(start)]
  <2>1. ASSUME NEW c \in Conn PROVE order[c] \in 0 .. n
    <3>1. c \in on => order[c] \in 1 .. n
      BY <1>5
    <3>2. c \notin on => order[c] = 0
      BY <1>1
    <3>. HIDE DEF on
    <3>. QED BY <1>3, <3>1, <3>2
  <2>. QED BY <1>1, <1>9, <2>1
<1>11. TypeOK
  <2>1. /\ attached \in [Conn -> 0 .. Len(start)] /\ call \in [Caller -> 0 .. Len(start)]
        /\ recheck \in [proc : 0 .. Len(start), failed : BOOLEAN]
    BY <1>2, <1>3, <1>9 DEF NoRecheck
  <2>2. queue \in Seq(SUBSET Token) /\ Len(queue) <= QueueCapacity
    BY <1>2, <1>3
  <2>. QED BY <1>2, <1>3, <1>9, <1>10, <2>1, <2>2 DEF TypeOK, Start
<1>12. Mutation /\ NewestSnapshot /\ (recheck.failed => recheck.proc # 0)
  BY <1>2 DEF Mutation, NewestSnapshot, NoRecheck
<1>13. ASSUME NEW c \in Conn PROVE ConnectionOK(c)
  <2>1. attached[c] = 0 /\ c \notin errors
    BY <1>2
  <2>2. ASSUME starting[c] # 0
        PROVE  /\ starting[c] \in 1 .. n /\ start[starting[c]].conn = c /\ start[starting[c]].stage \in Pending
               /\ Enabled(c) /\ config[c].conf = start[starting[c]].conf
    <3>1. c \in on /\ starting[c] \in 1 .. n
      BY <1>1, <1>5, <2>2
    <3>2. owner(starting[c]) = c
      BY <1>1, <1>4, <3>1
    <3>3. start[starting[c]].conn = c /\ start[starting[c]].conf = config[c].conf
          /\ start[starting[c]].stage = "connecting"
      <4>1. start[starting[c]] = [conn |-> c, conf |-> config[c].conf, stage |-> "connecting", health |-> "none"]
        <5>. DEFINE t == starting[c]
        <5>1. t \in 1 .. n /\ owner(t) = c
          BY <3>1, <3>2
        <5>2. start[t] = [conn |-> owner(t), conf |-> config[owner(t)].conf, stage |-> "connecting", health |-> "none"]
          BY <1>8, <5>1
        <5>. QED BY <5>1, <5>2, Zenon
      <4>. QED BY <4>1
    <3>4. Enabled(c)
      BY <1>7, <3>1
    <3>. QED BY <3>1, <3>3, <3>4 DEF Pending
  <2>3. ASSUME NEW t \in Token, start[t].conn = c PROVE t = starting[c]
    <3>1. t \in 1 .. n /\ owner(t) = c
      BY <1>8, <1>9, <2>3
    <3>. QED BY <1>1, <1>4, <3>1
  <2>4. ASSUME Enabled(c) PROVE starting[c] # 0
    BY <1>1, <2>4
  <2>5. \A t \in Token : start[t].conn = c /\ attached[c] # 0 => t <= attached[c]
    BY <2>1
  <2>6. \A t \in Token : start[t].conn = c /\ starting[c] # 0 => t <= starting[c]
    <3>1. Token \subseteq Int
      BY <1>9
    <3>. QED BY <2>3, <3>1
  <2>. QED BY <1>2, <2>1, <2>2, <2>4, <2>5, <2>6 DEF ConnectionOK
<1>14. ASSUME NEW t \in Token PROVE StartOK(t)
  <2>1. start[t].stage = "connecting" /\ start[t].health = "none" /\ t # 0
    BY <1>8, <1>9
  <2>2. \A k \in Caller : call[k] # t
    BY <1>2, <2>1
  <2>3. recheck.proc # t /\ t \notin visible /\ shutdown = "open"
    BY <1>2, <2>1 DEF NoRecheck
  <2>. QED BY <2>1, <2>2, <2>3 DEF StartOK
<1>. QED BY <1>11, <1>12, <1>13, <1>14 DEF McpInv

\* A step that changes nothing.
LEMMA Stuttering ==
  ASSUME McpInv, UNCHANGED vars
  PROVE  McpInv'
<1>. USE DEF vars, adminVars, toolVars
<1>1. TypeOK' /\ Mutation' /\ NewestSnapshot' /\ (recheck.failed => recheck.proc # 0)'
  BY DEF McpInv, TypeOK, Mutation, NewestSnapshot, Exists, Token
<1>2. /\ shutdown \notin {"open", "closed"} => \A c \in Conn : attached[c] = 0
      /\ shutdown \in {"closing", "done"} => \A t \in Token : start[t].stage \in {"closing", "closed", "over"}
      /\ shutdown = "done" => \A t \in Token : start[t].stage # "closing"
  BY DEF McpInv, ConnectionOK, StartOK
<1>. QED BY <1>1, <1>2, OutsideKeeps

LEMMA Stepwise == McpInv /\ [Next]_vars => McpInv'
<1>. SUFFICES ASSUME McpInv, [Next]_vars PROVE McpInv'
  OBVIOUS
<1>1. ASSUME NEW c \in Conn, Request(c) PROVE McpInv'
  <2>1. CASE Remove(c) \/ \E new \in Saved : Add(c, new) \/ Update(c, new)
    BY <2>1, RequestKeeps
  <2>2. ASSUME NEW f \in Conf, TestPasses(c, f) \/ TestFailsIdle(c, f) \/ TestFailsRunning(c, f)
        PROVE  McpInv'
    BY <2>2, TestKeeps
  <2>3. ASSUME NEW f \in Conf, TestFailsOther(c, f) PROVE McpInv'
    BY <2>3, RecheckKeeps
  <2>. QED BY <1>1, <2>1, <2>2, <2>3 DEF Request
<1>2. CASE SaveStep
  BY <1>2, RequestKeeps
<1>3. CASE PublishStep
  BY <1>3, PublishKeeps
<1>4. CASE Announce
  BY <1>4, AnnounceKeeps
<1>5. CASE Deliver \/ Shutdown \/ DispatcherEnds \/ ShutdownEnds
  BY <1>5, WaitersKeep
<1>6. ASSUME NEW t \in Token, StartStep(t) PROVE McpInv'
  BY <1>6, StartStepsKeep, StartGivesUp, AttachKeeps DEF StartStep
<1>7. ASSUME NEW t \in Token, HealthStep(t) PROVE McpInv'
  BY <1>7, StartStepsKeep, ApplyHealthKeeps DEF HealthStep
<1>8. ASSUME NEW t \in Token, Close(t) PROVE McpInv'
  BY <1>8, StartStepsKeep
<1>9. ASSUME NEW k \in Caller, EndCall(k) \/ \E t \in Token : Call(k, t) PROVE McpInv'
  BY <1>9, WaitersKeep
<1>10. CASE RecheckEnds \/ ApplyRecheck
  BY <1>10, RecheckKeeps
<1>11. CASE StopAll \/ StartsEnd
  BY <1>11, StopAllKeeps, StartsEndKeeps
<1>12. CASE UNCHANGED vars
  BY <1>12, Stuttering
<1>. QED BY <1>1, <1>2, <1>3, <1>4, <1>5, <1>6, <1>7, <1>8, <1>9, <1>10, <1>11, <1>12 DEF Next, ShutdownStep

\* The manager is never between two states of a connection when it is looked at:
\* the invariant of every request, start, health check and shutdown.
THEOREM ManagerKeepsInv == Spec => []McpInv
<1>1. Init => McpInv
  BY Initially
<1>2. McpInv /\ [Next]_vars => McpInv'
  BY Stepwise
<1>. QED BY <1>1, <1>2, PTL DEF Spec

\* A process that is attached runs the saved configuration of its enabled
\* connection, it or the pending start is the newest of the connection, and the
\* error that is shown is about the present: no start that an update, a removal
\* or a failed test overtook gets through (applyStartResult, UpdateConnection,
\* TestConnection).
THEOREM OnlyTheNewestRuns == Spec => []ConnectionsCurrent
<1>1. McpInv => ConnectionsCurrent
  BY DEF McpInv, ConnectionOK, ConnectionsCurrent, RunsTheNewest, RunsWhatIsSaved, StatusExact, NewestStart
<1>. QED BY <1>1, ManagerKeepsInv, PTL

\* The visible tools are exactly those of the attached processes, and the newest
\* snapshot on its way to onChange is the visible list: a full queue makes
\* enqueueToolChange wait and loses nothing.
THEOREM ToolsAreThoseThatRun == Spec => []ToolsCurrent
<1>1. ASSUME McpInv PROVE VisibleTools
  <2>1. visible \subseteq Token /\ \A t \in Token : StartOK(t) /\ start[t].conn \in Conn /\ t # 0
    BY <1>1, StartsTyped DEF McpInv, TypeOK
  <2>2. Live = visible
    BY <2>1 DEF Live, StartOK
  <2>3. \A c \in Conn : attached[c] # 0 => start[attached[c]].stage = "attached"
    BY <1>1, AttachedProcess
  <2>4. visible = {t \in Token : \E c \in Conn : attached[c] = t}
    BY <2>1, <2>3 DEF StartOK
  <2>. QED BY <2>2, <2>4 DEF VisibleTools
<1>2. McpInv => ToolsCurrent
  BY <1>1 DEF McpInv, ToolsCurrent
<1>. QED BY <1>2, ManagerKeepsInv, PTL

\* A process that a caller, a probe or a test uses is not closed (drainProcess,
\* closeDrainedProcess), and a shutdown that has ended leaves no process and no
\* start (closeResources).
THEOREM ClosedNeitherEarlyNorLate == Spec => []ClosedInTime
<1>1. ASSUME McpInv, NEW t \in Token, start[t].stage = "closed"
      PROVE  ~Leased(t) /\ start[t].health # "probing"
  <2>1. StartOK(t)
    BY <1>1 DEF McpInv
  <2>. QED BY <1>1, <2>1 DEF StartOK, Leased, Open
<1>2. ASSUME McpInv, shutdown = "done", NEW t \in Token PROVE start[t].stage \in {"closed", "over"}
  BY <1>2 DEF McpInv, StartOK
<1>3. McpInv => ClosedInTime
  BY <1>1, <1>2 DEF ClosedInTime, NoUseAfterClose, NothingLeft
<1>. QED BY <1>3, ManagerKeepsInv, PTL

\* What a restart finds in the store is the configuration in use, or the draft of
\* the one request that is between its save and its publication
\* (saveConnections before publishConfig).
THEOREM RestartFindsWhatWasTold == Spec => []StoreAgrees
<1>1. McpInv => StoreAgrees
  BY DEF McpInv, Mutation, StoreAgrees
<1>. QED BY <1>1, ManagerKeepsInv, PTL

\* Why a process of this connection may begin to drain.
StopReason(t) ==
  \/ step = "publishing" /\ edited = start[t].conn
  \/ shutdown = "closed"
  \/ start[t].health = "bad"
  \/ recheck = [proc |-> t, failed |-> TRUE]
  \/ TestFailsRunning(start[t].conn, start[t].conf)

\* Detaching drains the process of that connection and no other.
LEMMA OnlyItsProcess ==
  ASSUME McpInv, NEW c \in Conn, NEW t \in Token,
         start[t].stage = "attached", DrainedStarts(c)[t].stage = "draining"
  PROVE  attached[c] = t /\ start[t].conn = c
<1>1. t = attached[c] /\ t # 0
  <2>1. t # attached[c] => DrainedStarts(c)[t] = start[t]
    BY DrainGives
  <2>. QED BY <2>1, StartsTyped DEF McpInv
<1>. QED BY <1>1, AttachedProcess

\* What an update adds after the drained starts leaves them alone.
LEMMA OthersStay ==
  ASSUME McpInv, NEW c \in Conn, NEW f \in Conf, NEW t \in Token
  PROVE  /\ Append(DrainedStarts(c), NewStart(c, f))[t] = DrainedStarts(c)[t]
         /\ Append(start, NewStart(c, f))[t] = start[t]
<1>. DEFINE row == NewStart(c, f)
<1>1. /\ row \in Start
      /\ DrainedStarts(c) \in Seq(Start) /\ start \in Seq(Start) /\ Len(DrainedStarts(c)) = Len(start)
      /\ t \in 1 .. Len(start)
  BY DrainGives, StartsTyped DEF McpInv, NewStart, Start, Stages, Healths, Token
<1>. HIDE DEF row
<1>2. Append(DrainedStarts(c), row)[t] = DrainedStarts(c)[t] /\ Append(start, row)[t] = start[t]
  BY <1>1, OneMoreStart
<1>. QED BY <1>2 DEF row

\* A start that moves on or is probed does not drain.
LEMMA MovesDoNotDrain ==
  ASSUME McpInv, NEW t \in Token, NEW u \in Token, start[t].stage = "attached",
         \/ \E x \in Stages \ {"draining"} : start' = Staged(start, u, x)
         \/ \E x \in Healths : start' = Diagnosed(start, u, x)
         \/ start' = start
  PROVE  start'[t].stage # "draining"
<1>1. start \in Seq(Start) /\ u \in 1 .. Len(start) /\ t \in 1 .. Len(start)
  BY StartsTyped DEF McpInv, Token
<1>2. ASSUME NEW x \in Stages, x # "draining", start' = Staged(start, u, x) PROVE start'[t].stage # "draining"
  <2>1. Staged(start, u, x)[u].stage = x /\ \A v \in 1 .. Len(start) : v # u => Staged(start, u, x)[v] = start[v]
    BY <1>1, StageMoves
  <2>2. start'[u].stage = x /\ \A v \in 1 .. Len(start) : v # u => start'[v] = start[v]
    BY <1>2, <2>1, Zenon
  <2>. QED BY <1>1, <1>2, <2>2
<1>3. ASSUME NEW x \in Healths, start' = Diagnosed(start, u, x) PROVE start'[t].stage # "draining"
  <2>1. /\ Diagnosed(start, u, x)[u].stage = start[u].stage
        /\ \A v \in 1 .. Len(start) : v # u => Diagnosed(start, u, x)[v] = start[v]
    BY <1>1, HealthMoves
  <2>2. start'[u].stage = start[u].stage /\ \A v \in 1 .. Len(start) : v # u => start'[v] = start[v]
    BY <1>3, <2>1, Zenon
  <2>. QED BY <1>1, <2>2
<1>. QED BY <1>2, <1>3

\* Each step that makes a process drain has one of the reasons.
LEMMA DrainedForAReason ==
  ASSUME McpInv, Next, NEW t \in Token, start[t].stage = "attached", start'[t].stage = "draining"
  PROVE  StopReason(t)
<1>1. start' # start
  OBVIOUS
<1>2. ASSUME NEW c \in Conn, Request(c) PROVE StopReason(t)
  <2>1. PICK f \in Conf : TestPasses(c, f) \/ TestFailsRunning(c, f)
    BY <1>1, <1>2 DEF Request, Add, Update, Remove, Propose, TestFailsIdle, TestFailsOther
  <2>2. CASE TestPasses(c, f)
    <3>1. Exists(c) /\ start' = Append(start, NewStart(c, config'[c].conf)) /\ config' = config
      BY <1>1, <2>2 DEF TestPasses, MayApplyTest, Schedule
    <3>2. config[c].conf \in Conf
      BY <3>1 DEF McpInv, TypeOK, Exists, Saved
    <3>. QED BY <3>1, <3>2, OthersStay
  <2>3. CASE TestFailsRunning(c, f)
    <3>1. start' = DrainedStarts(c) /\ start[attached[c]].conf = f
      BY <2>3 DEF TestFailsRunning, Fail
    <3>2. attached[c] = t /\ start[t].conn = c
      BY <3>1, OnlyItsProcess
    <3>. QED BY <2>3, <3>1, <3>2 DEF StopReason
  <2>. QED BY <2>1, <2>2, <2>3
<1>3. CASE PublishStep
  <2>1. edited \in Conn /\ draft \in [Conn -> Saved \cup {Absent}] /\ step = "publishing"
    BY <1>3 DEF McpInv, TypeOK, PublishStep, PublishAdd, PublishUpdate, PublishRemove
  <2>2. CASE PublishAdd
    <3>1. /\ start' = Append(start, NewStart(edited, draft[edited].conf)) /\ ~Exists(edited)
      BY <1>1, <2>2 DEF PublishAdd, Schedule
    <3>2. draft[edited] # Absent
      BY <2>1, <2>2 DEF PublishAdd, McpInv, Mutation
    <3>3. draft[edited].conf \in Conf
      BY <2>1, <3>2 DEF Saved
    <3>. QED BY <2>1, <3>1, <3>3, OthersStay
  <2>3. CASE PublishUpdate
    <3>1. /\ draft[edited] # Absent
          /\ \/ start' = DrainedStarts(edited)
             \/ start' = Append(DrainedStarts(edited), NewStart(edited, draft[edited].conf))
      BY <2>3 DEF PublishUpdate, Schedule
    <3>2. draft[edited].conf \in Conf
      BY <2>1, <3>1 DEF Saved
    <3>3. start'[t] = DrainedStarts(edited)[t]
      BY <2>1, <3>1, <3>2, OthersStay
    <3>. QED BY <2>1, <3>3, OnlyItsProcess DEF StopReason
  <2>4. CASE PublishRemove
    <3>1. start' = DrainedStarts(edited)
      BY <2>4 DEF PublishRemove
    <3>. QED BY <2>1, <3>1, OnlyItsProcess DEF StopReason
  <2>. QED BY <1>3, <2>2, <2>3, <2>4 DEF PublishStep
<1>4. CASE Announce
  <2>1. start'[t] = AfterUnlock(start[t])
    BY <1>4 DEF Announce
  <2>2. start[t] \in Start
    BY StartsTyped DEF McpInv
  <2>3. AfterUnlock(start[t]).stage = start[t].stage
    BY <2>2 DEF AfterUnlock, Start
  <2>. QED BY <2>1, <2>3
<1>5. ASSUME NEW u \in Token, StartStep(u) PROVE StopReason(t)
  <2>1. \E x \in Stages \ {"draining"} : start' = Staged(start, u, x)
    <3>1. \E x \in {"connected", "failed", "closed", "over", "attached"} : start' = [start EXCEPT ![u].stage = x]
      BY <1>5 DEF StartStep, Connect, StartSuperseded, StartObsolete, StartFails, Attach, SetStage, DropProcess
    <3>. QED BY <3>1 DEF Staged, Stages
  <2>. QED BY <2>1, MovesDoNotDrain
<1>6. ASSUME NEW u \in Token, HealthStep(u) PROVE StopReason(t)
  <2>1. CASE ApplyHealth(u) /\ ProbedIsAttached(u) /\ start[u].health # "good"
    <3>. DEFINE c == start[u].conn
                seq == DrainedStarts(c)
    <3>1. start' = Diagnosed(seq, u, "over") /\ attached[c] = u /\ start[u].health = "bad"
      BY <2>1 DEF ApplyHealth, ProbedIsAttached, Diagnosed
    <3>2. c \in Conn /\ seq \in Seq(Start) /\ u \in 1 .. Len(seq) /\ t \in 1 .. Len(seq) /\ "over" \in Healths
      <4>1. c \in Conn
        BY StartsTyped DEF McpInv
      <4>. QED BY <4>1, DrainGives DEF Token, Healths
    <3>3. start'[t].stage = seq[t].stage
      <4>. HIDE DEF c, seq
      <4>. QED BY <3>1, <3>2, HealthMoves
    <3>4. attached[c] = t
      BY <3>2, <3>3, OnlyItsProcess
    <3>. QED BY <3>1, <3>4 DEF StopReason
  <2>2. CASE ~(ApplyHealth(u) /\ ProbedIsAttached(u) /\ start[u].health # "good")
    <3>1. \E x \in Healths : start' = Diagnosed(start, u, x)
      <4>1. \E x \in {"probing", "good", "bad", "over", "waiting"} : start' = [start EXCEPT ![u].health = x]
        BY <1>6, <2>2 DEF HealthStep, Probe, ProbeEnds, ProbesStop, ApplyHealth, SetHealth
      <4>. QED BY <4>1 DEF Diagnosed, Healths
    <3>. QED BY <3>1, MovesDoNotDrain
  <2>. QED BY <2>1, <2>2
<1>7. ASSUME NEW u \in Token, Close(u) PROVE StopReason(t)
  <2>1. start' = Staged(start, u, "closed") /\ "closed" \in Stages
    BY <1>7 DEF Close, SetStage, Staged, Stages
  <2>. QED BY <2>1, MovesDoNotDrain
<1>8. CASE ApplyRecheck
  <2>. DEFINE u == recheck.proc
              c == start[u].conn
  <2>1. recheck.failed /\ attached[c] = u /\ start' = DrainedStarts(c)
    BY <1>1, <1>8 DEF ApplyRecheck, Fail
  <2>2. recheck \in [proc : 0 .. Len(start), failed : BOOLEAN] /\ u # 0 /\ Len(start) \in Nat
    BY <2>1, StartsTyped DEF McpInv, TypeOK
  <2>3. u \in Token /\ c \in Conn
    <3>1. u \in Token
      BY <2>2 DEF Token
    <3>. QED BY <3>1, StartsTyped DEF McpInv
  <2>4. u = t
    BY <2>1, <2>3, OnlyItsProcess
  <2>5. recheck = [proc |-> t, failed |-> TRUE]
    BY <2>1, <2>2, <2>4
  <2>. QED BY <2>5 DEF StopReason
<1>9. CASE StopAll
  BY <1>9 DEF StopAll, StopReason
<1>10. CASE StartsEnd
  <2>1. start'[t] = start[t]
    BY <1>10 DEF StartsEnd
  <2>. QED BY <2>1
<1>11. ASSUME SaveStep \/ Deliver \/ RecheckEnds \/ Shutdown \/ DispatcherEnds \/ ShutdownEnds
              \/ \E k \in Caller : EndCall(k) \/ \E u \in Token : Call(k, u)
       PROVE  FALSE
  BY <1>1, <1>11 DEF SaveStep, Save, SaveFails, Deliver, RecheckEnds, Shutdown, DispatcherEnds, ShutdownEnds,
                     EndCall, Call
<1>. QED BY <1>2, <1>3, <1>4, <1>5, <1>6, <1>7, <1>8, <1>9, <1>10, <1>11 DEF Next, ShutdownStep

\* A process that runs is stopped by a change of its connection, by the shutdown
\* or by a failure found with this process or its configuration: a late result
\* about an earlier process (applyProcessHealth, TestConnection) never stops it.
THEOREM OnlyTheGuiltyStop == Spec => InnocentRunOn
<1>1. McpInv /\ [Next]_vars =>
        [\A t \in Token :
           start[t].stage = "attached" /\ start'[t].stage = "draining" =>
             \/ step = "publishing" /\ edited = start[t].conn
             \/ shutdown = "closed"
             \/ start[t].health = "bad"
             \/ recheck = [proc |-> t, failed |-> TRUE]
             \/ TestFailsRunning(start[t].conn, start[t].conf)]_vars
  BY DrainedForAReason DEF StopReason
<1>. QED BY <1>1, ManagerKeepsInv, PTL DEF Spec, InnocentRunOn

================================================================================
