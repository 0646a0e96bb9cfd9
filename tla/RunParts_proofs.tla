--------------------------- MODULE RunParts_proofs ---------------------------
(***************************************************************************)
(* Proofs about the parts of a run, each by itself.  ToolBatch, for every    *)
(* number of calls: the invariant says, for each call of the batch, what     *)
(* has been told of it at each of its stages, and which calls can be at work *)
(* where the batch is.  WorkspaceFiles, for every set of editors: who is in   *)
(* the queue of the path works on the text that is in the file.  ChatPage,   *)
(* for every set of sessions, projects and runs and every bound: what a      *)
(* question that is still open says of the page as it is now, and how the    *)
(* messages that are shown meet the events that are still to come.           *)
(***************************************************************************)
EXTENDS ToolBatch, WorkspaceFiles, ChatPage, FiniteSetTheorems, TLAPS

-----------------------------------------------------------------------------
(* A batch of tool calls *)

EventType == {"start", "update", "end", "message"}
Stages == {"new", "started", "ready", "executing", "troubled", "closing", "ended", "failed"}
AtWork == {"executing", "troubled", "closing"}
Sequential == BatchMode = "sequential"

BatchTyped ==
  /\ runnerMode \in {"parallel", "sequential"} /\ tool \in [Batch -> {"parallel", "sequential", "unknown"}]
  /\ callId \in [Batch -> CallId] /\ batchAt \in {"preparing", "running", "telling", "returned", "failed"}
  /\ next \in 1..(Calls + 1) /\ callStage \in [Batch -> Stages] /\ sink \in [Batch -> {"none", "active", "closed"}]
  /\ events \in Seq(EventType \X Batch) /\ pending \subseteq CallId
  /\ halted \in BOOLEAN /\ refused \in 0..MaxRefusals

\* Which calls can be where, by where the batch is: in a sequence only the next one
\* is under way, in parallel all are prepared before the first one is executed.
Placed ==
  /\ batchAt \in {"running", "telling"} => ~Sequential
  /\ batchAt = "running" => \A c \in Batch : callStage[c] \notin {"new", "started"}
  /\ batchAt \in {"telling", "returned"} => \A c \in Batch : callStage[c] = "ended"
  /\ batchAt = "preparing" =>
       \A c \in Batch :
         /\ c > next => callStage[c] = "new"
         /\ c < next => callStage[c] \in (IF Sequential THEN {"ended"} ELSE {"ready", "ended"})
         /\ c = next /\ ~Sequential => callStage[c] \in {"new", "started"}
  /\ \A c \in Batch : callStage[c] \in AtWork =>
       IF Sequential THEN batchAt = "preparing" /\ c = next ELSE batchAt = "running"
  /\ \A c \in Batch : sink[c] = "active" => callStage[c] \in {"executing", "troubled"}

\* What was told of a call, by its stage.
FollowedCall(c) ==
  /\ callStage[c] = "new" => \A t \in EventType : Told(t, c) = {}
  /\ callStage[c] # "new" => Told("start", c) # {}
  /\ Told("end", c) # {} => callStage[c] \in {"ended", "failed"}
  /\ callStage[c] = "ended" => Told("end", c) # {}
  /\ \A t \in {"start", "end", "message"} : \A i, j \in Told(t, c) : i = j
  /\ \A u \in Told("update", c) :
       (\A s \in Told("start", c) : s < u) /\ \A e \in Told("end", c) : u < e

Followed == \A c \in Batch : FollowedCall(c)

\* The messages are those of the calls before the next one, each after the end of its call.
InOrder ==
  /\ \A c \in Batch : Told("message", c) # {} =>
       /\ callStage[c] = "ended" /\ (c < next \/ (c = next /\ batchAt = "failed"))
       /\ Sequential \/ batchAt \in {"telling", "returned", "failed"}
  /\ Sequential \/ batchAt \in {"telling", "returned"} =>
       \A c \in Batch : c < next => Told("message", c) # {}
  /\ batchAt = "returned" => next > Calls
  /\ \A c \in Batch : \A t \in Told("message", c) : \E e \in Told("end", c) : e < t
  /\ \A c, d \in Batch : c < d => \A t \in Told("message", c), u \in Told("message", d) : t < u

BatchInv == BatchTyped /\ Placed /\ Followed /\ InOrder /\ PendingExact

LEMMA ToldTyped ==
  ASSUME events \in Seq(EventType \X Batch), NEW t, NEW c, NEW i \in Told(t, c)
  PROVE  i \in Nat /\ i <= Len(events)
BY DEF Told

LEMMA EmitTells ==
  ASSUME BatchTyped, NEW t \in EventType, NEW c \in Batch, Emit(t, c)
  PROVE  /\ events' \in Seq(EventType \X Batch) /\ pending' \subseteq CallId
         /\ Told(t, c)' = Told(t, c) \cup {Len(events) + 1}
         /\ \A u \in EventType, d \in Batch : u # t \/ d # c => Told(u, d)' = Told(u, d)
<1>1. events' = Append(events, <<t, c>>) /\ <<t, c>> \in EventType \X Batch
  BY DEF Emit
<1>2. events \in Seq(EventType \X Batch) /\ callId[c] \in CallId /\ pending \subseteq CallId
  BY DEF BatchTyped
<1>3. /\ events' \in Seq(EventType \X Batch) /\ Len(events') = Len(events) + 1
      /\ \A i \in 1..Len(events) : events'[i] = events[i]
      /\ events'[Len(events) + 1] = <<t, c>>
  BY <1>1, <1>2
<1>4. pending' \subseteq CallId
  BY <1>2 DEF Emit
<1>5. ASSUME NEW u \in EventType, NEW d \in Batch
      PROVE  Told(u, d)' = (IF u = t /\ d = c THEN Told(u, d) \cup {Len(events) + 1} ELSE Told(u, d))
  <2>1. \A i \in 1..Len(events) : i \in Told(u, d)' <=> i \in Told(u, d)
    BY <1>2, <1>3 DEF Told
  <2>2. Len(events) + 1 \in Told(u, d)' <=> (u = t /\ d = c)
    BY <1>2, <1>3 DEF Told
  <2>3. Told(u, d)' \subseteq 1..(Len(events) + 1) /\ Told(u, d) \subseteq 1..Len(events)
    BY <1>2, <1>3 DEF Told
  <2>4. ASSUME NEW i, i \in Told(u, d)'
        PROVE  i \in (IF u = t /\ d = c THEN Told(u, d) \cup {Len(events) + 1} ELSE Told(u, d))
    <3>1. i \in 1..Len(events) \/ i = Len(events) + 1
      BY <1>2, <2>3, <2>4
    <3>. QED BY <2>1, <2>2, <2>4, <3>1
  <2>5. ASSUME NEW i, i \in (IF u = t /\ d = c THEN Told(u, d) \cup {Len(events) + 1} ELSE Told(u, d))
        PROVE  i \in Told(u, d)'
    BY <2>1, <2>2, <2>3, <2>5
  <2>. QED BY <2>4, <2>5
<1>. QED BY <1>3, <1>4, <1>5

\* Nothing is told, so that only the stages and the place of the batch change.
LEMMA QuietKeeps ==
  ASSUME UNCHANGED <<runnerMode, tool, callId, events, pending>>
  PROVE  /\ \A u, d : Told(u, d)' = Told(u, d)
         /\ Sequential' <=> Sequential
         /\ PendingExact => PendingExact'
BY DEF Told, Sequential, BatchMode, PendingExact

LEMMA ModeFixed == ASSUME Fixed PROVE Sequential' <=> Sequential
  BY DEF Fixed, Sequential, BatchMode

\* Who is told of a start is pending, until its end is told.
LEMMA PendingFollows ==
  ASSUME BatchTyped, PendingExact, Fixed, NEW t \in EventType, NEW c \in Batch, Emit(t, c),
         t = "start" => Told("end", c) = {}
  PROVE  PendingExact'
<1>. SUFFICES ASSUME NEW d \in Batch, \A e \in Batch \ {d} : callId[e] # callId[d]
              PROVE  callId[d] \in pending' <=> Told("start", d)' # {} /\ Told("end", d)' = {}
  BY DEF PendingExact, Fixed
<1>1. callId[d] \in pending <=> Told("start", d) # {} /\ Told("end", d) = {}
  BY DEF PendingExact
<1>2. /\ Told(t, c)' = Told(t, c) \cup {Len(events) + 1}
      /\ \A u \in {"start", "end"} : u # t \/ d # c => Told(u, d)' = Told(u, d)
  BY EmitTells DEF EventType
<1>3. pending' = CASE t = "start" -> pending \cup {callId[c]}
                   [] t = "end" -> pending \ {callId[c]}
                   [] OTHER -> pending
  BY DEF Emit
<1>. QED BY ONLY <1>1, <1>2, <1>3, \A e \in Batch \ {d} : callId[e] # callId[d], c \in Batch,
             t = "start" => Told("end", c) = {}

LEMMA BatchBegins == BatchInit => BatchInv
<1>. SUFFICES ASSUME BatchInit PROVE BatchInv
  OBVIOUS
<1>1. \A u, d : Told(u, d) = {}
  BY DEF BatchInit, Told
<1>2. BatchTyped
  <2>1. <<>> \in Seq(EventType \X Batch) /\ 1 \in 1..(Calls + 1) /\ 0 \in 0..MaxRefusals
    BY BatchConstants
  <2>. QED BY <2>1 DEF BatchInit, BatchTyped, Stages
<1>3. Placed
  BY BatchConstants DEF BatchInit, Placed, Batch, AtWork, Sequential, BatchMode
<1>4. Followed /\ PendingExact
  BY <1>1 DEF BatchInit, Followed, FollowedCall, PendingExact
<1>5. InOrder
  BY <1>1, BatchConstants DEF BatchInit, InOrder, Batch
<1>. QED BY <1>2, <1>3, <1>4, <1>5 DEF BatchInv

LEMMA StartInterruptedKeeps == ASSUME BatchInv, StartInterrupted PROVE BatchInv'
<1>. USE DEF StartInterrupted, Fixed, Quiet, BatchInv
<1>1. BatchTyped'
  BY DEF BatchTyped
<1>2. Placed'
  BY QuietKeeps, BatchConstants DEF Placed, BatchTyped, Batch, AtWork
<1>3. Followed' /\ PendingExact'
  BY QuietKeeps DEF Followed, FollowedCall
<1>4. InOrder'
  BY QuietKeeps DEF InOrder, BatchTyped, Batch
<1>. QED BY <1>1, <1>2, <1>3, <1>4

LEMMA LaunchKeeps == ASSUME BatchInv, Launch PROVE BatchInv'
<1>. USE DEF Launch, Fixed, Quiet, BatchInv
<1>1. BatchTyped'
  BY DEF BatchTyped
<1>0. ~Sequential
  BY DEF Sequential
<1>2. Placed'
  <2>1. \A c \in Batch : c < next /\ callStage[c] \in {"ready", "ended"} /\ sink[c] # "active"
    BY <1>0, BatchConstants DEF Placed, BatchTyped, Batch
  <2>. QED BY <1>0, <2>1, QuietKeeps DEF Placed, AtWork
<1>3. Followed' /\ PendingExact'
  BY QuietKeeps DEF Followed, FollowedCall
<1>4. InOrder'
  BY QuietKeeps DEF InOrder, BatchTyped, Batch
<1>. QED BY <1>1, <1>2, <1>3, <1>4

LEMMA JoinKeeps == ASSUME BatchInv, Join PROVE BatchInv'
<1>. USE DEF Join, Fixed, Quiet, BatchInv
<1>1. BatchTyped'
  BY BatchConstants DEF BatchTyped
<1>2. Placed'
  BY QuietKeeps, BatchConstants DEF Placed, BatchTyped, Batch, AtWork
<1>3. Followed' /\ PendingExact'
  BY QuietKeeps DEF Followed, FollowedCall
<1>4. InOrder'
  BY QuietKeeps, BatchConstants DEF InOrder, BatchTyped, Batch, Placed
<1>. QED BY <1>1, <1>2, <1>3, <1>4

LEMMA ReturnBatchKeeps == ASSUME BatchInv, ReturnBatch PROVE BatchInv'
<1>. USE DEF ReturnBatch, Fixed, Quiet, BatchInv
<1>1. BatchTyped'
  BY DEF BatchTyped
<1>2. Placed'
  BY QuietKeeps, BatchConstants DEF Placed, BatchTyped, Batch, AtWork, Sequential
<1>3. Followed' /\ PendingExact'
  BY QuietKeeps DEF Followed, FollowedCall
<1>4. InOrder'
  <2>1. \A c \in Batch : Told("message", c)' # {} =>
          /\ callStage'[c] = "ended" /\ (c < next' \/ (c = next' /\ batchAt' = "failed"))
          /\ Sequential' \/ batchAt' \in {"telling", "returned", "failed"}
    BY QuietKeeps, BatchConstants DEF InOrder, BatchTyped, Batch, Sequential
  <2>2. Sequential' \/ batchAt' \in {"telling", "returned"} =>
          \A c \in Batch : c < next' => Told("message", c)' # {}
    BY QuietKeeps, BatchConstants DEF InOrder, BatchTyped, Batch, Sequential
  <2>3. /\ batchAt' = "returned" => next' > Calls
        /\ \A c \in Batch : \A t \in Told("message", c)' : \E e \in Told("end", c)' : e < t
        /\ \A c, d \in Batch : c < d => \A t \in Told("message", c)', u \in Told("message", d)' : t < u
    BY QuietKeeps, BatchConstants DEF InOrder, BatchTyped, Batch, Sequential
  <2>. QED BY ONLY <2>1, <2>2, <2>3 DEF InOrder
<1>. QED BY <1>1, <1>2, <1>3, <1>4

LEMMA AbandonKeeps == ASSUME BatchInv, Abandon PROVE BatchInv'
<1>. USE DEF Abandon, Fixed, Quiet, BatchInv
<1>1. BatchTyped'
  BY DEF BatchTyped
<1>2. Placed'
  BY QuietKeeps, BatchConstants DEF Placed, BatchTyped, Batch, AtWork
<1>3. Followed' /\ PendingExact'
  BY QuietKeeps DEF Followed, FollowedCall
<1>4. InOrder'
  BY QuietKeeps DEF InOrder, BatchTyped, Batch
<1>. QED BY <1>1, <1>2, <1>3, <1>4

LEMMA CancelRunKeeps == ASSUME BatchInv, CancelRun PROVE BatchInv'
<1>. USE DEF CancelRun, Fixed, Quiet, BatchInv
<1>1. BatchTyped'
  BY DEF BatchTyped
<1>2. Placed'
  BY QuietKeeps DEF Placed
<1>3. Followed' /\ PendingExact'
  BY QuietKeeps DEF Followed, FollowedCall
<1>4. InOrder'
  BY QuietKeeps DEF InOrder
<1>. QED BY <1>1, <1>2, <1>3, <1>4

LEMMA AcceptKeeps == ASSUME BatchInv, Accept PROVE BatchInv'
<1>. USE DEF Accept, Fixed, Quiet, BatchInv, Stage, Onward
<1>0. next \in Batch /\ next' \in 1..(Calls + 1)
  BY BatchConstants DEF BatchTyped, Batch
<1>1. BatchTyped'
  BY <1>0 DEF BatchTyped, Stages
<1>2. Placed'
  <2>1. /\ batchAt' \in {"running", "telling"} => ~Sequential'
        /\ batchAt' = "running" => \A c \in Batch : callStage'[c] \notin {"new", "started"}
        /\ batchAt' \in {"telling", "returned"} => \A c \in Batch : callStage'[c] = "ended"
    BY <1>0, QuietKeeps, BatchConstants DEF Placed, BatchTyped, Batch, AtWork, Sequential, Stages
  <2>2. batchAt' = "preparing" =>
          \A c \in Batch :
            /\ c > next' => callStage'[c] = "new"
            /\ c < next' => callStage'[c] \in (IF Sequential' THEN {"ended"} ELSE {"ready", "ended"})
            /\ c = next' /\ ~Sequential' => callStage'[c] \in {"new", "started"}
    BY <1>0, QuietKeeps, BatchConstants DEF Placed, BatchTyped, Batch, AtWork, Sequential, Stages
  <2>3. /\ \A c \in Batch : callStage'[c] \in AtWork =>
             IF Sequential' THEN batchAt' = "preparing" /\ c = next' ELSE batchAt' = "running"
        /\ \A c \in Batch : sink'[c] = "active" => callStage'[c] \in {"executing", "troubled"}
    BY <1>0, QuietKeeps, BatchConstants DEF Placed, BatchTyped, Batch, AtWork, Sequential, Stages
  <2>. QED BY ONLY <2>1, <2>2, <2>3 DEF Placed
<1>3. Followed' /\ PendingExact'
  BY <1>0, QuietKeeps DEF Followed, FollowedCall, BatchTyped
<1>4. InOrder'
  <2>1. \A c \in Batch : Told("message", c)' # {} =>
          /\ callStage'[c] = "ended" /\ (c < next' \/ (c = next' /\ batchAt' = "failed"))
          /\ Sequential' \/ batchAt' \in {"telling", "returned", "failed"}
    BY <1>0, QuietKeeps, BatchConstants DEF InOrder, BatchTyped, Batch, Sequential
  <2>2. Sequential' \/ batchAt' \in {"telling", "returned"} =>
          \A c \in Batch : c < next' => Told("message", c)' # {}
    BY <1>0, QuietKeeps, BatchConstants DEF InOrder, BatchTyped, Batch, Sequential
  <2>3. /\ batchAt' = "returned" => next' > Calls
        /\ \A c \in Batch : \A t \in Told("message", c)' : \E e \in Told("end", c)' : e < t
        /\ \A c, d \in Batch : c < d => \A t \in Told("message", c)', u \in Told("message", d)' : t < u
    BY <1>0, QuietKeeps, BatchConstants DEF InOrder, BatchTyped, Batch, Sequential
  <2>. QED BY ONLY <2>1, <2>2, <2>3 DEF InOrder
<1>. QED BY <1>1, <1>2, <1>3, <1>4

LEMMA ExecuteKeeps == ASSUME BatchInv, NEW c \in Batch, Execute(c) PROVE BatchInv'
<1>. USE DEF Execute, MayExecute, Fixed, Quiet, BatchInv, Stage
<1>1. BatchTyped'
  BY DEF BatchTyped, Stages
<1>2. Placed'
  BY QuietKeeps, BatchConstants DEF Placed, BatchTyped, Batch, AtWork, Sequential, Stages
<1>3. Followed' /\ PendingExact'
  BY QuietKeeps DEF Followed, FollowedCall, BatchTyped
<1>4. InOrder'
  BY QuietKeeps DEF InOrder, BatchTyped
<1>. QED BY <1>1, <1>2, <1>3, <1>4

LEMMA ToolReturnsKeeps == ASSUME BatchInv, NEW c \in Batch, ToolReturns(c) PROVE BatchInv'
<1>. USE DEF ToolReturns, CloseSink, Fixed, Quiet, BatchInv, Stage
<1>1. BatchTyped'
  BY DEF BatchTyped, Stages
<1>2. Placed'
  BY QuietKeeps DEF Placed, BatchTyped, AtWork, Stages
<1>3. Followed' /\ PendingExact'
  BY QuietKeeps DEF Followed, FollowedCall, BatchTyped
<1>4. InOrder'
  BY QuietKeeps DEF InOrder, BatchTyped
<1>. QED BY <1>1, <1>2, <1>3, <1>4

LEMMA UpdateFailsKeeps == ASSUME BatchInv, NEW c \in Batch, UpdateFails(c) PROVE BatchInv'
<1>. USE DEF UpdateFails, CloseSink, Fixed, Quiet, BatchInv, Stage
<1>1. BatchTyped'
  BY DEF BatchTyped, Stages
<1>2. Placed'
  BY QuietKeeps DEF Placed, BatchTyped, AtWork, Stages
<1>3. Followed' /\ PendingExact'
  BY QuietKeeps DEF Followed, FollowedCall, BatchTyped
<1>4. InOrder'
  BY QuietKeeps DEF InOrder, BatchTyped
<1>. QED BY <1>1, <1>2, <1>3, <1>4

LEMMA StartKeeps == ASSUME BatchInv, NEW n \in Batch, n = next, Start PROVE BatchInv'
<1>. USE DEF Start, Fixed, BatchInv, Stage, Taken, Refused
<1>0. callStage[n] = "new" /\ Emit("start", n) /\ "start" \in EventType
  BY DEF BatchTyped, Batch, EventType
<1>a. /\ Told("start", n)' = Told("start", n) \cup {Len(events) + 1}
      /\ \A u \in EventType, d \in Batch : u # "start" \/ d # n => Told(u, d)' = Told(u, d)
  BY <1>0, EmitTells
<1>b. /\ \A u \in EventType : Told(u, n) = {}
      /\ \A u, d : \A i \in Told(u, d) : i \in Nat /\ i < Len(events) + 1
  BY <1>0, ToldTyped DEF Followed, FollowedCall, BatchTyped
<1>1. BatchTyped'
  <2>1. events' \in Seq(EventType \X Batch) /\ pending' \subseteq CallId
    BY <1>0, EmitTells
  <2>2. refused' \in 0..MaxRefusals
    BY BatchConstants DEF BatchTyped
  <2>. QED BY <1>0, <2>1, <2>2 DEF BatchTyped, Stages
<1>2. Placed'
  BY <1>0, ModeFixed, BatchConstants DEF Placed, BatchTyped, Batch, AtWork, Stages
<1>3. Followed'
  <2>1. ASSUME NEW d \in Batch, d # n PROVE FollowedCall(d)'
    <3>1. FollowedCall(d) /\ callStage'[d] = callStage[d] /\ \A u \in EventType : Told(u, d)' = Told(u, d)
      BY <1>0, <1>a, <2>1 DEF Followed, BatchTyped
    <3>. QED BY <3>1 DEF FollowedCall, EventType
  <2>2. FollowedCall(n)'
    <3>1. FollowedCall(n) /\ callStage'[n] = "started"
      BY <1>0 DEF Followed, BatchTyped
    <3>2. /\ Told("start", n)' = Told("start", n) \cup {Len(events) + 1}
          /\ Told("end", n)' = Told("end", n)
          /\ Told("update", n)' = Told("update", n)
          /\ Told("message", n)' = Told("message", n)
      BY ONLY <1>0, <1>a DEF EventType
    <3>. QED BY ONLY <1>0, <1>b, <3>1, <3>2 DEF FollowedCall, EventType, Stages
  <2>. QED BY ONLY <2>1, <2>2 DEF Followed
<1>4. InOrder'
  BY <1>0, <1>a, <1>b, ModeFixed DEF InOrder, BatchTyped, Batch, EventType
<1>5. PendingExact'
  <2>1. Told("end", n) = {}
    BY <1>b DEF EventType
  <2>. QED BY <1>0, <2>1, PendingFollows
<1>. QED BY <1>1, <1>2, <1>3, <1>4, <1>5

LEMMA RefuseCallKeeps == ASSUME BatchInv, NEW n \in Batch, n = next, RefuseCall PROVE BatchInv'
<1>. USE DEF RefuseCall, Fixed, BatchInv, Stage, Taken, Refused, Onward
<1>0. /\ callStage[n] = "started" /\ Emit("end", n) /\ "end" \in EventType
      /\ next' \in 1..(Calls + 1)
  BY BatchConstants DEF BatchTyped, Batch, EventType
<1>a. /\ Told("end", n)' = Told("end", n) \cup {Len(events) + 1}
      /\ \A u \in EventType, d \in Batch : u # "end" \/ d # n => Told(u, d)' = Told(u, d)
  BY <1>0, EmitTells
<1>b. /\ Told("end", n) = {} /\ Told("start", n) # {}
      /\ \A u, d : \A i \in Told(u, d) : i \in Nat /\ i < Len(events) + 1
  BY <1>0, ToldTyped DEF Followed, FollowedCall, BatchTyped
<1>1. BatchTyped'
  <2>1. events' \in Seq(EventType \X Batch) /\ pending' \subseteq CallId
    BY <1>0, EmitTells
  <2>2. refused' \in 0..MaxRefusals
    BY BatchConstants DEF BatchTyped
  <2>. QED BY <1>0, <2>1, <2>2 DEF BatchTyped, Stages
<1>2. Placed'
  BY <1>0, ModeFixed, BatchConstants DEF Placed, BatchTyped, Batch, AtWork, Stages, Sequential
<1>3. Followed'
  <2>1. ASSUME NEW d \in Batch, d # n PROVE FollowedCall(d)'
    <3>1. FollowedCall(d) /\ callStage'[d] = callStage[d] /\ \A u \in EventType : Told(u, d)' = Told(u, d)
      BY <1>0, <1>a, <2>1 DEF Followed, BatchTyped
    <3>. QED BY <3>1 DEF FollowedCall, EventType
  <2>2. FollowedCall(n)'
    <3>1. FollowedCall(n) /\ callStage'[n] = "ended"
      BY <1>0 DEF Followed, BatchTyped
    <3>2. /\ Told("start", n)' = Told("start", n)
          /\ Told("end", n)' = Told("end", n) \cup {Len(events) + 1}
          /\ Told("update", n)' = Told("update", n)
          /\ Told("message", n)' = Told("message", n)
      BY ONLY <1>0, <1>a DEF EventType
    <3>3. /\ Told("end", n)' = {Len(events) + 1} /\ Told("start", n)' # {}
          /\ \A u \in Told("update", n) : u < Len(events) + 1
      BY ONLY <1>b, <3>2
    <3>4. \A u \in Told("update", n)' :
            (\A t \in Told("start", n)' : t < u) /\ \A e \in Told("end", n)' : u < e
      BY ONLY <3>1, <3>2, <3>3 DEF FollowedCall
    <3>5. \A t \in {"start", "end", "message"} : \A i, j \in Told(t, n)' : i = j
      <4>1. \A i, j \in Told("start", n)' : i = j
        BY ONLY <3>1, <3>2 DEF FollowedCall
      <4>2. \A i, j \in Told("end", n)' : i = j
        BY ONLY <3>3
      <4>3. \A i, j \in Told("message", n)' : i = j
        BY ONLY <3>1, <3>2 DEF FollowedCall
      <4>. QED BY ONLY <4>1, <4>2, <4>3
    <3>6. Told("end", n)' # {}
      BY ONLY <3>3
    <3>. QED BY ONLY <3>1, <3>3, <3>4, <3>5, <3>6 DEF FollowedCall
  <2>. QED BY ONLY <2>1, <2>2 DEF Followed
<1>4. InOrder'
  <2>1. /\ \A d \in Batch : Told("message", d)' = Told("message", d) /\ Told("end", d) \subseteq Told("end", d)'
        /\ Told("message", n) = {}
    BY <1>0, <1>a DEF InOrder, EventType
  <2>2. /\ \A d \in Batch \ {n} : callStage'[d] = callStage[d]
        /\ next \in Int /\ (next' = next \/ (next' = next + 1 /\ ~Sequential))
        /\ batchAt' = batchAt \/ (batchAt' = "failed" /\ next' = next)
        /\ batchAt = "preparing"
    BY DEF BatchTyped, Sequential
  <2>. QED BY ONLY <2>1, <2>2, BatchInv, ModeFixed, Fixed, n \in Batch, n = next DEF BatchInv, InOrder, Batch
<1>5. PendingExact'
  BY <1>0, <1>b, PendingFollows
<1>. QED BY <1>1, <1>2, <1>3, <1>4, <1>5

LEMMA TellKeeps == ASSUME BatchInv, NEW n \in Batch, n = next, Tell PROVE BatchInv'
<1>. USE DEF Tell, Fixed, BatchInv, Taken, Refused
<1>0. /\ callStage[n] = "ended" /\ Emit("message", n) /\ "message" \in EventType
      /\ next' \in 1..(Calls + 1)
      /\ \/ next' = next + 1 /\ batchAt' = batchAt
         \/ next' = next /\ batchAt' = "failed"
  BY BatchConstants DEF BatchTyped, Batch, EventType
<1>m. Sequential \/ batchAt = "telling"
  BY DEF Sequential
<1>a. /\ Told("message", n)' = Told("message", n) \cup {Len(events) + 1}
      /\ \A u \in EventType, d \in Batch : u # "message" \/ d # n => Told(u, d)' = Told(u, d)
  BY <1>0, EmitTells
<1>b. /\ Told("message", n) = {} /\ Told("end", n) # {}
      /\ \A u, d : \A i \in Told(u, d) : i \in Nat /\ i < Len(events) + 1
  BY <1>0, ToldTyped DEF Followed, FollowedCall, BatchTyped, InOrder
<1>1. BatchTyped'
  <2>1. events' \in Seq(EventType \X Batch) /\ pending' \subseteq CallId
    BY <1>0, EmitTells
  <2>2. refused' \in 0..MaxRefusals
    BY BatchConstants DEF BatchTyped
  <2>. QED BY <1>0, <2>1, <2>2 DEF BatchTyped, Stages
<1>2. Placed'
  <2>1. /\ batchAt' \in {"running", "telling"} => ~Sequential'
        /\ batchAt' = "running" => \A c \in Batch : callStage'[c] \notin {"new", "started"}
        /\ batchAt' \in {"telling", "returned"} => \A c \in Batch : callStage'[c] = "ended"
    BY <1>0, <1>m, ModeFixed, BatchConstants DEF Placed, BatchTyped, Batch, AtWork, Stages
  <2>2. batchAt' = "preparing" =>
          \A c \in Batch :
            /\ c > next' => callStage'[c] = "new"
            /\ c < next' => callStage'[c] \in (IF Sequential' THEN {"ended"} ELSE {"ready", "ended"})
            /\ c = next' /\ ~Sequential' => callStage'[c] \in {"new", "started"}
    BY <1>0, <1>m, ModeFixed, BatchConstants DEF Placed, BatchTyped, Batch, AtWork, Stages
  <2>3. /\ \A c \in Batch : callStage'[c] \in AtWork =>
             IF Sequential' THEN batchAt' = "preparing" /\ c = next' ELSE batchAt' = "running"
        /\ \A c \in Batch : sink'[c] = "active" => callStage'[c] \in {"executing", "troubled"}
    BY <1>0, <1>m, ModeFixed, BatchConstants DEF Placed, BatchTyped, Batch, AtWork, Stages
  <2>. QED BY ONLY <2>1, <2>2, <2>3 DEF Placed
<1>3. Followed'
  <2>1. ASSUME NEW d \in Batch, d # n PROVE FollowedCall(d)'
    <3>1. FollowedCall(d) /\ callStage'[d] = callStage[d] /\ \A u \in EventType : Told(u, d)' = Told(u, d)
      BY <1>0, <1>a, <2>1 DEF Followed, BatchTyped
    <3>. QED BY <3>1 DEF FollowedCall, EventType
  <2>2. FollowedCall(n)'
    <3>1. FollowedCall(n) /\ callStage'[n] = "ended"
      BY <1>0 DEF Followed, BatchTyped
    <3>2. /\ Told("start", n)' = Told("start", n)
          /\ Told("end", n)' = Told("end", n)
          /\ Told("update", n)' = Told("update", n)
          /\ Told("message", n)' = Told("message", n) \cup {Len(events) + 1}
      BY ONLY <1>0, <1>a DEF EventType
    <3>. QED BY ONLY <1>0, <1>b, <3>1, <3>2 DEF FollowedCall, EventType, Stages
  <2>. QED BY ONLY <2>1, <2>2 DEF Followed
<1>4. InOrder'
  <2>1. \A d \in Batch : /\ Told("end", d)' = Told("end", d) /\ callStage'[d] = callStage[d]
                         /\ d # n => Told("message", d)' = Told("message", d)
    BY <1>0, <1>a DEF EventType
  <2>2. Told("message", n)' = {Len(events) + 1}
    BY <1>0, <1>a, <1>b DEF EventType
  <2>3. \A d \in Batch : Told("message", d) # {} => d < next
    BY <1>0, <1>m DEF InOrder, BatchTyped, Batch, Placed
  <2>4. ASSUME NEW d \in Batch, Told("message", d)' # {}
        PROVE  /\ callStage'[d] = "ended" /\ (d < next' \/ (d = n' /\ batchAt' = "failed"))
               /\ Sequential' \/ batchAt' \in {"telling", "returned", "failed"}
    <3>1. next \in Int /\ d \in Int
      BY <1>0 DEF Batch
    <3>2. d < next \/ d = n
      BY <2>1, <2>3, <2>4
    <3>3. callStage'[d] = "ended"
      BY <1>0, <2>1, <2>4, <3>2 DEF InOrder
    <3>4. Sequential' \/ batchAt' \in {"telling", "returned", "failed"}
      BY <1>0, <1>m, ModeFixed
    <3>5. d < next' \/ (d = n' /\ batchAt' = "failed")
      BY <1>0, <3>1, <3>2
    <3>. QED BY <3>3, <3>4, <3>5
  <2>5. ASSUME Sequential' \/ batchAt' \in {"telling", "returned"}, NEW d \in Batch, d < next'
        PROVE  Told("message", d)' # {}
    <3>1. next \in Int /\ d \in Int
      BY <1>0 DEF Batch
    <3>2. CASE d = n
      BY <2>2, <3>2
    <3>3. CASE d # n
      <4>1. d < next
        BY <1>0, <2>5, <3>1, <3>3
      <4>. QED BY <1>m, <2>1, <3>3, <4>1 DEF InOrder
    <3>. QED BY <3>2, <3>3
  <2>6. ASSUME NEW d \in Batch, NEW t \in Told("message", d)' PROVE \E e \in Told("end", d)' : e < t
    <3>1. CASE d = n
      BY <1>b, <2>1, <2>2, <2>6, <3>1
    <3>2. CASE d # n
      BY <2>1, <2>6, <3>2 DEF InOrder
    <3>. QED BY <3>1, <3>2
  <2>7. ASSUME NEW d \in Batch, NEW f \in Batch, d < f, NEW t \in Told("message", d)', NEW u \in Told("message", f)'
        PROVE  t < u
    <3>1. next \in Int /\ d \in Int /\ f \in Int
      BY <1>0 DEF Batch
    <3>2. d # n
      BY <2>1, <2>3, <2>7, <3>1
    <3>3. t \in Told("message", d) /\ t < Len(events) + 1
      BY <1>b, <2>1, <2>7, <3>2
    <3>4. CASE f = n
      BY <2>2, <2>7, <3>3, <3>4
    <3>5. CASE f # n
      BY <2>1, <2>7, <3>3, <3>5 DEF InOrder
    <3>. QED BY <3>4, <3>5
  <2>8. batchAt' # "returned"
    BY <1>0, <1>m DEF Tell
  <2>. QED BY <2>4, <2>5, <2>6, <2>7, <2>8 DEF InOrder
<1>5. PendingExact'
  BY <1>0, <1>b, PendingFollows
<1>. QED BY <1>1, <1>2, <1>3, <1>4, <1>5

LEMMA UpdateKeeps == ASSUME BatchInv, NEW c \in Batch, Update(c) PROVE BatchInv'
<1>. USE DEF Update, Fixed, BatchInv, Taken, Refused
<1>0. /\ callStage[c] \in {"executing", "troubled"} /\ Emit("update", c) /\ "update" \in EventType
      /\ callStage'[c] \in {"executing", "troubled"} /\ callStage' \in [Batch -> Stages]
      /\ \A d \in Batch \ {c} : callStage'[d] = callStage[d]
  BY DEF BatchTyped, Placed, EventType, Stages
<1>a. /\ Told("update", c)' = Told("update", c) \cup {Len(events) + 1}
      /\ \A u \in EventType, d \in Batch : u # "update" \/ d # c => Told(u, d)' = Told(u, d)
  BY <1>0, EmitTells
<1>b. /\ Told("end", c) = {} /\ Told("start", c) # {} /\ Told("message", c) = {}
      /\ \A u, d : \A i \in Told(u, d) : i \in Nat /\ i < Len(events) + 1
  BY <1>0, ToldTyped DEF Followed, FollowedCall, InOrder, BatchTyped
<1>1. BatchTyped'
  BY <1>0, EmitTells, BatchConstants DEF BatchTyped
<1>2. Placed'
  BY <1>0, ModeFixed DEF Placed, BatchTyped, Batch, AtWork
<1>3. Followed'
  <2>1. ASSUME NEW d \in Batch, d # c PROVE FollowedCall(d)'
    <3>1. FollowedCall(d) /\ callStage'[d] = callStage[d] /\ \A u \in EventType : Told(u, d)' = Told(u, d)
      BY <1>0, <1>a, <2>1 DEF Followed, BatchTyped
    <3>. QED BY <3>1 DEF FollowedCall, EventType
  <2>2. FollowedCall(c)'
    <3>1. FollowedCall(c) /\ callStage'[c] \in {"executing", "troubled"}
      BY <1>0 DEF Followed, BatchTyped
    <3>2. /\ Told("start", c)' = Told("start", c)
          /\ Told("end", c)' = Told("end", c)
          /\ Told("update", c)' = Told("update", c) \cup {Len(events) + 1}
          /\ Told("message", c)' = Told("message", c)
      BY ONLY <1>0, <1>a DEF EventType
    <3>. QED BY ONLY <1>0, <1>b, <3>1, <3>2 DEF FollowedCall, EventType, Stages
  <2>. QED BY ONLY <2>1, <2>2 DEF Followed
<1>4. InOrder'
  BY <1>0, <1>a, <1>b, ModeFixed DEF InOrder, BatchTyped, EventType
<1>5. PendingExact'
  BY <1>0, PendingFollows
<1>. QED BY <1>1, <1>2, <1>3, <1>4, <1>5

LEMMA EndCallKeeps == ASSUME BatchInv, NEW c \in Batch, EndCall(c) PROVE BatchInv'
<1>. USE DEF EndCall, Fixed, BatchInv, Stage, Taken, Refused
<1>0. /\ callStage[c] = "closing" /\ Emit("end", c) /\ "end" \in EventType
      /\ callStage'[c] \in {"ended", "failed"} /\ callStage' \in [Batch -> Stages]
      /\ \A d \in Batch \ {c} : callStage'[d] = callStage[d]
  BY DEF BatchTyped, EventType, Stages
<1>a. /\ Told("end", c)' = Told("end", c) \cup {Len(events) + 1}
      /\ \A u \in EventType, d \in Batch : u # "end" \/ d # c => Told(u, d)' = Told(u, d)
  BY <1>0, EmitTells
<1>b. /\ Told("end", c) = {} /\ Told("start", c) # {} /\ Told("message", c) = {}
      /\ \A u, d : \A i \in Told(u, d) : i \in Nat /\ i < Len(events) + 1
  BY <1>0, ToldTyped DEF Followed, FollowedCall, InOrder, BatchTyped
<1>1. BatchTyped'
  BY <1>0, EmitTells, BatchConstants DEF BatchTyped
<1>2. Placed'
  BY <1>0, ModeFixed DEF Placed, BatchTyped, Batch, AtWork
<1>3. Followed'
  <2>1. ASSUME NEW d \in Batch, d # c PROVE FollowedCall(d)'
    <3>1. FollowedCall(d) /\ callStage'[d] = callStage[d] /\ \A u \in EventType : Told(u, d)' = Told(u, d)
      BY <1>0, <1>a, <2>1 DEF Followed, BatchTyped
    <3>. QED BY <3>1 DEF FollowedCall, EventType
  <2>2. FollowedCall(c)'
    <3>1. FollowedCall(c) /\ callStage'[c] \in {"ended", "failed"}
      BY <1>0 DEF Followed, BatchTyped
    <3>2. /\ Told("start", c)' = Told("start", c)
          /\ Told("end", c)' = Told("end", c) \cup {Len(events) + 1}
          /\ Told("update", c)' = Told("update", c)
          /\ Told("message", c)' = Told("message", c)
      BY ONLY <1>0, <1>a DEF EventType
    <3>3. /\ Told("end", c)' = {Len(events) + 1} /\ Told("start", c)' # {}
          /\ \A u \in Told("update", c) : u < Len(events) + 1
      BY ONLY <1>b, <3>2
    <3>4. \A u \in Told("update", c)' :
            (\A t \in Told("start", c)' : t < u) /\ \A e \in Told("end", c)' : u < e
      BY ONLY <3>1, <3>2, <3>3 DEF FollowedCall
    <3>5. \A t \in {"start", "end", "message"} : \A i, j \in Told(t, c)' : i = j
      <4>1. \A i, j \in Told("start", c)' : i = j
        BY ONLY <3>1, <3>2 DEF FollowedCall
      <4>2. \A i, j \in Told("end", c)' : i = j
        BY ONLY <3>3
      <4>3. \A i, j \in Told("message", c)' : i = j
        BY ONLY <3>1, <3>2 DEF FollowedCall
      <4>. QED BY ONLY <4>1, <4>2, <4>3
    <3>6. Told("end", c)' # {}
      BY ONLY <3>3
    <3>. QED BY ONLY <3>1, <3>3, <3>4, <3>5, <3>6 DEF FollowedCall
  <2>. QED BY ONLY <2>1, <2>2 DEF Followed
<1>4. InOrder'
  BY <1>0, <1>a, <1>b, ModeFixed DEF InOrder, BatchTyped, EventType
<1>5. PendingExact'
  BY <1>0, <1>b, PendingFollows
<1>. QED BY <1>1, <1>2, <1>3, <1>4, <1>5

LEMMA BatchStepKeeps == ASSUME BatchInv, [BatchNext]_batchVars PROVE BatchInv'
<1>1. CASE UNCHANGED batchVars
  <2>1. \A u, d : Told(u, d)' = Told(u, d)
    BY <1>1 DEF batchVars, Told
  <2>2. Sequential' <=> Sequential
    BY <1>1 DEF batchVars, Sequential, BatchMode
  <2>3. BatchTyped' /\ Placed'
    BY <1>1, <2>2 DEF batchVars, BatchInv, BatchTyped, Placed
  <2>4. Followed' /\ InOrder' /\ PendingExact'
    BY <1>1, <2>1, <2>2 DEF batchVars, BatchInv, Followed, FollowedCall, InOrder, PendingExact
  <2>. QED BY <2>3, <2>4 DEF BatchInv
<1>2. CASE Start \/ RefuseCall \/ Tell
  <2>1. next \in Batch
    BY <1>2, BatchConstants DEF Start, RefuseCall, Tell, BatchInv, BatchTyped, Batch
  <2>. QED BY <1>2, <2>1, StartKeeps, RefuseCallKeeps, TellKeeps
<1>3. CASE BatchNext /\ ~(Start \/ RefuseCall \/ Tell)
  BY <1>3, StartInterruptedKeeps, AcceptKeeps, LaunchKeeps, JoinKeeps, ReturnBatchKeeps,
     AbandonKeeps, ExecuteKeeps, UpdateKeeps, ToolReturnsKeeps, UpdateFailsKeeps, EndCallKeeps,
     CancelRunKeeps DEF BatchNext
<1>. QED BY <1>1, <1>2, <1>3

LEMMA OneAtMost ==
  ASSUME NEW S, \A i, j \in S : i = j
  PROVE  Cardinality(S) = (IF S = {} THEN 0 ELSE 1)
<1>1. CASE S = {}
  BY <1>1, FS_EmptySet
<1>2. CASE S # {}
  <2>1. PICK i : i \in S
    BY <1>2
  <2>2. S = {i}
    BY <2>1
  <2>. QED BY <1>2, <2>2, FS_Singleton
<1>. QED BY <1>1, <1>2

LEMMA BatchInvShows == ASSUME BatchInv PROVE CallsAccounted
<1>. USE DEF BatchInv
<1>1. BatchTypeOK
  BY DEF BatchTyped, BatchTypeOK, Stages
<1>2. EventsFollow
  <2>1. ASSUME NEW c \in Batch
        PROVE  /\ Cardinality(Told("start", c)) = (IF callStage[c] = "new" THEN 0 ELSE 1)
               /\ Cardinality(Told("end", c)) <= 1 /\ Cardinality(Told("message", c)) <= 1
    <3>1. /\ \A t \in {"start", "end", "message"} : \A i, j \in Told(t, c) : i = j
          /\ callStage[c] = "new" <=> Told("start", c) = {}
      BY DEF Followed, FollowedCall, EventType
    <3>2. \A t \in {"start", "end", "message"} : Cardinality(Told(t, c)) = (IF Told(t, c) = {} THEN 0 ELSE 1)
      BY <3>1, OneAtMost
    <3>. QED BY <3>1, <3>2
  <2>. QED BY <2>1 DEF EventsFollow, Followed, FollowedCall, InOrder
<1>3. NothingLeftBehind
  <2>1. batchAt = "returned" => \A c \in Batch : Told("end", c) # {} /\ Told("message", c) # {}
    <3>. SUFFICES ASSUME batchAt = "returned", NEW c \in Batch PROVE  Told("end", c) # {} /\ Told("message", c) # {}
      OBVIOUS
    <3>1. c < next
      BY BatchConstants DEF InOrder, Batch, BatchTyped
    <3>. QED BY <3>1 DEF InOrder, Placed, Followed, FollowedCall
  <2>2. BatchOver => Executing = {} /\ \A c \in Batch : sink[c] # "active"
    BY DEF BatchOver, Executing, Placed, AtWork
  <2>. QED BY <2>1, <2>2 DEF NothingLeftBehind
<1>4. Alone
  BY DEF Alone, Executing, Placed, AtWork, Sequential, BatchMode
<1>. QED BY <1>1, <1>2, <1>3, <1>4 DEF CallsAccounted

\* Calls run in turn or together, tools use their sinks late, listeners refuse events and
\* the run is cancelled: each call is started once and ended at most once with its updates
\* in between, the messages come in the order of the calls, a batch that is over has no
\* tool at work, and what is shown as pending is (Runner.ExecuteTools, runtime.processEvent).
THEOREM BatchIsAccounted == BatchSpec => []CallsAccounted
<1>. QED BY BatchBegins, BatchStepKeeps, BatchInvShows, PTL DEF BatchSpec

-----------------------------------------------------------------------------
(* The files of a workspace *)

\* What the file, the tools and the history can hold.
Text == Seq(Snippet) \cup {Missing}

FilesTyped ==
  /\ content \in Text /\ owed \in Text /\ working \in [Editor -> Text]
  /\ inQueue \in Editor \cup {NoEditor} /\ changes \in Nat /\ torn \in BOOLEAN
  /\ place \in [Editor -> {"idle", "called", "reading", "changing", "writing", "emptied"}]
  /\ change \in [Editor -> Change \cup {NoChange}]

\* Who is past the call is in the queue of the path, and does what it was asked for.
InTurn ==
  \A e \in Editor :
    /\ place[e] \in {"reading", "changing", "writing", "emptied"} => inQueue = e
    /\ place[e] # "idle" => change[e] \in Change
    /\ place[e] \in {"reading", "changing"} => change[e].kind = "edit"
    /\ place[e] = "writing" => change[e].kind \in {"write", "append"}
    /\ place[e] = "emptied" => change[e].kind \in {"edit", "write"}

\* What was read is what the file has, until it is emptied for what was made of it.
ReadInTurn ==
  \A e \in Editor :
    /\ place[e] = "changing" => working[e] = content
    /\ place[e] = "emptied" /\ change[e].kind = "edit" =>
         ~Refuses(working[e], change[e]) /\ (~torn => working[e] = owed)

FilesInv == FilesTyped /\ InTurn /\ ReadInTurn /\ ChangesInTurn

LEMMA AppliedIsText ==
  ASSUME NEW text \in Text, NEW c \in Change, c.kind = "edit" => text # Missing
  PROVE  Applied(text, c) \in Seq(Snippet)
<1>1. CASE c.kind = "edit"
  <2>1. text \in Seq(Snippet) /\ c.new \in Snippet
    BY <1>1 DEF Text, Change
  <2>2. Applied(text, c) = [i \in 1..Len(text) |-> IF i \in Found(text, c) THEN c.new ELSE text[i]]
    BY <1>1, <2>1 DEF Applied
  <2>3. \A i \in 1..Len(text) : (IF i \in Found(text, c) THEN c.new ELSE text[i]) \in Snippet
    BY <2>1
  <2>. QED BY <2>1, <2>2, <2>3
<1>2. CASE c.kind = "write"
  <2>1. Applied(text, c) = <<c.new>> /\ c.new \in Snippet
    BY <1>2 DEF Applied, Change
  <2>. QED BY <2>1
<1>3. CASE c.kind = "append"
  <2>1. Applied(text, c) = (IF text = Missing THEN <<>> ELSE text) \o <<c.new>> /\ c.new \in Snippet
    BY <1>3 DEF Applied, Change, Absent
  <2>. QED BY <2>1 DEF Text
<1>. QED BY <1>1, <1>2, <1>3 DEF Change

LEMMA FilesBegin == FilesInit => FilesInv
<1>1. <<>> \in Text /\ Missing \in Text
  BY DEF Text
<1>. SUFFICES ASSUME FilesInit PROVE FilesInv
  OBVIOUS
<1>2. FilesTyped
  BY <1>1 DEF FilesInit, FilesTyped
<1>3. InTurn /\ ReadInTurn /\ ChangesInTurn
  BY DEF FilesInit, InTurn, ReadInTurn, ChangesInTurn
<1>. QED BY <1>2, <1>3 DEF FilesInv

\* An editor that is done, whatever came of it, leaves the queue to the others.
LEMMA OverLeaves ==
  ASSUME FilesInv, NEW e \in Editor, Over(e), Leave, inQueue = e
  PROVE  /\ \A d \in Editor : place'[d] \in {"idle", "called"}
         /\ \A d \in Editor \ {e} : place'[d] = place[d] /\ change'[d] = change[d] /\ working'[d] = working[d]
         /\ place' \in [Editor -> {"idle", "called", "reading", "changing", "writing", "emptied"}]
         /\ change' \in [Editor -> Change \cup {NoChange}] /\ working' \in [Editor -> Text]
         /\ place'[e] = "idle" /\ inQueue' = NoEditor
<1>1. <<>> \in Text
  BY DEF Text
<1>. QED BY <1>1 DEF FilesInv, FilesTyped, InTurn, Over, To, Leave

LEMMA CallToolKeeps == ASSUME FilesInv, NEW e \in Editor, CallTool(e) PROVE FilesInv'
  BY DEF CallTool, To, Same, FilesInv, FilesTyped, InTurn, ReadInTurn, ChangesInTurn, Refuses, Absent, Found

LEMMA BeginKeeps == ASSUME FilesInv, NEW e \in Editor, Begin(e) PROVE FilesInv'
<1>1. \A d \in Editor : place[d] \in {"idle", "called"}
  BY FilesConstants DEF Begin, Enter, FilesInv, FilesTyped, InTurn
<1>2. change[e] \in Change /\ change[e].kind \in {"edit", "write", "append"}
  BY DEF Begin, FilesInv, InTurn, Change
<1>. QED BY <1>1, <1>2 DEF Begin, Enter, To, Same, FilesInv, FilesTyped, InTurn, ReadInTurn, ChangesInTurn

LEMMA GiveUpKeeps == ASSUME FilesInv, NEW e \in Editor, GiveUp(e) PROVE FilesInv'
<1>1. CASE place[e] = "called" /\ UNCHANGED inQueue
  <2>1. <<>> \in Text
    BY DEF Text
  <2>. QED BY <1>1, <2>1 DEF GiveUp, Over, To, Same, FilesInv, FilesTyped, InTurn, ReadInTurn, ChangesInTurn,
                             Refuses, Absent, Found
<1>2. CASE place[e] \in {"reading", "changing", "writing"} /\ Leave
  <2>1. inQueue = e /\ Over(e)
    BY <1>2 DEF GiveUp, FilesInv, InTurn
  <2>2. \A d \in Editor : place[d] # "emptied"
    BY <1>2, <2>1 DEF FilesInv, InTurn
  <2>. QED BY <1>2, <2>1, <2>2, OverLeaves
           DEF GiveUp, Same, FilesInv, FilesTyped, InTurn, ReadInTurn, ChangesInTurn
<1>. QED BY <1>1, <1>2 DEF GiveUp

LEMMA ReadFileKeeps == ASSUME FilesInv, NEW e \in Editor, ReadFile(e) PROVE FilesInv'
  BY DEF ReadFile, To, Same, FilesInv, FilesTyped, InTurn, ReadInTurn, ChangesInTurn, Refuses, Absent, Found

LEMMA RefuseEditKeeps == ASSUME FilesInv, NEW e \in Editor, RefuseEdit(e) PROVE FilesInv'
<1>1. inQueue = e /\ \A d \in Editor : place[d] # "emptied"
  BY DEF RefuseEdit, FilesInv, InTurn
<1>. QED BY <1>1, OverLeaves DEF RefuseEdit, Same, FilesInv, FilesTyped, InTurn, ReadInTurn, ChangesInTurn

LEMMA EmptyKeeps == ASSUME FilesInv, NEW e \in Editor, Empty(e) PROVE FilesInv'
<1>1. /\ inQueue = e /\ change[e] \in Change /\ change[e].kind \in {"edit", "write"}
      /\ \A d \in Editor : place[d] # "emptied"
      /\ \A d \in Editor \ {e} : place[d] \in {"idle", "called"}
  BY DEF Empty, FilesInv, FilesTyped, InTurn
<1>2. /\ place' = [place EXCEPT ![e] = "emptied"]
      /\ UNCHANGED <<inQueue, change, working, owed, changes, torn>>
  BY DEF Empty, To, Same
<1>3. <<>> \in Text /\ content' = <<>>
  BY DEF Empty, Text
<1>4. change[e].kind = "edit" => ~Refuses(working[e], change[e]) /\ (~torn => working[e] = owed)
  BY <1>1 DEF Empty, FilesInv, ReadInTurn, InTurn, ChangesInTurn
<1>5. FilesTyped'
  BY <1>2, <1>3 DEF FilesInv, FilesTyped
<1>6. InTurn'
  BY <1>1, <1>2 DEF FilesInv, FilesTyped, InTurn
<1>7. ReadInTurn'
  BY <1>1, <1>2, <1>4 DEF FilesInv, FilesTyped, ReadInTurn, Refuses, Absent, Found
<1>8. ChangesInTurn'
  BY <1>1, <1>2 DEF FilesInv, FilesTyped, ChangesInTurn
<1>. QED BY <1>5, <1>6, <1>7, <1>8 DEF FilesInv

\* What is acknowledged is in the file when it was made of what the file owed.
LEMMA AcknowledgeKeeps ==
  ASSUME FilesInv, NEW e \in Editor, Acknowledge(e), inQueue = e, change[e] \in Change,
         content' \in Seq(Snippet),
         torn' \/ (content' = owed')
  PROVE  FilesInv'
<1>1. owed' \in Text
  <2>1. CASE change[e].kind = "edit" /\ Refuses(owed, change[e])
    BY <2>1 DEF Acknowledge, FilesInv, FilesTyped
  <2>2. CASE ~(change[e].kind = "edit" /\ Refuses(owed, change[e]))
    <3>1. Applied(owed, change[e]) \in Seq(Snippet)
      BY <2>2, AppliedIsText DEF FilesInv, FilesTyped, Refuses, Absent
    <3>. QED BY <2>2, <3>1 DEF Acknowledge, Text
  <2>. QED BY <2>1, <2>2
<1>2. changes' \in Nat /\ torn' \in BOOLEAN /\ content' \in Text
  BY DEF Acknowledge, FilesInv, FilesTyped, Text
<1>3. Over(e) /\ Leave
  BY DEF Acknowledge
<1>4. FilesTyped'
  BY <1>1, <1>2, <1>3, OverLeaves DEF FilesInv, FilesTyped
<1>5. InTurn' /\ ReadInTurn'
  BY <1>3, OverLeaves DEF FilesInv, InTurn, ReadInTurn
<1>. QED BY <1>4, <1>5 DEF FilesInv, ChangesInTurn

LEMMA FillKeeps == ASSUME FilesInv, NEW e \in Editor, Fill(e) PROVE FilesInv'
<1>1. inQueue = e /\ change[e] \in Change /\ change[e].kind \in {"edit", "write"} /\ working[e] \in Text
  BY DEF Fill, FilesInv, FilesTyped, InTurn
<1>2. change[e].kind = "edit" => ~Refuses(working[e], change[e]) /\ (~torn => working[e] = owed)
  BY DEF Fill, FilesInv, ReadInTurn
<1>3. content' = Applied(working[e], change[e]) /\ content' \in Seq(Snippet)
  BY <1>1, <1>2, AppliedIsText DEF Fill, Refuses, Absent
<1>4. torn' \/ content' = owed'
  <2>1. CASE change[e].kind = "write"
    BY <1>3, <2>1 DEF Fill, Acknowledge, Applied
  <2>2. CASE change[e].kind = "edit"
    BY <1>2, <1>3, <2>2 DEF Fill, Acknowledge
  <2>. QED BY <1>1, <2>1, <2>2
<1>. QED BY <1>1, <1>3, <1>4, AcknowledgeKeeps DEF Fill

LEMMA AppendTextKeeps == ASSUME FilesInv, NEW e \in Editor, AppendText(e) PROVE FilesInv'
<1>1. /\ inQueue = e /\ change[e] \in Change /\ change[e].kind = "append"
      /\ \A d \in Editor : place[d] # "emptied"
  BY DEF AppendText, FilesInv, InTurn
<1>2. content' = Applied(content, change[e]) /\ content' \in Seq(Snippet)
  BY <1>1, AppliedIsText DEF AppendText, FilesInv, FilesTyped
<1>3. torn' \/ content' = owed'
  BY <1>1, <1>2 DEF AppendText, Acknowledge, FilesInv, ChangesInTurn
<1>. QED BY <1>1, <1>2, <1>3, AcknowledgeKeeps DEF AppendText

LEMMA WriteFailsKeeps == ASSUME FilesInv, NEW e \in Editor, WriteFails(e) PROVE FilesInv'
<1>1. inQueue = e /\ Over(e) /\ Leave /\ torn' /\ UNCHANGED <<owed, changes>> /\ change[e] \in Change
  BY DEF WriteFails, FilesInv, InTurn
<1>2. content' \in Text
  <2>1. CASE place[e] = "emptied"
    <3>1. Applied(working[e], change[e]) \in Seq(Snippet)
      BY <1>1, <2>1, AppliedIsText DEF FilesInv, FilesTyped, ReadInTurn, Refuses, Absent
    <3>2. PICK n \in 0..Len(Applied(working[e], change[e])) :
            content' = SubSeq(Applied(working[e], change[e]), 1, n)
      BY <2>1 DEF WriteFails
    <3>. QED BY <3>1, <3>2 DEF Text
  <2>2. CASE place[e] = "writing"
    <3>1. content' = (IF Absent(content) THEN <<>> ELSE content)
      BY <2>2 DEF WriteFails
    <3>2. <<>> \in Text /\ content \in Text
      BY DEF Text, FilesInv, FilesTyped
    <3>. QED BY <3>1, <3>2
  <2>. QED BY <2>1, <2>2 DEF WriteFails
<1>. QED BY <1>1, <1>2, OverLeaves DEF FilesInv, FilesTyped, InTurn, ReadInTurn, ChangesInTurn

LEMMA StopKeeps == ASSUME FilesInv, Stop PROVE FilesInv'
<1>1. <<>> \in Text
  BY DEF Text
<1>. QED BY <1>1 DEF Stop, Leave, FilesInv, FilesTyped, InTurn, ReadInTurn, ChangesInTurn

\* Several runs edit, write and append to one file: with the mutex of the path around
\* each read and write, the file has what the acknowledged changes made of it one after
\* the other, unless a write stopped in its middle (withFileMutationQueue, edit.go,
\* write.go).
THEOREM FilesAreKept == FilesSpec => []FilesKept
<1>1. FilesInv /\ [FilesNext]_fileVars => FilesInv'
  <2>1. FilesInv /\ UNCHANGED fileVars => FilesInv'
    BY DEF FilesInv, FilesTyped, InTurn, ReadInTurn, ChangesInTurn, Refuses, Absent, Found, fileVars
  <2>. QED BY <2>1, CallToolKeeps, BeginKeeps, GiveUpKeeps, ReadFileKeeps, RefuseEditKeeps, EmptyKeeps,
              FillKeeps, AppendTextKeeps, WriteFailsKeeps, StopKeeps DEF FilesNext
<1>2. FilesInv => FilesKept
  BY DEF FilesInv, FilesTyped, Text, FilesKept, FilesTypeOK, Absent
<1>. QED BY FilesBegin, <1>1, <1>2, PTL DEF FilesSpec

-----------------------------------------------------------------------------
(* The page *)

\* Messages have numbers, which grow.
Ascending(messages) ==
  messages \in Seq(Nat) /\ \A i, j \in DOMAIN messages : i < j => messages[i] < messages[j]
Numbered(messages) == Ascending(messages) /\ \A i \in DOMAIN messages : messages[i] <= numbered
Within(messages, others) == \A i \in DOMAIN messages : \E j \in DOMAIN others : others[j] = messages[i]

Answer ==
  [n : Nat, kind : {"send", "switch", "branch", "delete", "clear"}, session : Session \cup {NoId},
   project : Project, current : BOOLEAN, aborting : BOOLEAN, stale : BOOLEAN]

RunRecord ==
  [session : Session \cup {NoId}, state : {"none", "live", "over"}, log : Seq(Nat), snapshot : Seq(Nat)]

TabTyped ==
  /\ selectedProjectID \in Project /\ sessionId \in Session \cup {NoId} /\ localStorage \in Session \cup {NoId}
  /\ chatLoading \in BOOLEAN /\ chatRunning \in BOOLEAN /\ chatRunningRef \in BOOLEAN
  /\ sessionLoaded \in BOOLEAN /\ strayed \in BOOLEAN
  /\ activeRunId \in Run \cup {NoId} /\ chatEventSource \in Run \cup {NoId}
  /\ DOMAIN opened \subseteq Run
  /\ sessionLoad \in [of : Session \cup {NoId}, stale : BOOLEAN]
  /\ agentSession \in [id : Session \cup {NoId}, messages : Seq(Nat)]
  /\ projectOf \in [Session -> Project \cup {NoId}]

CountsTyped == clicks \in 0 .. MaxClicks /\ numbered \in 1 .. MaxMessages

PageTyped == TabTyped /\ CountsTyped /\ awaiting \subseteq Answer

\* What the server has: numbered messages, and a session for each run.
ServerSideHolds ==
  /\ messagesOf \in [Session -> Seq(Nat)] /\ \A s \in Session : Numbered(messagesOf[s])
  /\ runOf \in [Run -> RunRecord]
  /\ \A r \in Run : /\ Numbered(runOf[r].log) /\ Ascending(runOf[r].snapshot)
                    /\ runOf[r].state # "none" => runOf[r].session # NoId
  /\ \A r \in DOMAIN opened : opened[r] \in Nat /\ runOf[r].state # "none"

\* An answer that is not out of place is asked for by the page as it is: nothing
\* runs, and one that creates a run is the only one.
QuestionsFit ==
  \A c \in awaiting : ~c.stale =>
    /\ ~chatRunning /\ c.project = selectedProjectID
    /\ c.kind \in {"switch", "branch"} =>
         c.session # NoId /\ projectOf[c.session] \in {selectedProjectID, NoId}
    /\ c.kind = "send" =>
         /\ chatLoading /\ sessionId \in {NoId, c.session} /\ agentSession.id \in {NoId, c.session}
         /\ \A d \in awaiting : ~d.stale => d = c

LoadFits ==
  /\ sessionLoad.of # NoId /\ ~sessionLoad.stale => projectOf[sessionLoad.of] \in {selectedProjectID, NoId}
  /\ ~sessionLoaded => agentSession = EMPTY_AGENT_SESSION

\* With n events of a log handled, those that are still to come are of later
\* messages than those shown, but for the last one shown, which may be about to end.
Ready(shown, log, n) ==
  LET done == (n + 1) \div 2
  IN  /\ \A i \in DOMAIN shown, j \in DOMAIN log : done < j => shown[i] < log[j]
      /\ n % 2 = 1 => shown # <<>> /\ done \in DOMAIN log /\ shown[Len(shown)] = log[done]

Progress(r) == Ready(agentSession.messages, runOf[r].log, opened[r])

\* The run that is followed is of the session that is shown.
RunFits ==
  chatRunning =>
    /\ sessionLoaded /\ runOf[activeRunId].session = sessionId
    /\ Within(runOf[activeRunId].log, messagesOf[sessionId])
    /\ runOf[activeRunId].state = "over" => Within(runOf[activeRunId].snapshot, messagesOf[sessionId])
    /\ Progress(activeRunId)

ShownFits ==
  /\ Ascending(agentSession.messages)
  /\ agentSession.id = NoId => agentSession.messages = <<>>
  /\ agentSession.id # NoId =>
       /\ projectOf[agentSession.id] \in {selectedProjectID, NoId}
       /\ Within(agentSession.messages, messagesOf[agentSession.id])

Undisturbed == OneRunFollowed /\ QuestionsFit /\ LoadFits /\ RunFits /\ ShownFits

PageInv ==
  /\ PageTyped /\ ServerSideHolds /\ OneSession /\ StopReaches
  /\ ~strayed => Undisturbed

-----------------------------------------------------------------------------
LEMMA ApartFromNoId ==
  /\ NoId \notin Session /\ NoId \notin Run /\ NoId \notin Project
  /\ NoLoad = [of |-> NoId, stale |-> FALSE]
BY PageConstants DEF NoLoad

LEMMA NothingShown ==
  /\ EMPTY_AGENT_SESSION \in [id : Session \cup {NoId}, messages : Seq(Nat)]
  /\ EMPTY_AGENT_SESSION.id = NoId /\ EMPTY_AGENT_SESSION.messages = <<>>
<1>1. <<>> \in Seq(Nat)
  OBVIOUS
<1>. QED BY <1>1 DEF EMPTY_AGENT_SESSION

LEMMA WithinItself ==
  /\ \A m : Within(m, m)
  /\ \A m, o, p : Within(m, o) /\ Within(o, p) => Within(m, p)
  /\ \A o : Within(<<>>, o)
BY DEF Within

LEMMA EmptyAscends == Ascending(<<>>) /\ Numbered(<<>>)
BY DEF Ascending, Numbered

LEMMA AppendedOne ==
  ASSUME NEW messages \in Seq(Nat), NEW m \in Nat
  PROVE  /\ Append(messages, m) \in Seq(Nat) /\ Within(messages, Append(messages, m))
         /\ DOMAIN Append(messages, m) = DOMAIN messages \cup {Len(messages) + 1}
         /\ \A i \in DOMAIN messages : Append(messages, m)[i] = messages[i]
         /\ Append(messages, m)[Len(messages) + 1] = m
         /\ Append(messages, m) # <<>> /\ Len(Append(messages, m)) = Len(messages) + 1
         /\ (Ascending(messages) /\ \A i \in DOMAIN messages : messages[i] < m) => Ascending(Append(messages, m))
<1>1. /\ Append(messages, m) \in Seq(Nat)
      /\ DOMAIN Append(messages, m) = DOMAIN messages \cup {Len(messages) + 1}
      /\ \A i \in DOMAIN messages : Append(messages, m)[i] = messages[i]
      /\ Append(messages, m)[Len(messages) + 1] = m
      /\ Append(messages, m) # <<>> /\ Len(Append(messages, m)) = Len(messages) + 1
  OBVIOUS
<1>2. Within(messages, Append(messages, m))
  BY <1>1 DEF Within
<1>3. ASSUME Ascending(messages), \A i \in DOMAIN messages : messages[i] < m PROVE Ascending(Append(messages, m))
  BY <1>1, <1>3 DEF Ascending
<1>. QED BY <1>1, <1>2, <1>3

LEMMA WithinLonger ==
  ASSUME NEW messages \in Seq(Nat), NEW others \in Seq(Nat), NEW m \in Nat, Within(messages, others)
  PROVE  Within(Append(messages, m), Append(others, m))
<1>. DEFINE longer == Append(messages, m)  more == Append(others, m)
<1>1. /\ DOMAIN longer = DOMAIN messages \cup {Len(messages) + 1} /\ longer[Len(messages) + 1] = m
      /\ \A i \in DOMAIN messages : longer[i] = messages[i]
      /\ DOMAIN more = DOMAIN others \cup {Len(others) + 1} /\ more[Len(others) + 1] = m
      /\ \A i \in DOMAIN others : more[i] = others[i]
  BY AppendedOne
<1>. HIDE DEF longer, more
<1>2. Within(longer, more)
  BY <1>1 DEF Within
<1>. QED BY <1>2 DEF longer, more

\* A message that is added to the log comes after those shown.
LEMMA ReadyForMore ==
  ASSUME NEW shown \in Seq(Nat), NEW log \in Seq(Nat), NEW n \in Nat, NEW m \in Nat,
         Ready(shown, log, n), \A i \in DOMAIN shown : shown[i] < m
  PROVE  Ready(shown, Append(log, m), n)
<1>. DEFINE longer == Append(log, m)
<1>1. /\ DOMAIN longer = DOMAIN log \cup {Len(log) + 1} /\ longer[Len(log) + 1] = m
      /\ \A i \in DOMAIN log : longer[i] = log[i]
  BY AppendedOne
<1>. HIDE DEF longer
<1>2. Ready(shown, longer, n)
  BY <1>1 DEF Ready
<1>. QED BY <1>2 DEF longer

\* upsertMessage: a message starts, or the last one ends.
LEMMA EventShown ==
  ASSUME NEW shown, Ascending(shown), NEW log, Ascending(log), NEW n \in Nat,
         n \div 2 + 1 \in DOMAIN log, Ready(shown, log, n)
  PROVE  LET m == log[n \div 2 + 1]  then == Upsert(shown, m)
         IN  /\ Ascending(then) /\ Ready(then, log, n + 1)
             /\ \A o : Within(shown, o) /\ Within(log, o) => Within(then, o)
<1>. DEFINE half == n \div 2  m == log[half + 1]  longer == Append(shown, m)
<1>1. /\ shown \in Seq(Nat) /\ log \in Seq(Nat) /\ half \in Nat /\ m \in Nat
      /\ half + 1 \in DOMAIN log /\ half + 1 \in Nat
  BY DEF Ascending
<1>2. CASE n % 2 = 0
  <2>1. (n + 1) \div 2 = half /\ (n + 1 + 1) \div 2 = half + 1 /\ (n + 1) % 2 = 1 /\ half < half + 1
    BY <1>2
  <2>2. \A i \in DOMAIN shown : shown[i] < m
    BY <1>1, <2>1 DEF Ready
  <2>3. shown # <<>> => Last(shown) = shown[Len(shown)] /\ Len(shown) \in DOMAIN shown
    BY <1>1 DEF Last
  <2>4. Upsert(shown, m) = longer
    BY <1>1, <2>2, <2>3 DEF Upsert
  <2>5. /\ DOMAIN longer = DOMAIN shown \cup {Len(shown) + 1} /\ longer[Len(shown) + 1] = m
        /\ \A i \in DOMAIN shown : longer[i] = shown[i]
        /\ Ascending(longer) /\ longer # <<>> /\ Len(longer) = Len(shown) + 1
    BY <1>1, <2>2, AppendedOne
  <2>6. \A j \in DOMAIN log : half + 1 < j => m < log[j]
    BY <1>1 DEF Ascending
  <2>7. \A i \in DOMAIN shown, j \in DOMAIN log : half + 1 < j => shown[i] < log[j]
    <3>1. \A j \in DOMAIN log : j \in Nat
      BY <1>1
    <3>. QED BY <1>1, <2>1, <3>1 DEF Ready
  <2>. HIDE DEF longer, half
  <2>8. Ready(longer, log, n + 1)
    BY <1>1, <2>1, <2>5, <2>6, <2>7 DEF Ready
  <2>9. \A o : Within(shown, o) /\ Within(log, o) => Within(longer, o)
    BY <1>1, <2>5 DEF Within
  <2>. QED BY <2>4, <2>5, <2>8, <2>9 DEF half
<1>3. CASE n % 2 = 1
  <2>1. (n + 1) \div 2 = half + 1 /\ (n + 1 + 1) \div 2 = half + 1 /\ (n + 1) % 2 = 0
    BY <1>3
  <2>2. shown # <<>> /\ shown[Len(shown)] = m
    BY <1>3, <2>1 DEF Ready
  <2>3. Upsert(shown, m) = shown
    BY <2>2 DEF Upsert, Last
  <2>. HIDE DEF half
  <2>4. Ready(shown, log, n + 1)
    BY <2>1 DEF Ready
  <2>. QED BY <2>3, <2>4 DEF half
<1>. QED BY <1>2, <1>3

\* SequencesExt: all but the last.
LEMMA FrontOf ==
  ASSUME NEW messages, Numbered(messages), Len(messages) > 1
  PROVE  Numbered(Front(messages))
<1>1. messages \in Seq(Nat) /\ Len(messages) \in Nat
  BY DEF Numbered, Ascending
<1>2. Front(messages) = SubSeq(messages, 1, Len(messages) - 1)
  BY DEF Front
<1>3. /\ Front(messages) \in Seq(Nat)
      /\ \A i \in DOMAIN Front(messages) :
           i \in DOMAIN messages /\ Front(messages)[i] = messages[i]
  BY <1>1, <1>2
<1>. QED BY <1>3 DEF Numbered, Ascending

LEMMA TurnedAway ==
  ASSUME NEW c \in Answer
  PROVE  /\ Turned(c) \in Answer /\ Turned(c).stale
         /\ [c EXCEPT !.aborting = FALSE] \in Answer
BY DEF Answer, Turned

LEMMA AskedNow ==
  ASSUME PageTyped, NEW kind \in {"send", "switch", "branch", "delete", "clear"}, NEW s \in Session \cup {NoId}
  PROVE  LET c == Asked(kind, s)
         IN  c \in Answer /\ c.kind = kind /\ c.session = s /\ c.project = selectedProjectID /\ ~c.stale
<1>1. clicks \in Nat /\ selectedProjectID \in Project
  BY PageConstants DEF PageTyped, TabTyped, CountsTyped
<1>. QED BY <1>1 DEF Asked, Answer

\* Answers that were asked for before are out of place; a new question fits.
LEMMA AllTurned ==
  ASSUME awaiting \subseteq Answer
  PROVE  /\ {Turned(c) : c \in awaiting} \subseteq Answer
         /\ \A c \in {Turned(d) : d \in awaiting} : c.stale
BY TurnedAway

LEMMA TurnedLoad ==
  ASSUME NEW load \in [of : Session \cup {NoId}, stale : BOOLEAN]
  PROVE  LET turned == Turned(load)
         IN  turned \in [of : Session \cup {NoId}, stale : BOOLEAN] /\ turned.of = load.of /\ turned.stale
BY DEF Turned

LEMMA LoadEffectTyped ==
  ASSUME LoadEffect, sessionLoad \in [of : Session \cup {NoId}, stale : BOOLEAN],
         sessionId' \in Session \cup {NoId}
  PROVE  sessionLoad' \in [of : Session \cup {NoId}, stale : BOOLEAN]
BY DEF LoadEffect, NoLoad

LEMMA PageBegins == PageInit => PageInv
<1>. SUFFICES ASSUME PageInit PROVE PageInv
  OBVIOUS
<1>. DEFINE there == CHOOSE s \in Session : TRUE
            its == CHOOSE p \in Project : TRUE
<1>0. there \in Session /\ its \in Project
  BY PageConstants
<1>1. /\ selectedProjectID \in Project
      /\ messagesOf = [s \in Session |-> IF s = there THEN <<1>> ELSE <<>>] /\ numbered = 1
      /\ projectOf = [s \in Session |-> IF s = there THEN its ELSE NoId]
      /\ localStorage \in {there, NoId} /\ sessionId = localStorage
      /\ sessionLoaded = FALSE /\ agentSession = EMPTY_AGENT_SESSION
      /\ sessionLoad = [of |-> localStorage, stale |-> FALSE]
      /\ chatLoading = FALSE /\ chatRunning = FALSE /\ chatRunningRef = FALSE
      /\ activeRunId = NoId /\ chatEventSource = NoId /\ opened = << >>
      /\ awaiting = {} /\ clicks = 0 /\ runOf = [r \in Run |-> NoRun]
      /\ strayed = (localStorage = there /\ its # selectedProjectID)
  BY DEF PageInit
<1>2. Numbered(<<1>>)
  BY <1>1 DEF Numbered, Ascending
<1>3. DOMAIN opened = {}
  BY <1>1
<1>4. PageTyped
  <2>1. CountsTyped
    BY <1>1, PageConstants DEF CountsTyped
  <2>2. TabTyped
    BY <1>0, <1>1, <1>3, NothingShown DEF TabTyped
  <2>. QED BY <1>1, <2>1, <2>2 DEF PageTyped
<1>5. ServerSideHolds
  BY <1>0, <1>1, <1>2, <1>3, EmptyAscends DEF ServerSideHolds, RunRecord, NoRun
<1>6. OneSession /\ StopReaches
  BY <1>1 DEF OneSession, StopReaches
<1>7. ASSUME ~strayed PROVE Undisturbed
  BY <1>0, <1>1, <1>3, <1>7, EmptyAscends
     DEF Undisturbed, OneRunFollowed, Sending, QuestionsFit, LoadFits, RunFits, ShownFits, EMPTY_AGENT_SESSION
<1>. QED BY <1>4, <1>5, <1>6, <1>7 DEF PageInv

(* The handlers keep it, each by itself. *)

USE DEF sessionVars, busyVars, followVars, serverSide

LEMMA SendChatKeeps == ASSUME PageInv, SendChat PROVE PageInv'
<1>. USE DEF SendChat, Click, Busy, CloseRunStream, Closed
<1>a. PICK q \in Answer : /\ awaiting' = {Turned(c) : c \in awaiting} \cup {q}
                          /\ q.kind = "send" /\ q.session = sessionId /\ q.project = selectedProjectID /\ ~q.stale
  <2>1. awaiting' = {Turned(c) : c \in awaiting} \cup {Asked("send", sessionId)}
    OBVIOUS
  <2>2. PageTyped /\ sessionId \in Session \cup {NoId}
    BY DEF PageInv, PageTyped, TabTyped
  <2>. QED BY <2>1, <2>2, AskedNow
<1>b. awaiting' \subseteq Answer /\ q \in awaiting' /\ \A c \in awaiting' : c = q \/ c.stale
  BY <1>a, AllTurned DEF PageInv, PageTyped
<1>1. PageTyped'
  <2>1. TabTyped'
    <3>1. agentSession' \in [id : Session \cup {NoId}, messages : Seq(Nat)]
      BY NothingShown DEF PageInv, PageTyped, TabTyped, ServerSideHolds, Answer, RunRecord
    <3>2. sessionLoad' \in [of : Session \cup {NoId}, stale : BOOLEAN]
      BY DEF PageInv, PageTyped, TabTyped
    <3>. QED BY <3>1, <3>2, NothingShown
                DEF PageInv, PageTyped, TabTyped, OneSession, Answer, RunRecord, ServerSideHolds
  <2>2. CountsTyped'
    BY PageConstants DEF PageInv, PageTyped, CountsTyped
  <2>3. awaiting' \subseteq Answer
    BY <1>a, <1>b, ApartFromNoId DEF PageInv, PageTyped, TabTyped, Answer
  <2>. QED BY <2>1, <2>2, <2>3 DEF PageTyped
<1>2. ServerSideHolds'
  BY <1>a, <1>b, ApartFromNoId, EmptyAscends
     DEF PageInv, PageTyped, TabTyped, ServerSideHolds, Numbered, RunRecord, Answer
<1>3. OneSession'
  BY <1>a, <1>b, ApartFromNoId, NothingShown
     DEF PageInv, PageTyped, TabTyped, OneSession, ServerSideHolds, Answer
<1>4. StopReaches'
  BY <1>a, <1>b, ApartFromNoId DEF PageInv, PageTyped, TabTyped, StopReaches
<1>5. ASSUME ~strayed' PROVE Undisturbed'
  <2>0. ~strayed /\ Undisturbed
    BY <1>5 DEF PageInv, PageTyped, TabTyped
  <2>1. OneRunFollowed'
    BY <1>a, <1>b, <1>5, <2>0, ApartFromNoId
       DEF PageInv, PageTyped, TabTyped, Undisturbed, OneRunFollowed, QuestionsFit, StopReaches, Sending
  <2>2. QuestionsFit'
    BY <1>a, <1>b, <1>5, <2>0, ApartFromNoId, NothingShown
       DEF PageInv, PageTyped, TabTyped, Undisturbed, OneRunFollowed, QuestionsFit, LoadFits, ShownFits,
           OneSession, Sending
  <2>3. LoadFits'
    BY <1>a, <1>b, <1>5, <2>0, ApartFromNoId, NothingShown
       DEF PageInv, PageTyped, TabTyped, Undisturbed, QuestionsFit, LoadFits, OneSession, RunFits,
           OneRunFollowed, Turned
  <2>4. RunFits'
    BY <1>a, <1>b, <1>5, <2>0, ApartFromNoId, NothingShown
       DEF PageInv, PageTyped, TabTyped, Undisturbed, QuestionsFit, RunFits, Progress, ServerSideHolds,
           OneRunFollowed
  <2>5. ShownFits'
    BY <1>a, <1>b, <1>5, <2>0, ApartFromNoId, EmptyAscends, WithinItself, NothingShown
       DEF PageInv, PageTyped, TabTyped, Undisturbed, QuestionsFit, LoadFits, ShownFits, ServerSideHolds,
           Numbered, OneSession, RunFits, OneRunFollowed
  <2>. QED BY <2>1, <2>2, <2>3, <2>4, <2>5 DEF Undisturbed
<1>. QED BY <1>1, <1>2, <1>3, <1>4, <1>5 DEF PageInv

LEMMA StartNewChatKeeps == ASSUME PageInv, StartNewChat PROVE PageInv'
<1>. USE DEF StartNewChat, Click, AbortRun, CloseRunStream, Closed, Idle, ShowNothing, Show, LoadEffect
<1>b. awaiting' \subseteq Answer /\ \A c \in awaiting' : c.stale
  BY AllTurned DEF PageInv, PageTyped
<1>1. PageTyped'
  <2>1. TabTyped'
    <3>1. agentSession' \in [id : Session \cup {NoId}, messages : Seq(Nat)]
      BY NothingShown DEF PageInv, PageTyped, TabTyped, ServerSideHolds, Answer, RunRecord
    <3>2. sessionLoad' \in [of : Session \cup {NoId}, stale : BOOLEAN]
      <4>1. sessionLoad' \in {sessionLoad, NoLoad}
        BY NothingShown
      <4>2. NoLoad \in [of : Session \cup {NoId}, stale : BOOLEAN]
        BY ApartFromNoId DEF PageInv
      <4>. QED BY ONLY <4>1, <4>2, PageInv DEF PageInv, PageTyped, TabTyped
    <3>. QED BY <3>1, <3>2, NothingShown
                DEF PageInv, PageTyped, TabTyped, OneSession, Answer, RunRecord, ServerSideHolds
  <2>2. CountsTyped'
    BY PageConstants DEF PageInv, PageTyped, CountsTyped
  <2>3. awaiting' \subseteq Answer
    BY <1>b, ApartFromNoId DEF PageInv, PageTyped, TabTyped, Answer
  <2>. QED BY <2>1, <2>2, <2>3 DEF PageTyped
<1>2. ServerSideHolds'
  BY <1>b, ApartFromNoId, EmptyAscends
     DEF PageInv, PageTyped, TabTyped, ServerSideHolds, Numbered, RunRecord, Answer
<1>3. OneSession'
  BY <1>b, ApartFromNoId, NothingShown DEF PageInv, PageTyped, TabTyped, OneSession, ServerSideHolds, Answer
<1>4. StopReaches'
  BY <1>b, ApartFromNoId DEF PageInv, PageTyped, TabTyped, StopReaches
<1>5. ASSUME ~strayed' PROVE Undisturbed'
  <2>0. ~strayed /\ Undisturbed
    BY <1>5 DEF PageInv, PageTyped, TabTyped
  <2>1. OneRunFollowed'
    BY <1>b, <1>5, <2>0, ApartFromNoId
       DEF PageInv, PageTyped, TabTyped, Undisturbed, OneRunFollowed, QuestionsFit, StopReaches, Sending
  <2>2. QuestionsFit'
    BY <1>b, <1>5, <2>0, ApartFromNoId, NothingShown
       DEF PageInv, PageTyped, TabTyped, Undisturbed, OneRunFollowed, QuestionsFit, LoadFits, ShownFits,
           OneSession, Sending
  <2>3. LoadFits'
    BY <1>b, <1>5, <2>0, ApartFromNoId, NothingShown
       DEF PageInv, PageTyped, TabTyped, Undisturbed, QuestionsFit, LoadFits, OneSession, RunFits,
           OneRunFollowed, Turned
  <2>4. RunFits'
    BY <1>b, <1>5, <2>0, ApartFromNoId, NothingShown
       DEF PageInv, PageTyped, TabTyped, Undisturbed, QuestionsFit, RunFits, Progress, ServerSideHolds,
           OneRunFollowed
  <2>5. ShownFits'
    BY <1>b, <1>5, <2>0, ApartFromNoId, EmptyAscends, WithinItself, NothingShown
       DEF PageInv, PageTyped, TabTyped, Undisturbed, QuestionsFit, LoadFits, ShownFits, ServerSideHolds,
           Numbered, OneSession, RunFits, OneRunFollowed
  <2>. QED BY <2>1, <2>2, <2>3, <2>4, <2>5 DEF Undisturbed
<1>. QED BY <1>1, <1>2, <1>3, <1>4, <1>5 DEF PageInv

LEMMA SelectProjectKeeps == ASSUME PageInv, NEW p \in Project, SelectProject(p) PROVE PageInv'
<1>. USE DEF SelectProject, Click, AbortRun, CloseRunStream, Closed, Idle, ShowNothing, Show, LoadEffect
<1>b. awaiting' \subseteq Answer /\ \A c \in awaiting' : c.stale
  BY AllTurned DEF PageInv, PageTyped
<1>l. sessionLoad' \in [of : Session \cup {NoId}, stale : BOOLEAN]
  <2>1. CASE sessionId # NoId /\ sessionLoaded
    BY <2>1, LoadEffectTyped, NothingShown DEF PageInv, PageTyped, TabTyped
  <2>2. CASE ~(sessionId # NoId /\ sessionLoaded)
    BY <2>2, TurnedLoad, ApartFromNoId DEF PageInv, PageTyped, TabTyped
  <2>. QED BY <2>1, <2>2
<1>m. /\ sessionId # NoId /\ sessionLoaded =>
           sessionLoad' = IF sessionId' = sessionId /\ sessionLoaded' = sessionLoaded THEN sessionLoad ELSE NoLoad
      /\ ~(sessionId # NoId /\ sessionLoaded) =>
           \/ sessionLoad' = NoLoad
           \/ sessionLoad' # NoLoad /\ sessionLoad'.of = sessionLoad.of /\ sessionLoad'.stale
  BY TurnedLoad, NothingShown, ApartFromNoId DEF PageInv, PageTyped, TabTyped
<1>1. PageTyped'
  <2>1. TabTyped'
    <3>1. agentSession' \in [id : Session \cup {NoId}, messages : Seq(Nat)]
      BY NothingShown DEF PageInv, PageTyped, TabTyped, ServerSideHolds, Answer, RunRecord
    <3>2. sessionLoad' \in [of : Session \cup {NoId}, stale : BOOLEAN]
      BY <1>l DEF PageInv, PageTyped, TabTyped
    <3>. QED BY <3>1, <3>2, NothingShown
                DEF PageInv, PageTyped, TabTyped, OneSession, Answer, RunRecord, ServerSideHolds
  <2>2. CountsTyped'
    BY PageConstants DEF PageInv, PageTyped, CountsTyped
  <2>3. awaiting' \subseteq Answer
    BY <1>b, <1>l, <1>m, ApartFromNoId DEF PageInv, PageTyped, TabTyped, Answer
  <2>. QED BY <2>1, <2>2, <2>3 DEF PageTyped
<1>2. ServerSideHolds'
  BY <1>b, <1>l, <1>m, ApartFromNoId, EmptyAscends
     DEF PageInv, PageTyped, TabTyped, ServerSideHolds, Numbered, RunRecord, Answer
<1>3. OneSession'
  BY <1>b, <1>l, <1>m, ApartFromNoId, NothingShown
     DEF PageInv, PageTyped, TabTyped, OneSession, ServerSideHolds, Answer
<1>4. StopReaches'
  BY <1>b, <1>l, <1>m, ApartFromNoId DEF PageInv, PageTyped, TabTyped, StopReaches
<1>5. ASSUME ~strayed' PROVE Undisturbed'
  <2>0. ~strayed /\ Undisturbed
    BY <1>5 DEF PageInv, PageTyped, TabTyped
  <2>1. OneRunFollowed'
    BY <1>b, <1>l, <1>m, <1>5, <2>0, ApartFromNoId
       DEF PageInv, PageTyped, TabTyped, Undisturbed, OneRunFollowed, QuestionsFit, StopReaches, Sending
  <2>2. QuestionsFit'
    BY <1>b, <1>l, <1>m, <1>5, <2>0, ApartFromNoId, NothingShown
       DEF PageInv, PageTyped, TabTyped, Undisturbed, OneRunFollowed, QuestionsFit, LoadFits, ShownFits,
           OneSession, Sending
  <2>3. LoadFits'
    BY <1>b, <1>l, <1>m, <1>5, <2>0, ApartFromNoId, NothingShown
       DEF PageInv, PageTyped, TabTyped, Undisturbed, QuestionsFit, LoadFits, OneSession, RunFits,
           OneRunFollowed, Turned
  <2>4. RunFits'
    BY <1>b, <1>l, <1>m, <1>5, <2>0, ApartFromNoId, NothingShown
       DEF PageInv, PageTyped, TabTyped, Undisturbed, QuestionsFit, RunFits, Progress, ServerSideHolds,
           OneRunFollowed
  <2>5. ShownFits'
    BY <1>b, <1>l, <1>m, <1>5, <2>0, ApartFromNoId, EmptyAscends, WithinItself, NothingShown
       DEF PageInv, PageTyped, TabTyped, Undisturbed, QuestionsFit, LoadFits, ShownFits, ServerSideHolds,
           Numbered, OneSession, RunFits, OneRunFollowed
  <2>. QED BY <2>1, <2>2, <2>3, <2>4, <2>5 DEF Undisturbed
<1>. QED BY <1>1, <1>2, <1>3, <1>4, <1>5 DEF PageInv

LEMMA SwitchSessionKeeps == ASSUME PageInv, NEW s \in Session, SwitchSession(s) PROVE PageInv'
<1>. USE DEF SwitchSession, Click, Busy
<1>a. PICK q \in Answer : /\ awaiting' = awaiting \cup {q}
                          /\ q.kind = "switch" /\ q.session = s /\ q.project = selectedProjectID /\ ~q.stale
  <2>1. awaiting' = awaiting \cup {Asked("switch", s)}
    OBVIOUS
  <2>2. PageTyped /\ s \in Session \cup {NoId}
    BY DEF PageInv, PageTyped, TabTyped
  <2>. QED BY <2>1, <2>2, AskedNow
<1>b. awaiting' \subseteq Answer /\ q \in awaiting' /\ \A c \in awaiting' : c = q \/ c \in awaiting
  BY <1>a, AllTurned DEF PageInv, PageTyped
<1>1. PageTyped'
  <2>1. TabTyped'
    <3>1. agentSession' \in [id : Session \cup {NoId}, messages : Seq(Nat)]
      BY NothingShown DEF PageInv, PageTyped, TabTyped, ServerSideHolds, Answer, RunRecord
    <3>2. sessionLoad' \in [of : Session \cup {NoId}, stale : BOOLEAN]
      BY DEF PageInv, PageTyped, TabTyped
    <3>. QED BY <3>1, <3>2, NothingShown
                DEF PageInv, PageTyped, TabTyped, OneSession, Answer, RunRecord, ServerSideHolds
  <2>2. CountsTyped'
    BY PageConstants DEF PageInv, PageTyped, CountsTyped
  <2>3. awaiting' \subseteq Answer
    BY <1>a, <1>b, ApartFromNoId DEF PageInv, PageTyped, TabTyped, Answer
  <2>. QED BY <2>1, <2>2, <2>3 DEF PageTyped
<1>2. ServerSideHolds'
  BY <1>a, <1>b, ApartFromNoId, EmptyAscends
     DEF PageInv, PageTyped, TabTyped, ServerSideHolds, Numbered, RunRecord, Answer
<1>3. OneSession'
  BY <1>a, <1>b, ApartFromNoId, NothingShown
     DEF PageInv, PageTyped, TabTyped, OneSession, ServerSideHolds, Answer
<1>4. StopReaches'
  BY <1>a, <1>b, ApartFromNoId DEF PageInv, PageTyped, TabTyped, StopReaches
<1>5. ASSUME ~strayed' PROVE Undisturbed'
  <2>0. ~strayed /\ Undisturbed
    BY <1>5 DEF PageInv, PageTyped, TabTyped
  <2>1. OneRunFollowed'
    BY <1>a, <1>b, <1>5, <2>0, ApartFromNoId
       DEF PageInv, PageTyped, TabTyped, Undisturbed, OneRunFollowed, QuestionsFit, StopReaches, Sending
  <2>2. QuestionsFit'
    BY <1>a, <1>b, <1>5, <2>0, ApartFromNoId, NothingShown
       DEF PageInv, PageTyped, TabTyped, Undisturbed, OneRunFollowed, QuestionsFit, LoadFits, ShownFits,
           OneSession, Sending
  <2>3. LoadFits'
    BY <1>a, <1>b, <1>5, <2>0, ApartFromNoId, NothingShown
       DEF PageInv, PageTyped, TabTyped, Undisturbed, QuestionsFit, LoadFits, OneSession, RunFits,
           OneRunFollowed, Turned
  <2>4. RunFits'
    BY <1>a, <1>b, <1>5, <2>0, ApartFromNoId, NothingShown
       DEF PageInv, PageTyped, TabTyped, Undisturbed, QuestionsFit, RunFits, Progress, ServerSideHolds,
           OneRunFollowed
  <2>5. ShownFits'
    BY <1>a, <1>b, <1>5, <2>0, ApartFromNoId, EmptyAscends, WithinItself, NothingShown
       DEF PageInv, PageTyped, TabTyped, Undisturbed, QuestionsFit, LoadFits, ShownFits, ServerSideHolds,
           Numbered, OneSession, RunFits, OneRunFollowed
  <2>. QED BY <2>1, <2>2, <2>3, <2>4, <2>5 DEF Undisturbed
<1>. QED BY <1>1, <1>2, <1>3, <1>4, <1>5 DEF PageInv

LEMMA SwitchBranchKeeps == ASSUME PageInv, SwitchBranch PROVE PageInv'
<1>. USE DEF SwitchBranch, Click, Busy, CloseRunStream, Closed
<1>a. PICK q \in Answer : /\ awaiting' = awaiting \cup {q}
                          /\ q.kind = "branch" /\ q.session = sessionId /\ q.project = selectedProjectID /\ ~q.stale
  <2>1. awaiting' = awaiting \cup {Asked("branch", sessionId)}
    OBVIOUS
  <2>2. PageTyped /\ sessionId \in Session \cup {NoId}
    BY DEF PageInv, PageTyped, TabTyped
  <2>. QED BY <2>1, <2>2, AskedNow
<1>b. awaiting' \subseteq Answer /\ q \in awaiting' /\ \A c \in awaiting' : c = q \/ c \in awaiting
  BY <1>a, AllTurned DEF PageInv, PageTyped
<1>1. PageTyped'
  <2>1. TabTyped'
    <3>1. agentSession' \in [id : Session \cup {NoId}, messages : Seq(Nat)]
      BY NothingShown DEF PageInv, PageTyped, TabTyped, ServerSideHolds, Answer, RunRecord
    <3>2. sessionLoad' \in [of : Session \cup {NoId}, stale : BOOLEAN]
      BY DEF PageInv, PageTyped, TabTyped
    <3>. QED BY <3>1, <3>2, NothingShown
                DEF PageInv, PageTyped, TabTyped, OneSession, Answer, RunRecord, ServerSideHolds
  <2>2. CountsTyped'
    BY PageConstants DEF PageInv, PageTyped, CountsTyped
  <2>3. awaiting' \subseteq Answer
    BY <1>a, <1>b, ApartFromNoId DEF PageInv, PageTyped, TabTyped, Answer
  <2>. QED BY <2>1, <2>2, <2>3 DEF PageTyped
<1>2. ServerSideHolds'
  BY <1>a, <1>b, ApartFromNoId, EmptyAscends
     DEF PageInv, PageTyped, TabTyped, ServerSideHolds, Numbered, RunRecord, Answer
<1>3. OneSession'
  BY <1>a, <1>b, ApartFromNoId, NothingShown
     DEF PageInv, PageTyped, TabTyped, OneSession, ServerSideHolds, Answer
<1>4. StopReaches'
  BY <1>a, <1>b, ApartFromNoId DEF PageInv, PageTyped, TabTyped, StopReaches
<1>5. ASSUME ~strayed' PROVE Undisturbed'
  <2>0. ~strayed /\ Undisturbed
    BY <1>5 DEF PageInv, PageTyped, TabTyped
  <2>1. OneRunFollowed'
    BY <1>a, <1>b, <1>5, <2>0, ApartFromNoId
       DEF PageInv, PageTyped, TabTyped, Undisturbed, OneRunFollowed, QuestionsFit, StopReaches, Sending
  <2>2. QuestionsFit'
    BY <1>a, <1>b, <1>5, <2>0, ApartFromNoId, NothingShown
       DEF PageInv, PageTyped, TabTyped, Undisturbed, OneRunFollowed, QuestionsFit, LoadFits, ShownFits,
           OneSession, Sending
  <2>3. LoadFits'
    BY <1>a, <1>b, <1>5, <2>0, ApartFromNoId, NothingShown
       DEF PageInv, PageTyped, TabTyped, Undisturbed, QuestionsFit, LoadFits, OneSession, RunFits,
           OneRunFollowed, Turned
  <2>4. RunFits'
    BY <1>a, <1>b, <1>5, <2>0, ApartFromNoId, NothingShown
       DEF PageInv, PageTyped, TabTyped, Undisturbed, QuestionsFit, RunFits, Progress, ServerSideHolds,
           OneRunFollowed
  <2>5. ShownFits'
    BY <1>a, <1>b, <1>5, <2>0, ApartFromNoId, EmptyAscends, WithinItself, NothingShown
       DEF PageInv, PageTyped, TabTyped, Undisturbed, QuestionsFit, LoadFits, ShownFits, ServerSideHolds,
           Numbered, OneSession, RunFits, OneRunFollowed
  <2>. QED BY <2>1, <2>2, <2>3, <2>4, <2>5 DEF Undisturbed
<1>. QED BY <1>1, <1>2, <1>3, <1>4, <1>5 DEF PageInv

LEMMA DeleteSessionKeeps == ASSUME PageInv, NEW s \in Session, DeleteSession(s) PROVE PageInv'
<1>. USE DEF DeleteSession, Click, Busy, AbortRun, CloseRunStream, Closed, Idle
<1>a. PICK q \in Answer : /\ awaiting' = awaiting \cup {q}
                          /\ q.kind = "delete" /\ q.project = selectedProjectID /\ ~q.stale
  <2>1. awaiting' = awaiting \cup {[Asked("delete", s) EXCEPT !.aborting = @ /\ s = sessionId]}
    OBVIOUS
  <2>2. clicks \in Nat /\ selectedProjectID \in Project
    BY PageConstants DEF PageInv, PageTyped, TabTyped, CountsTyped
  <2>3. LET q == [Asked("delete", s) EXCEPT !.aborting = @ /\ s = sessionId]
        IN  q \in Answer /\ q.kind = "delete" /\ q.project = selectedProjectID /\ ~q.stale
    BY ONLY <2>2, s \in Session DEF Asked, Answer
  <2>. QED BY <2>1, <2>3
<1>b. awaiting' \subseteq Answer /\ q \in awaiting' /\ \A c \in awaiting' : c = q \/ c \in awaiting
  BY <1>a DEF PageInv, PageTyped
<1>c. /\ chatLoading' \in BOOLEAN /\ chatRunning' \in BOOLEAN /\ chatRunningRef' \in BOOLEAN
      /\ activeRunId' \in Run \cup {NoId} /\ chatEventSource' \in Run \cup {NoId}
      /\ DOMAIN opened' \subseteq DOMAIN opened
  <2>1. CASE s = sessionId
    <3>1. /\ activeRunId' = NoId /\ chatEventSource' \in {chatEventSource, NoId}
          /\ opened' = Closed(opened, chatEventSource) /\ Idle
      BY <2>1
    <3>. QED BY ONLY <3>1, PageInv DEF PageInv, PageTyped, TabTyped, Closed, Idle
  <2>2. CASE s # sessionId
    BY <2>2 DEF PageInv, PageTyped, TabTyped
  <2>. QED BY <2>1, <2>2
<1>1. PageTyped'
  <2>1. TabTyped'
    <3>1. agentSession' \in [id : Session \cup {NoId}, messages : Seq(Nat)]
      BY NothingShown DEF PageInv, PageTyped, TabTyped, ServerSideHolds, Answer, RunRecord
    <3>2. sessionLoad' \in [of : Session \cup {NoId}, stale : BOOLEAN]
      BY DEF PageInv, PageTyped, TabTyped
    <3>. QED BY <1>c, <3>1, <3>2, NothingShown
                DEF PageInv, PageTyped, TabTyped, OneSession, Answer, RunRecord, ServerSideHolds
  <2>2. CountsTyped'
    BY PageConstants DEF PageInv, PageTyped, CountsTyped
  <2>3. awaiting' \subseteq Answer
    BY <1>a, <1>b, <1>c, ApartFromNoId DEF PageInv, PageTyped, TabTyped, Answer
  <2>. QED BY <2>1, <2>2, <2>3 DEF PageTyped
<1>2. ServerSideHolds'
  BY <1>a, <1>b, <1>c, ApartFromNoId, EmptyAscends
     DEF PageInv, PageTyped, TabTyped, ServerSideHolds, Numbered, RunRecord, Answer
<1>3. OneSession'
  BY <1>a, <1>b, <1>c, ApartFromNoId, NothingShown
     DEF PageInv, PageTyped, TabTyped, OneSession, ServerSideHolds, Answer
<1>4. StopReaches'
  BY <1>a, <1>b, <1>c, ApartFromNoId DEF PageInv, PageTyped, TabTyped, StopReaches
<1>5. ASSUME ~strayed' PROVE Undisturbed'
  <2>0. ~strayed /\ Undisturbed
    BY <1>5 DEF PageInv, PageTyped, TabTyped
  <2>1. OneRunFollowed'
    BY <1>a, <1>b, <1>c, <1>5, <2>0, ApartFromNoId
       DEF PageInv, PageTyped, TabTyped, Undisturbed, OneRunFollowed, QuestionsFit, StopReaches, Sending
  <2>2. QuestionsFit'
    BY <1>a, <1>b, <1>c, <1>5, <2>0, ApartFromNoId, NothingShown
       DEF PageInv, PageTyped, TabTyped, Undisturbed, OneRunFollowed, QuestionsFit, LoadFits, ShownFits,
           OneSession, Sending
  <2>3. LoadFits'
    BY <1>a, <1>b, <1>c, <1>5, <2>0, ApartFromNoId, NothingShown
       DEF PageInv, PageTyped, TabTyped, Undisturbed, QuestionsFit, LoadFits, OneSession, RunFits,
           OneRunFollowed, Turned
  <2>4. RunFits'
    BY <1>a, <1>b, <1>c, <1>5, <2>0, ApartFromNoId, NothingShown
       DEF PageInv, PageTyped, TabTyped, Undisturbed, QuestionsFit, RunFits, Progress, ServerSideHolds,
           OneRunFollowed
  <2>5. ShownFits'
    BY <1>a, <1>b, <1>c, <1>5, <2>0, ApartFromNoId, EmptyAscends, WithinItself, NothingShown
       DEF PageInv, PageTyped, TabTyped, Undisturbed, QuestionsFit, LoadFits, ShownFits, ServerSideHolds,
           Numbered, OneSession, RunFits, OneRunFollowed
  <2>. QED BY <2>1, <2>2, <2>3, <2>4, <2>5 DEF Undisturbed
<1>. QED BY <1>1, <1>2, <1>3, <1>4, <1>5 DEF PageInv

LEMMA ClearChatKeeps == ASSUME PageInv, ClearChat PROVE PageInv'
<1>. USE DEF ClearChat, Click, AbortRun, CloseRunStream, Closed, Idle
<1>a. PICK q \in Answer : /\ awaiting' = {Turned(c) : c \in awaiting} \cup {q}
                          /\ q.kind = "clear" /\ q.session = sessionId /\ q.project = selectedProjectID /\ ~q.stale
  <2>1. awaiting' = {Turned(c) : c \in awaiting} \cup {Asked("clear", sessionId)}
    OBVIOUS
  <2>2. PageTyped /\ sessionId \in Session \cup {NoId}
    BY DEF PageInv, PageTyped, TabTyped
  <2>. QED BY <2>1, <2>2, AskedNow
<1>b. awaiting' \subseteq Answer /\ q \in awaiting' /\ \A c \in awaiting' : c = q \/ c.stale
  BY <1>a, AllTurned DEF PageInv, PageTyped
<1>1. PageTyped'
  <2>1. TabTyped'
    <3>1. agentSession' \in [id : Session \cup {NoId}, messages : Seq(Nat)]
      BY NothingShown DEF PageInv, PageTyped, TabTyped, ServerSideHolds, Answer, RunRecord
    <3>2. sessionLoad' \in [of : Session \cup {NoId}, stale : BOOLEAN]
      BY DEF PageInv, PageTyped, TabTyped
    <3>. QED BY <3>1, <3>2, NothingShown
                DEF PageInv, PageTyped, TabTyped, OneSession, Answer, RunRecord, ServerSideHolds
  <2>2. CountsTyped'
    BY PageConstants DEF PageInv, PageTyped, CountsTyped
  <2>3. awaiting' \subseteq Answer
    BY <1>a, <1>b, ApartFromNoId DEF PageInv, PageTyped, TabTyped, Answer
  <2>. QED BY <2>1, <2>2, <2>3 DEF PageTyped
<1>2. ServerSideHolds'
  BY <1>a, <1>b, ApartFromNoId, EmptyAscends
     DEF PageInv, PageTyped, TabTyped, ServerSideHolds, Numbered, RunRecord, Answer
<1>3. OneSession'
  BY <1>a, <1>b, ApartFromNoId, NothingShown
     DEF PageInv, PageTyped, TabTyped, OneSession, ServerSideHolds, Answer
<1>4. StopReaches'
  BY <1>a, <1>b, ApartFromNoId DEF PageInv, PageTyped, TabTyped, StopReaches
<1>5. ASSUME ~strayed' PROVE Undisturbed'
  <2>0. ~strayed /\ Undisturbed
    BY <1>5 DEF PageInv, PageTyped, TabTyped
  <2>1. OneRunFollowed'
    BY <1>a, <1>b, <1>5, <2>0, ApartFromNoId
       DEF PageInv, PageTyped, TabTyped, Undisturbed, OneRunFollowed, QuestionsFit, StopReaches, Sending
  <2>2. QuestionsFit'
    BY <1>a, <1>b, <1>5, <2>0, ApartFromNoId, NothingShown
       DEF PageInv, PageTyped, TabTyped, Undisturbed, OneRunFollowed, QuestionsFit, LoadFits, ShownFits,
           OneSession, Sending
  <2>3. LoadFits'
    BY <1>a, <1>b, <1>5, <2>0, ApartFromNoId, NothingShown
       DEF PageInv, PageTyped, TabTyped, Undisturbed, QuestionsFit, LoadFits, OneSession, RunFits,
           OneRunFollowed, Turned
  <2>4. RunFits'
    BY <1>a, <1>b, <1>5, <2>0, ApartFromNoId, NothingShown
       DEF PageInv, PageTyped, TabTyped, Undisturbed, QuestionsFit, RunFits, Progress, ServerSideHolds,
           OneRunFollowed
  <2>5. ShownFits'
    BY <1>a, <1>b, <1>5, <2>0, ApartFromNoId, EmptyAscends, WithinItself, NothingShown
       DEF PageInv, PageTyped, TabTyped, Undisturbed, QuestionsFit, LoadFits, ShownFits, ServerSideHolds,
           Numbered, OneSession, RunFits, OneRunFollowed
  <2>. QED BY <2>1, <2>2, <2>3, <2>4, <2>5 DEF Undisturbed
<1>. QED BY <1>1, <1>2, <1>3, <1>4, <1>5 DEF PageInv

LEMMA ReloadKeeps == ASSUME PageInv, NEW p \in Project, Reload(p) PROVE PageInv'
<1>. USE DEF Reload, Click, Idle
<1>c. DOMAIN opened' = {}
  OBVIOUS
<1>1. PageTyped'
  <2>1. TabTyped'
    <3>1. agentSession' \in [id : Session \cup {NoId}, messages : Seq(Nat)]
      BY NothingShown DEF PageInv, PageTyped, TabTyped, ServerSideHolds, Answer, RunRecord
    <3>2. sessionLoad' \in [of : Session \cup {NoId}, stale : BOOLEAN]
      BY DEF PageInv, PageTyped, TabTyped
    <3>. QED BY <1>c, <3>1, <3>2, NothingShown
                DEF PageInv, PageTyped, TabTyped, OneSession, Answer, RunRecord, ServerSideHolds
  <2>2. CountsTyped'
    BY PageConstants DEF PageInv, PageTyped, CountsTyped
  <2>3. awaiting' \subseteq Answer
    BY <1>c, ApartFromNoId DEF PageInv, PageTyped, TabTyped, Answer
  <2>. QED BY <2>1, <2>2, <2>3 DEF PageTyped
<1>2. ServerSideHolds'
  BY <1>c, ApartFromNoId, EmptyAscends
     DEF PageInv, PageTyped, TabTyped, ServerSideHolds, Numbered, RunRecord, Answer
<1>3. OneSession'
  BY <1>c, ApartFromNoId, NothingShown DEF PageInv, PageTyped, TabTyped, OneSession, ServerSideHolds, Answer
<1>4. StopReaches'
  BY <1>c, ApartFromNoId DEF PageInv, PageTyped, TabTyped, StopReaches
<1>5. ASSUME ~strayed' PROVE Undisturbed'
  <2>0. ~strayed /\ Undisturbed
    BY <1>5 DEF PageInv, PageTyped, TabTyped
  <2>1. OneRunFollowed'
    BY <1>c, <1>5, <2>0, ApartFromNoId
       DEF PageInv, PageTyped, TabTyped, Undisturbed, OneRunFollowed, QuestionsFit, StopReaches, Sending
  <2>2. QuestionsFit'
    BY <1>c, <1>5, <2>0, ApartFromNoId, NothingShown
       DEF PageInv, PageTyped, TabTyped, Undisturbed, OneRunFollowed, QuestionsFit, LoadFits, ShownFits,
           OneSession, Sending
  <2>3. LoadFits'
    BY <1>c, <1>5, <2>0, ApartFromNoId, NothingShown
       DEF PageInv, PageTyped, TabTyped, Undisturbed, QuestionsFit, LoadFits, OneSession, RunFits,
           OneRunFollowed, Turned
  <2>4. RunFits'
    BY <1>c, <1>5, <2>0, ApartFromNoId, NothingShown
       DEF PageInv, PageTyped, TabTyped, Undisturbed, QuestionsFit, RunFits, Progress, ServerSideHolds,
           OneRunFollowed
  <2>5. ShownFits'
    BY <1>c, <1>5, <2>0, ApartFromNoId, EmptyAscends, WithinItself, NothingShown
       DEF PageInv, PageTyped, TabTyped, Undisturbed, QuestionsFit, LoadFits, ShownFits, ServerSideHolds,
           Numbered, OneSession, RunFits, OneRunFollowed
  <2>. QED BY <2>1, <2>2, <2>3, <2>4, <2>5 DEF Undisturbed
<1>. QED BY <1>1, <1>2, <1>3, <1>4, <1>5 DEF PageInv

LEMMA AbortedKeeps == ASSUME PageInv, NEW c \in awaiting, Aborted(c) PROVE PageInv'
<1>. USE DEF Aborted
<1>a. PICK q \in Answer : /\ awaiting' = (awaiting \ {c}) \cup {q}
                          /\ q.kind = c.kind /\ q.session = c.session /\ q.project = c.project /\ q.stale = c.stale
  <2>1. c \in Answer
    BY DEF PageInv, PageTyped
  <2>2. LET q == [c EXCEPT !.aborting = FALSE]
        IN  q \in Answer /\ q.kind = c.kind /\ q.session = c.session /\ q.project = c.project /\ q.stale = c.stale
    BY ONLY <2>1 DEF Answer
  <2>. QED BY <2>2
<1>1. PageTyped'
  <2>1. TabTyped'
    <3>1. agentSession' \in [id : Session \cup {NoId}, messages : Seq(Nat)]
      BY NothingShown DEF PageInv, PageTyped, TabTyped, ServerSideHolds, Answer, RunRecord
    <3>2. sessionLoad' \in [of : Session \cup {NoId}, stale : BOOLEAN]
      BY DEF PageInv, PageTyped, TabTyped
    <3>. QED BY <3>1, <3>2, NothingShown
                DEF PageInv, PageTyped, TabTyped, OneSession, Answer, RunRecord, ServerSideHolds
  <2>2. CountsTyped'
    BY PageConstants DEF PageInv, PageTyped, CountsTyped
  <2>3. awaiting' \subseteq Answer
    BY <1>a, ApartFromNoId DEF PageInv, PageTyped, TabTyped, Answer
  <2>. QED BY <2>1, <2>2, <2>3 DEF PageTyped
<1>2. ServerSideHolds'
  BY <1>a, ApartFromNoId, EmptyAscends
     DEF PageInv, PageTyped, TabTyped, ServerSideHolds, Numbered, RunRecord, Answer
<1>3. OneSession'
  BY <1>a, ApartFromNoId, NothingShown DEF PageInv, PageTyped, TabTyped, OneSession, ServerSideHolds, Answer
<1>4. StopReaches'
  BY <1>a, ApartFromNoId DEF PageInv, PageTyped, TabTyped, StopReaches
<1>5. ASSUME ~strayed' PROVE Undisturbed'
  <2>0. ~strayed /\ Undisturbed
    BY <1>5 DEF PageInv, PageTyped, TabTyped
  <2>1. OneRunFollowed'
    BY <1>a, <1>5, <2>0, ApartFromNoId
       DEF PageInv, PageTyped, TabTyped, Undisturbed, OneRunFollowed, QuestionsFit, StopReaches, Sending
  <2>2. QuestionsFit'
    BY <1>a, <1>5, <2>0, ApartFromNoId, NothingShown
       DEF PageInv, PageTyped, TabTyped, Undisturbed, OneRunFollowed, QuestionsFit, LoadFits, ShownFits,
           OneSession, Sending
  <2>3. LoadFits'
    BY <1>a, <1>5, <2>0, ApartFromNoId, NothingShown
       DEF PageInv, PageTyped, TabTyped, Undisturbed, QuestionsFit, LoadFits, OneSession, RunFits,
           OneRunFollowed, Turned
  <2>4. RunFits'
    BY <1>a, <1>5, <2>0, ApartFromNoId, NothingShown
       DEF PageInv, PageTyped, TabTyped, Undisturbed, QuestionsFit, RunFits, Progress, ServerSideHolds,
           OneRunFollowed
  <2>5. ShownFits'
    BY <1>a, <1>5, <2>0, ApartFromNoId, EmptyAscends, WithinItself, NothingShown
       DEF PageInv, PageTyped, TabTyped, Undisturbed, QuestionsFit, LoadFits, ShownFits, ServerSideHolds,
           Numbered, OneSession, RunFits, OneRunFollowed
  <2>. QED BY <2>1, <2>2, <2>3, <2>4, <2>5 DEF Undisturbed
<1>. QED BY <1>1, <1>2, <1>3, <1>4, <1>5 DEF PageInv

LEMMA SwitchAnsweredKeeps == ASSUME PageInv, NEW c \in awaiting, SwitchAnswered(c) PROVE PageInv'
<1>. USE DEF SwitchAnswered, Answered, Show, LoadEffect, Exists
<1>l. sessionLoad' \in [of : Session \cup {NoId}, stale : BOOLEAN]
  BY LoadEffectTyped, NothingShown DEF PageInv, PageTyped, TabTyped, ServerSideHolds, RunRecord, Answer
<1>1. PageTyped'
  <2>1. TabTyped'
    <3>1. agentSession' \in [id : Session \cup {NoId}, messages : Seq(Nat)]
      BY NothingShown DEF PageInv, PageTyped, TabTyped, ServerSideHolds, Answer, RunRecord
    <3>2. sessionLoad' \in [of : Session \cup {NoId}, stale : BOOLEAN]
      BY <1>l DEF PageInv, PageTyped, TabTyped
    <3>3. /\ selectedProjectID' \in Project
          /\ sessionId' \in Session \cup {NoId} /\ localStorage' \in Session \cup {NoId}
          /\ activeRunId' \in Run \cup {NoId} /\ chatEventSource' \in Run \cup {NoId} /\ DOMAIN opened' \subseteq Run
      BY <3>1, NothingShown DEF PageInv, PageTyped, TabTyped, Answer
    <3>4. /\ chatLoading' \in BOOLEAN /\ chatRunning' \in BOOLEAN /\ chatRunningRef' \in BOOLEAN
          /\ sessionLoaded' \in BOOLEAN /\ strayed' \in BOOLEAN
      BY DEF PageInv, PageTyped, TabTyped
    <3>5. projectOf' \in [Session -> Project \cup {NoId}]
      BY DEF PageInv, PageTyped, TabTyped, Answer
    <3>. QED BY <3>1, <3>2, <3>3, <3>4, <3>5 DEF TabTyped
  <2>2. CountsTyped'
    BY PageConstants DEF PageInv, PageTyped, CountsTyped
  <2>3. awaiting' \subseteq Answer
    BY <1>l, ApartFromNoId DEF PageInv, PageTyped, TabTyped, Answer
  <2>. QED BY <2>1, <2>2, <2>3 DEF PageTyped
<1>2. ServerSideHolds'
  BY <1>l, ApartFromNoId, EmptyAscends
     DEF PageInv, PageTyped, TabTyped, ServerSideHolds, Numbered, RunRecord, Answer
<1>3. OneSession'
  BY <1>l, ApartFromNoId, NothingShown DEF PageInv, PageTyped, TabTyped, OneSession, ServerSideHolds, Answer
<1>4. StopReaches'
  BY <1>l, ApartFromNoId DEF PageInv, PageTyped, TabTyped, StopReaches
<1>5. ASSUME ~strayed' PROVE Undisturbed'
  <2>0. ~strayed /\ Undisturbed
    BY <1>5 DEF PageInv, PageTyped, TabTyped
  <2>1. OneRunFollowed'
    BY <1>l, <1>5, <2>0, ApartFromNoId
       DEF PageInv, PageTyped, TabTyped, Undisturbed, OneRunFollowed, QuestionsFit, StopReaches, Sending
  <2>2. QuestionsFit'
    BY <1>l, <1>5, <2>0, ApartFromNoId, NothingShown
       DEF PageInv, PageTyped, TabTyped, Undisturbed, OneRunFollowed, QuestionsFit, LoadFits, ShownFits,
           OneSession, Sending
  <2>3. LoadFits'
    BY <1>l, <1>5, <2>0, ApartFromNoId, NothingShown
       DEF PageInv, PageTyped, TabTyped, Undisturbed, QuestionsFit, LoadFits, OneSession, RunFits,
           OneRunFollowed, Turned
  <2>4. RunFits'
    BY <1>l, <1>5, <2>0, ApartFromNoId, NothingShown
       DEF PageInv, PageTyped, TabTyped, Undisturbed, QuestionsFit, RunFits, Progress, ServerSideHolds,
           OneRunFollowed
  <2>5. ShownFits'
    <3>1. CASE UNCHANGED agentSession
      BY <3>1, <2>0 DEF Undisturbed, ShownFits
    <3>2. CASE ~UNCHANGED agentSession
      <4>1. c.session \in Session /\ agentSession' = [id |-> c.session, messages |-> messagesOf[c.session]]
        BY <3>2 DEF PageInv, PageTyped, Answer
      <4>2. ~c.stale /\ projectOf[c.session] \in {selectedProjectID, NoId}
        BY <1>5, <2>0 DEF Undisturbed, QuestionsFit
      <4>3. /\ agentSession'.id # NoId /\ Within(agentSession'.messages, messagesOf[agentSession'.id])
            /\ Ascending(agentSession'.messages)
        BY <4>1, WithinItself, ApartFromNoId DEF PageInv, ServerSideHolds, Numbered
      <4>4. UNCHANGED <<projectOf, selectedProjectID, messagesOf>>
        OBVIOUS
      <4>. QED BY ONLY <4>1, <4>2, <4>3, <4>4 DEF ShownFits
    <3>. QED BY <3>1, <3>2
  <2>. QED BY <2>1, <2>2, <2>3, <2>4, <2>5 DEF Undisturbed
<1>. QED BY <1>1, <1>2, <1>3, <1>4, <1>5 DEF PageInv

LEMMA BranchAnsweredKeeps == ASSUME PageInv, NEW c \in awaiting, BranchAnswered(c) PROVE PageInv'
<1>. USE DEF BranchAnswered, Answered, Show, LoadEffect, Exists, Idle
<1>l. sessionLoad' \in [of : Session \cup {NoId}, stale : BOOLEAN]
  BY LoadEffectTyped, NothingShown DEF PageInv, PageTyped, TabTyped, ServerSideHolds, RunRecord, Answer
<1>f. \/ UNCHANGED <<messagesOf, sessionId, sessionLoaded, agentSession, localStorage, sessionLoad>>
      \/ LET before == Front(messagesOf[c.session])
         IN  /\ c.session \in Session /\ Numbered(before)
             /\ messagesOf' = [messagesOf EXCEPT ![c.session] = before]
             /\ agentSession' = [id |-> c.session, messages |-> before]
             /\ sessionId' = c.session /\ localStorage' = c.session /\ sessionLoaded' = TRUE
  BY FrontOf DEF PageInv, PageTyped, Answer, ServerSideHolds
<1>1. PageTyped'
  <2>1. TabTyped'
    <3>1. agentSession' \in [id : Session \cup {NoId}, messages : Seq(Nat)]
      BY <1>f DEF PageInv, PageTyped, TabTyped, Numbered, Ascending
    <3>2. sessionLoad' \in [of : Session \cup {NoId}, stale : BOOLEAN]
      BY <1>l DEF PageInv, PageTyped, TabTyped
    <3>3. /\ selectedProjectID' \in Project
          /\ sessionId' \in Session \cup {NoId} /\ localStorage' \in Session \cup {NoId}
          /\ activeRunId' \in Run \cup {NoId} /\ chatEventSource' \in Run \cup {NoId} /\ DOMAIN opened' \subseteq Run
      BY <3>1, NothingShown DEF PageInv, PageTyped, TabTyped, Answer
    <3>4. /\ chatLoading' \in BOOLEAN /\ chatRunning' \in BOOLEAN /\ chatRunningRef' \in BOOLEAN
          /\ sessionLoaded' \in BOOLEAN /\ strayed' \in BOOLEAN
      BY DEF PageInv, PageTyped, TabTyped
    <3>5. projectOf' \in [Session -> Project \cup {NoId}]
      BY DEF PageInv, PageTyped, TabTyped, Answer
    <3>. QED BY <3>1, <3>2, <3>3, <3>4, <3>5 DEF TabTyped
  <2>2. CountsTyped'
    BY PageConstants DEF PageInv, PageTyped, CountsTyped
  <2>3. awaiting' \subseteq Answer
    BY <1>l, <1>f, ApartFromNoId DEF PageInv, PageTyped, TabTyped, Answer
  <2>. QED BY <2>1, <2>2, <2>3 DEF PageTyped
<1>2. ServerSideHolds'
  <2>1. messagesOf' \in [Session -> Seq(Nat)] /\ \A s \in Session : Numbered(messagesOf'[s])
    BY <1>f DEF PageInv, ServerSideHolds, Numbered, Ascending
  <2>. QED BY <2>1 DEF PageInv, ServerSideHolds, Numbered
<1>3. OneSession'
  BY <1>l, <1>f, ApartFromNoId, NothingShown
     DEF PageInv, PageTyped, TabTyped, OneSession, ServerSideHolds, Answer
<1>4. StopReaches'
  BY <1>l, <1>f, ApartFromNoId DEF PageInv, PageTyped, TabTyped, StopReaches
<1>5. ASSUME ~strayed' PROVE Undisturbed'
  <2>0. ~strayed /\ Undisturbed
    BY <1>5 DEF PageInv, PageTyped, TabTyped
  <2>1. OneRunFollowed'
    BY <1>l, <1>f, <1>5, <2>0, ApartFromNoId
       DEF PageInv, PageTyped, TabTyped, Undisturbed, OneRunFollowed, QuestionsFit, StopReaches, Sending
  <2>2. QuestionsFit'
    BY <1>l, <1>f, <1>5, <2>0, ApartFromNoId, NothingShown
       DEF PageInv, PageTyped, TabTyped, Undisturbed, OneRunFollowed, QuestionsFit, LoadFits, ShownFits,
           OneSession, Sending
  <2>3. LoadFits'
    BY <1>l, <1>f, <1>5, <2>0, ApartFromNoId, NothingShown
       DEF PageInv, PageTyped, TabTyped, Undisturbed, QuestionsFit, LoadFits, OneSession, RunFits,
           OneRunFollowed, Turned
  <2>4. RunFits'
    BY <1>l, <1>f, <1>5, <2>0, ApartFromNoId, NothingShown
       DEF PageInv, PageTyped, TabTyped, Undisturbed, QuestionsFit, RunFits, Progress, ServerSideHolds,
           OneRunFollowed
  <2>5. ShownFits'
    <3>1. CASE UNCHANGED <<messagesOf, agentSession>>
      BY <3>1, <2>0 DEF Undisturbed, ShownFits
    <3>2. CASE ~UNCHANGED <<messagesOf, agentSession>>
      <4>1. /\ c.session \in Session /\ agentSession'.id = c.session
            /\ agentSession'.messages = messagesOf'[c.session]
            /\ Ascending(agentSession'.messages)
        BY <3>2, <1>f DEF PageInv, ServerSideHolds, Numbered
      <4>2. ~c.stale /\ projectOf[c.session] \in {selectedProjectID, NoId}
        BY <1>5, <2>0 DEF Undisturbed, QuestionsFit
      <4>3. agentSession'.id # NoId /\ Within(agentSession'.messages, messagesOf'[agentSession'.id])
        BY <4>1, WithinItself, ApartFromNoId DEF PageInv
      <4>4. UNCHANGED <<projectOf, selectedProjectID>>
        OBVIOUS
      <4>. QED BY ONLY <4>1, <4>2, <4>3, <4>4 DEF ShownFits
    <3>. QED BY <3>1, <3>2
  <2>. QED BY <2>1, <2>2, <2>3, <2>4, <2>5 DEF Undisturbed
<1>. QED BY <1>1, <1>2, <1>3, <1>4, <1>5 DEF PageInv

LEMMA DeletedKeeps == ASSUME PageInv, NEW c \in awaiting, Deleted(c) PROVE PageInv'
<1>. USE DEF Deleted, Answered, ShowNothing, Show, LoadEffect, Idle
<1>l. sessionLoad' \in [of : Session \cup {NoId}, stale : BOOLEAN]
  BY LoadEffectTyped, NothingShown DEF PageInv, PageTyped, TabTyped, ServerSideHolds, RunRecord, Answer
<1>1. PageTyped'
  <2>1. TabTyped'
    <3>1. agentSession' \in [id : Session \cup {NoId}, messages : Seq(Nat)]
      BY NothingShown DEF PageInv, PageTyped, TabTyped, ServerSideHolds, Answer, RunRecord
    <3>2. sessionLoad' \in [of : Session \cup {NoId}, stale : BOOLEAN]
      BY <1>l DEF PageInv, PageTyped, TabTyped
    <3>3. /\ selectedProjectID' \in Project
          /\ sessionId' \in Session \cup {NoId} /\ localStorage' \in Session \cup {NoId}
          /\ activeRunId' \in Run \cup {NoId} /\ chatEventSource' \in Run \cup {NoId} /\ DOMAIN opened' \subseteq Run
      BY <3>1, NothingShown DEF PageInv, PageTyped, TabTyped, Answer
    <3>4. /\ chatLoading' \in BOOLEAN /\ chatRunning' \in BOOLEAN /\ chatRunningRef' \in BOOLEAN
          /\ sessionLoaded' \in BOOLEAN /\ strayed' \in BOOLEAN
      BY DEF PageInv, PageTyped, TabTyped
    <3>5. projectOf' \in [Session -> Project \cup {NoId}]
      BY DEF PageInv, PageTyped, TabTyped, Answer
    <3>. QED BY <3>1, <3>2, <3>3, <3>4, <3>5 DEF TabTyped
  <2>2. CountsTyped'
    BY PageConstants DEF PageInv, PageTyped, CountsTyped
  <2>3. awaiting' \subseteq Answer
    BY <1>l, ApartFromNoId DEF PageInv, PageTyped, TabTyped, Answer
  <2>. QED BY <2>1, <2>2, <2>3 DEF PageTyped
<1>2. ServerSideHolds'
  BY <1>l, ApartFromNoId, EmptyAscends
     DEF PageInv, PageTyped, TabTyped, ServerSideHolds, Numbered, RunRecord, Answer
<1>3. OneSession'
  BY <1>l, ApartFromNoId, NothingShown DEF PageInv, PageTyped, TabTyped, OneSession, ServerSideHolds, Answer
<1>4. StopReaches'
  BY <1>l, ApartFromNoId DEF PageInv, PageTyped, TabTyped, StopReaches
<1>5. ASSUME ~strayed' PROVE Undisturbed'
  <2>0. ~strayed /\ Undisturbed
    BY <1>5 DEF PageInv, PageTyped, TabTyped
  <2>1. OneRunFollowed'
    BY <1>l, <1>5, <2>0, ApartFromNoId
       DEF PageInv, PageTyped, TabTyped, Undisturbed, OneRunFollowed, QuestionsFit, StopReaches, Sending
  <2>2. QuestionsFit'
    <3>1. CASE UNCHANGED projectOf
      BY <3>1, <1>5, <2>0, NothingShown DEF PageInv, PageTyped, TabTyped, Undisturbed, QuestionsFit
    <3>2. CASE ~UNCHANGED projectOf
      <4>1. ~c.stale /\ projectOf' = [projectOf EXCEPT ![c.session] = NoId]
        BY <3>2, <1>5 DEF PageInv, PageTyped, TabTyped
      <4>2. \A d \in awaiting : ~d.stale => d.kind # "send" /\ ~chatRunning
        BY <4>1, <2>0 DEF Undisturbed, QuestionsFit
      <4>. QED BY <4>1, <4>2, <2>0 DEF PageInv, PageTyped, TabTyped, Answer, Undisturbed, QuestionsFit
    <3>. QED BY <3>1, <3>2
  <2>3. LoadFits'
    BY <1>l, <1>5, <2>0, ApartFromNoId, NothingShown
       DEF PageInv, PageTyped, TabTyped, Undisturbed, QuestionsFit, LoadFits, OneSession, RunFits,
           OneRunFollowed, Turned
  <2>4. RunFits'
    BY <1>l, <1>5, <2>0, ApartFromNoId, NothingShown
       DEF PageInv, PageTyped, TabTyped, Undisturbed, QuestionsFit, RunFits, Progress, ServerSideHolds,
           OneRunFollowed
  <2>5. ShownFits'
    BY <1>l, <1>5, <2>0, ApartFromNoId, EmptyAscends, WithinItself, NothingShown
       DEF PageInv, PageTyped, TabTyped, Undisturbed, QuestionsFit, LoadFits, ShownFits, ServerSideHolds,
           Numbered, OneSession, RunFits, OneRunFollowed
  <2>. QED BY <2>1, <2>2, <2>3, <2>4, <2>5 DEF Undisturbed
<1>. QED BY <1>1, <1>2, <1>3, <1>4, <1>5 DEF PageInv

LEMMA ClearedKeeps == ASSUME PageInv, NEW c \in awaiting, Cleared(c) PROVE PageInv'
<1>. USE DEF Cleared, Answered, ShowNothing, Show, LoadEffect, Idle
<1>l. sessionLoad' \in [of : Session \cup {NoId}, stale : BOOLEAN]
  BY LoadEffectTyped, NothingShown DEF PageInv, PageTyped, TabTyped, ServerSideHolds, RunRecord, Answer
<1>1. PageTyped'
  <2>1. TabTyped'
    <3>1. agentSession' \in [id : Session \cup {NoId}, messages : Seq(Nat)]
      BY NothingShown DEF PageInv, PageTyped, TabTyped, ServerSideHolds, Answer, RunRecord
    <3>2. sessionLoad' \in [of : Session \cup {NoId}, stale : BOOLEAN]
      BY <1>l DEF PageInv, PageTyped, TabTyped
    <3>3. /\ selectedProjectID' \in Project
          /\ sessionId' \in Session \cup {NoId} /\ localStorage' \in Session \cup {NoId}
          /\ activeRunId' \in Run \cup {NoId} /\ chatEventSource' \in Run \cup {NoId} /\ DOMAIN opened' \subseteq Run
      BY <3>1, NothingShown DEF PageInv, PageTyped, TabTyped, Answer
    <3>4. /\ chatLoading' \in BOOLEAN /\ chatRunning' \in BOOLEAN /\ chatRunningRef' \in BOOLEAN
          /\ sessionLoaded' \in BOOLEAN /\ strayed' \in BOOLEAN
      BY DEF PageInv, PageTyped, TabTyped
    <3>5. projectOf' \in [Session -> Project \cup {NoId}]
      BY DEF PageInv, PageTyped, TabTyped, Answer
    <3>. QED BY <3>1, <3>2, <3>3, <3>4, <3>5 DEF TabTyped
  <2>2. CountsTyped'
    BY PageConstants DEF PageInv, PageTyped, CountsTyped
  <2>3. awaiting' \subseteq Answer
    BY <1>l, ApartFromNoId DEF PageInv, PageTyped, TabTyped, Answer
  <2>. QED BY <2>1, <2>2, <2>3 DEF PageTyped
<1>2. ServerSideHolds'
  BY <1>l, ApartFromNoId, EmptyAscends
     DEF PageInv, PageTyped, TabTyped, ServerSideHolds, Numbered, RunRecord, Answer
<1>3. OneSession'
  BY <1>l, ApartFromNoId, NothingShown DEF PageInv, PageTyped, TabTyped, OneSession, ServerSideHolds, Answer
<1>4. StopReaches'
  BY <1>l, ApartFromNoId DEF PageInv, PageTyped, TabTyped, StopReaches
<1>5. ASSUME ~strayed' PROVE Undisturbed'
  <2>0. ~strayed /\ Undisturbed
    BY <1>5 DEF PageInv, PageTyped, TabTyped
  <2>1. OneRunFollowed'
    BY <1>l, <1>5, <2>0, ApartFromNoId
       DEF PageInv, PageTyped, TabTyped, Undisturbed, OneRunFollowed, QuestionsFit, StopReaches, Sending
  <2>2. QuestionsFit'
    <3>1. CASE UNCHANGED projectOf
      BY <3>1, <1>5, <2>0, NothingShown DEF PageInv, PageTyped, TabTyped, Undisturbed, QuestionsFit
    <3>2. CASE ~UNCHANGED projectOf
      <4>1. ~c.stale /\ projectOf' = [s \in Session |-> IF s = c.session THEN NoId ELSE projectOf[s]]
        BY <3>2, <1>5 DEF PageInv, PageTyped, TabTyped
      <4>2. \A d \in awaiting : ~d.stale => d.kind # "send" /\ ~chatRunning
        BY <4>1, <2>0 DEF Undisturbed, QuestionsFit
      <4>. QED BY <4>1, <4>2, <2>0 DEF PageInv, PageTyped, TabTyped, Answer, Undisturbed, QuestionsFit
    <3>. QED BY <3>1, <3>2
  <2>3. LoadFits'
    BY <1>l, <1>5, <2>0, ApartFromNoId, NothingShown
       DEF PageInv, PageTyped, TabTyped, Undisturbed, QuestionsFit, LoadFits, OneSession, RunFits,
           OneRunFollowed, Turned
  <2>4. RunFits'
    BY <1>l, <1>5, <2>0, ApartFromNoId, NothingShown
       DEF PageInv, PageTyped, TabTyped, Undisturbed, QuestionsFit, RunFits, Progress, ServerSideHolds,
           OneRunFollowed
  <2>5. ShownFits'
    BY <1>l, <1>5, <2>0, ApartFromNoId, EmptyAscends, WithinItself, NothingShown
       DEF PageInv, PageTyped, TabTyped, Undisturbed, QuestionsFit, LoadFits, ShownFits, ServerSideHolds,
           Numbered, OneSession, RunFits, OneRunFollowed
  <2>. QED BY <2>1, <2>2, <2>3, <2>4, <2>5 DEF Undisturbed
<1>. QED BY <1>1, <1>2, <1>3, <1>4, <1>5 DEF PageInv

LEMMA RunCreatedKeeps ==
  ASSUME PageInv, NEW c \in awaiting, NEW r \in Run, NEW s \in Session, RunCreated(c, r, s)
  PROVE  PageInv'
<1>. USE DEF RunCreated, Answered, LoadEffect
<1>l. sessionLoad' \in [of : Session \cup {NoId}, stale : BOOLEAN]
  BY LoadEffectTyped DEF PageInv, PageTyped, TabTyped
<1>r. /\ runOf'[r] \in RunRecord /\ runOf'[r].session = s /\ runOf'[r].state = "live"
      /\ runOf'[r].log = <<>> /\ runOf'[r].snapshot = <<>>
      /\ \A q \in Run \ {r} : runOf'[q] = runOf[q]
      /\ DOMAIN opened' = DOMAIN opened \cup {r} /\ opened'[r] = 0
      /\ \A q \in DOMAIN opened \ {r} : opened'[q] = opened[q]
  BY DEF PageInv, ServerSideHolds, RunRecord, NoRun
<1>1. PageTyped'
  <2>1. TabTyped'
    <3>1. agentSession' \in [id : Session \cup {NoId}, messages : Seq(Nat)]
      BY NothingShown DEF PageInv, PageTyped, TabTyped, ServerSideHolds, Answer, RunRecord
    <3>2. sessionLoad' \in [of : Session \cup {NoId}, stale : BOOLEAN]
      BY <1>l
    <3>. QED BY <3>1, <3>2, NothingShown
                DEF PageInv, PageTyped, TabTyped, OneSession, Answer, RunRecord, ServerSideHolds
  <2>2. CountsTyped'
    BY PageConstants DEF PageInv, PageTyped, CountsTyped
  <2>3. awaiting' \subseteq Answer
    BY <1>l, <1>r, ApartFromNoId DEF PageInv, PageTyped, TabTyped, Answer
  <2>. QED BY <2>1, <2>2, <2>3 DEF PageTyped
<1>2. ServerSideHolds'
  <2>1. runOf' \in [Run -> RunRecord]
    BY <1>r DEF PageInv, ServerSideHolds
  <2>. QED BY <2>1, <1>r, EmptyAscends, ApartFromNoId DEF PageInv, ServerSideHolds, Numbered
<1>3. OneSession'
  BY <1>l, <1>r, ApartFromNoId, NothingShown
     DEF PageInv, PageTyped, TabTyped, OneSession, ServerSideHolds, Answer
<1>4. StopReaches'
  BY <1>l, <1>r, ApartFromNoId DEF PageInv, PageTyped, TabTyped, StopReaches
<1>5. ASSUME ~strayed' PROVE Undisturbed'
  <2>0. ~strayed /\ Undisturbed
    BY <1>5 DEF PageInv, PageTyped, TabTyped
  <2>1. OneRunFollowed'
    BY <1>l, <1>r, <1>5, <2>0, ApartFromNoId
       DEF PageInv, PageTyped, TabTyped, Undisturbed, OneRunFollowed, QuestionsFit, StopReaches, Sending
  <2>2. QuestionsFit'
    BY <1>l, <1>r, <1>5, <2>0, ApartFromNoId, NothingShown
       DEF PageInv, PageTyped, TabTyped, Undisturbed, OneRunFollowed, QuestionsFit, LoadFits, ShownFits,
           OneSession, Sending
  <2>3. LoadFits'
    <3>1. sessionLoad' = NoLoad
      BY DEF PageInv, OneSession
    <3>2. sessionLoaded'
      OBVIOUS
    <3>3. NoLoad.of = NoId
      BY ONLY ApartFromNoId
    <3>. QED BY ONLY <3>1, <3>2, <3>3 DEF LoadFits
  <2>4. RunFits'
    <3>1. activeRunId' = r /\ sessionLoaded' /\ sessionId' = s
      OBVIOUS
    <3>2. DOMAIN runOf'[r].log = {} /\ opened'[r] % 2 # 1
      BY <1>r
    <3>3. Progress(r)'
      BY ONLY <3>2 DEF Progress, Ready
    <3>. QED BY <3>1, <3>3, <1>r, WithinItself DEF RunFits
  <2>5. ShownFits'
    <3>1. /\ agentSession' = [agentSession EXCEPT !.id = s]
          /\ agentSession \in [id : Session \cup {NoId}, messages : Seq(Nat)]
      BY DEF PageInv, PageTyped, TabTyped
    <3>2. ~c.stale /\ projectOf'[s] = selectedProjectID
      BY <1>5, <2>0 DEF PageInv, PageTyped, TabTyped, Undisturbed, QuestionsFit
    <3>3. agentSession.id \in {NoId, s}
      BY <3>2, <2>0 DEF Undisturbed, QuestionsFit
    <3>. QED BY <3>1, <3>2, <3>3, <2>0, WithinItself, ApartFromNoId DEF Undisturbed, ShownFits
  <2>. QED BY <2>1, <2>2, <2>3, <2>4, <2>5 DEF Undisturbed
<1>. QED BY <1>1, <1>2, <1>3, <1>4, <1>5 DEF PageInv

LEMMA LoadedKeeps == ASSUME PageInv, Loaded PROVE PageInv'
<1>. USE DEF Loaded, Exists
<1>1. PageTyped'
  <2>1. TabTyped'
    <3>1. agentSession' \in [id : Session \cup {NoId}, messages : Seq(Nat)]
      BY NothingShown DEF PageInv, PageTyped, TabTyped, ServerSideHolds, Answer, RunRecord
    <3>2. sessionLoad' \in [of : Session \cup {NoId}, stale : BOOLEAN]
      BY ApartFromNoId DEF PageInv
    <3>. QED BY <3>1, <3>2, NothingShown
                DEF PageInv, PageTyped, TabTyped, OneSession, Answer, RunRecord, ServerSideHolds
  <2>2. CountsTyped'
    BY PageConstants DEF PageInv, PageTyped, CountsTyped
  <2>3. awaiting' \subseteq Answer
    BY ApartFromNoId DEF PageInv, PageTyped, TabTyped, Answer
  <2>. QED BY <2>1, <2>2, <2>3 DEF PageTyped
<1>2. ServerSideHolds'
  BY ApartFromNoId, EmptyAscends DEF PageInv, PageTyped, TabTyped, ServerSideHolds, Numbered, RunRecord, Answer
<1>3. OneSession'
  BY ApartFromNoId, NothingShown DEF PageInv, PageTyped, TabTyped, OneSession, ServerSideHolds, Answer
<1>4. StopReaches'
  BY ApartFromNoId DEF PageInv, PageTyped, TabTyped, StopReaches
<1>5. ASSUME ~strayed' PROVE Undisturbed'
  <2>0. ~strayed /\ Undisturbed
    BY <1>5 DEF PageInv, PageTyped, TabTyped
  <2>1. OneRunFollowed'
    BY <1>5, <2>0, ApartFromNoId
       DEF PageInv, PageTyped, TabTyped, Undisturbed, OneRunFollowed, QuestionsFit, StopReaches, Sending
  <2>2. QuestionsFit'
    BY <1>5, <2>0, ApartFromNoId, NothingShown
       DEF PageInv, PageTyped, TabTyped, Undisturbed, OneRunFollowed, QuestionsFit, LoadFits, ShownFits,
           OneSession, Sending
  <2>3. LoadFits'
    BY <1>5, <2>0, ApartFromNoId, NothingShown
       DEF PageInv, PageTyped, TabTyped, Undisturbed, QuestionsFit, LoadFits, OneSession, RunFits,
           OneRunFollowed, Turned
  <2>4. RunFits'
    <3>1. ~chatRunning
      BY <2>0 DEF PageInv, OneSession, Undisturbed, RunFits
    <3>. QED BY <3>1 DEF RunFits
  <2>5. ShownFits'
    BY <1>5, <2>0, ApartFromNoId, EmptyAscends, WithinItself, NothingShown
       DEF PageInv, PageTyped, TabTyped, Undisturbed, QuestionsFit, LoadFits, ShownFits, ServerSideHolds,
           Numbered, OneSession, RunFits, OneRunFollowed
  <2>. QED BY <2>1, <2>2, <2>3, <2>4, <2>5 DEF Undisturbed
<1>. QED BY <1>1, <1>2, <1>3, <1>4, <1>5 DEF PageInv

LEMMA RunWorksKeeps == ASSUME PageInv, NEW r \in Run, RunWorks(r) PROVE PageInv'
<1>. USE DEF RunWorks
<1>w. LET s == runOf[r].session  m == numbered + 1
      IN  /\ s \in Session /\ m \in Nat /\ numbered' = m
          /\ messagesOf' = [messagesOf EXCEPT ![s] = Append(messagesOf[s], m)]
          /\ runOf' = [runOf EXCEPT ![r] = [runOf[r] EXCEPT !.log = Append(runOf[r].log, m)]]
  BY DEF PageInv, PageTyped, CountsTyped, ServerSideHolds, RunRecord
<1>1. PageTyped'
  <2>1. TabTyped'
    <3>1. agentSession' \in [id : Session \cup {NoId}, messages : Seq(Nat)]
      BY NothingShown DEF PageInv, PageTyped, TabTyped, ServerSideHolds, Answer, RunRecord
    <3>2. sessionLoad' \in [of : Session \cup {NoId}, stale : BOOLEAN]
      BY DEF PageInv, PageTyped, TabTyped
    <3>. QED BY <3>1, <3>2, NothingShown
                DEF PageInv, PageTyped, TabTyped, OneSession, Answer, RunRecord, ServerSideHolds
  <2>2. CountsTyped'
    BY PageConstants DEF PageInv, PageTyped, CountsTyped
  <2>3. awaiting' \subseteq Answer
    BY <1>w, ApartFromNoId DEF PageInv, PageTyped, TabTyped, Answer
  <2>. QED BY <2>1, <2>2, <2>3 DEF PageTyped
<1>2. ServerSideHolds'
  <2>1. messagesOf' \in [Session -> Seq(Nat)] /\ \A s \in Session : Numbered(messagesOf[s])'
    <3>1. ASSUME NEW s \in Session PROVE messagesOf'[s] \in Seq(Nat) /\ Numbered(messagesOf[s])'
      <4>1. messagesOf[s] \in Seq(Nat) /\ Numbered(messagesOf[s]) /\ numbered \in Nat /\ numbered' = numbered + 1
        BY <1>w DEF PageInv, ServerSideHolds, PageTyped, CountsTyped
      <4>2. messagesOf'[s] = messagesOf[s] \/ messagesOf'[s] = Append(messagesOf[s], numbered + 1)
        BY <1>w DEF PageInv, ServerSideHolds
      <4>3. CASE messagesOf'[s] = messagesOf[s]
        BY ONLY <4>1, <4>3 DEF Numbered
      <4>4. CASE messagesOf'[s] = Append(messagesOf[s], numbered + 1)
        BY ONLY <4>1, <4>4, AppendedOne DEF Numbered, Ascending
      <4>. QED BY <4>2, <4>3, <4>4
    <3>. QED BY <3>1, <1>w DEF PageInv, ServerSideHolds
  <2>2. ASSUME NEW q \in Run
        PROVE  /\ runOf'[q] \in RunRecord /\ Numbered(runOf[q].log)' /\ runOf'[q].snapshot = runOf[q].snapshot
               /\ runOf'[q].state = runOf[q].state /\ runOf'[q].session = runOf[q].session
    <3>1. runOf[q] \in RunRecord /\ Numbered(runOf[q].log) /\ numbered \in Nat /\ numbered' = numbered + 1
      BY <1>w DEF PageInv, ServerSideHolds, PageTyped, CountsTyped
    <3>2. CASE q = r
      <4>1. runOf'[q] = [runOf[q] EXCEPT !.log = Append(runOf[q].log, numbered + 1)]
        BY <3>2, <1>w DEF PageInv, ServerSideHolds
      <4>. DEFINE log == runOf[q].log  longer == Append(log, numbered + 1)
      <4>2. log \in Seq(Nat) /\ numbered + 1 \in Nat /\ Ascending(log) /\ \A i \in DOMAIN log : log[i] <= numbered
        BY <3>1 DEF Numbered, Ascending, RunRecord
      <4>3. \A i \in DOMAIN log : log[i] \in Nat /\ log[i] < numbered + 1
        BY <3>1, <4>2
      <4>4. /\ longer \in Seq(Nat) /\ Ascending(longer) /\ DOMAIN longer = DOMAIN log \cup {Len(log) + 1}
            /\ longer[Len(log) + 1] = numbered + 1 /\ \A i \in DOMAIN log : longer[i] = log[i]
        BY <4>2, <4>3, AppendedOne
      <4>. HIDE DEF longer
      <4>5. \A i \in DOMAIN longer : longer[i] <= numbered + 1
        BY <3>1, <4>3, <4>4
      <4>6. runOf'[q] \in RunRecord /\ runOf'[q].log = longer
        <5>1. longer \in Seq(Nat) /\ runOf'[q] = [runOf[q] EXCEPT !.log = longer]
          BY <4>1, <4>4 DEF longer
        <5>. QED BY ONLY <3>1, <5>1 DEF RunRecord
      <4>7. Numbered(runOf[q].log)'
        BY <3>1, <4>4, <4>5, <4>6 DEF Numbered, Ascending
      <4>8. /\ runOf'[q].snapshot = runOf[q].snapshot
            /\ runOf'[q].state = runOf[q].state /\ runOf'[q].session = runOf[q].session
        BY <3>1, <4>1 DEF RunRecord
      <4>. QED BY <4>6, <4>7, <4>8
    <3>3. CASE q # r
      BY <3>1, <3>3, <1>w DEF PageInv, ServerSideHolds, Numbered, Ascending
    <3>. QED BY <3>2, <3>3
  <2>3. runOf' \in [Run -> RunRecord]
    BY <1>w, <2>2 DEF PageInv, ServerSideHolds
  <2>4. \A q \in Run : /\ Numbered(runOf[q].log)' /\ Ascending(runOf'[q].snapshot)
                       /\ runOf'[q].state # "none" => runOf'[q].session # NoId
    BY <2>2 DEF PageInv, ServerSideHolds
  <2>5. \A q \in DOMAIN opened' : opened'[q] \in Nat /\ runOf'[q].state # "none"
    BY <1>w, <2>2 DEF PageInv, PageTyped, TabTyped, ServerSideHolds
  <2>. QED BY <2>1, <2>3, <2>4, <2>5 DEF ServerSideHolds
<1>3. OneSession'
  BY <1>w, ApartFromNoId, NothingShown DEF PageInv, PageTyped, TabTyped, OneSession, ServerSideHolds, Answer
<1>4. StopReaches'
  BY <1>w, ApartFromNoId DEF PageInv, PageTyped, TabTyped, StopReaches
<1>5. ASSUME ~strayed' PROVE Undisturbed'
  <2>0. ~strayed /\ Undisturbed
    BY <1>5 DEF PageInv, PageTyped, TabTyped
  <2>1. OneRunFollowed'
    BY <1>w, <1>5, <2>0, ApartFromNoId
       DEF PageInv, PageTyped, TabTyped, Undisturbed, OneRunFollowed, QuestionsFit, StopReaches, Sending
  <2>2. QuestionsFit'
    BY <1>w, <1>5, <2>0, ApartFromNoId, NothingShown
       DEF PageInv, PageTyped, TabTyped, Undisturbed, OneRunFollowed, QuestionsFit, LoadFits, ShownFits,
           OneSession, Sending
  <2>3. LoadFits'
    BY <1>w, <1>5, <2>0, ApartFromNoId, NothingShown
       DEF PageInv, PageTyped, TabTyped, Undisturbed, QuestionsFit, LoadFits, OneSession, RunFits,
           OneRunFollowed, Turned
  <2>4. RunFits'
    <3>1. CASE chatRunning
      <4>1. /\ activeRunId \in Run /\ activeRunId \in DOMAIN opened
            /\ runOf[activeRunId].session = sessionId /\ sessionId \in Session
        BY <3>1, <2>0, ApartFromNoId
           DEF PageInv, PageTyped, TabTyped, StopReaches, Undisturbed, RunFits, OneSession
      <4>2. Within(messagesOf[sessionId], messagesOf'[sessionId])
        BY <4>1, <1>w, AppendedOne, WithinItself DEF PageInv, ServerSideHolds
      <4>3. CASE activeRunId # r
        <5>1. runOf'[activeRunId] = runOf[activeRunId]
          BY <4>1, <4>3, <1>w
        <5>2. Progress(activeRunId)'
          BY <5>1, <3>1, <2>0 DEF Undisturbed, RunFits, Progress
        <5>. QED BY <5>1, <5>2, <4>2, <3>1, <2>0, WithinItself DEF Undisturbed, RunFits
      <4>4. CASE activeRunId = r
        <5>. DEFINE log == runOf[r].log  m == numbered + 1  shown == agentSession.messages
        <5>0. r \in Run /\ runOf[r] \in RunRecord /\ runOf'[r] = [runOf[r] EXCEPT !.log = Append(log, m)]
          BY <1>w DEF PageInv, ServerSideHolds
        <5>1. /\ log \in Seq(Nat) /\ m \in Nat /\ messagesOf[sessionId] \in Seq(Nat) /\ shown \in Seq(Nat)
              /\ runOf'[r].log = Append(log, m) /\ runOf'[r].session = sessionId /\ runOf'[r].state = "live"
              /\ messagesOf'[sessionId] = Append(messagesOf[sessionId], m)
          BY <4>1, <4>4, <5>0, <1>w DEF PageInv, PageTyped, TabTyped, CountsTyped, ServerSideHolds, RunRecord
        <5>2. Within(log, messagesOf[sessionId])
          BY <4>4, <3>1, <2>0 DEF Undisturbed, RunFits
        <5>3. Within(Append(log, m), Append(messagesOf[sessionId], m))
          BY <5>1, <5>2, WithinLonger
        <5>4. \A i \in DOMAIN shown : shown[i] < m
          <6>1. agentSession.id = sessionId /\ sessionId # NoId
            BY <4>1, <3>1, <2>0, ApartFromNoId DEF PageInv, OneSession, Undisturbed, RunFits
          <6>2. Within(shown, messagesOf[sessionId]) /\ Numbered(messagesOf[sessionId])
            BY <6>1, <4>1, <2>0 DEF Undisturbed, ShownFits, PageInv, ServerSideHolds
          <6>3. numbered \in Nat
            BY DEF PageInv, PageTyped, CountsTyped
          <6>. QED BY <6>2, <6>3, <5>1 DEF Within, Numbered
        <5>5. Progress(r)
          BY <4>4, <3>1, <2>0 DEF Undisturbed, RunFits
        <5>6. Progress(r)'
          <6>1. opened[r] \in Nat /\ opened' = opened /\ agentSession' = agentSession
            BY <4>1, <4>4 DEF PageInv, ServerSideHolds
          <6>. QED BY <6>1, <5>1, <5>4, <5>5, ReadyForMore DEF Progress
        <5>. QED BY <5>1, <5>3, <5>6, <4>4, <3>1, <2>0 DEF Undisturbed, RunFits
      <4>. QED BY <4>3, <4>4
    <3>. QED BY <3>1 DEF RunFits
  <2>5. ShownFits'
    <3>1. \A s \in Session : Within(messagesOf[s], messagesOf'[s])
      BY <1>w, AppendedOne, WithinItself DEF PageInv, ServerSideHolds
    <3>2. agentSession.id \in Session \cup {NoId}
      BY DEF PageInv, PageTyped, TabTyped
    <3>. QED BY <3>1, <3>2, <2>0, WithinItself DEF Undisturbed, ShownFits
  <2>. QED BY <2>1, <2>2, <2>3, <2>4, <2>5 DEF Undisturbed
<1>. QED BY <1>1, <1>2, <1>3, <1>4, <1>5 DEF PageInv

LEMMA FinishKeeps == ASSUME PageInv, NEW r \in Run, Finish(r) PROVE PageInv'
<1>. USE DEF Finish
<1>f. /\ runOf[r].session \in Session /\ runOf[r].state = "live"
      /\ runOf'[r] \in RunRecord /\ runOf'[r].session = runOf[r].session /\ runOf'[r].state = "over"
      /\ runOf'[r].log = runOf[r].log /\ runOf'[r].snapshot = messagesOf[runOf[r].session]
      /\ \A q \in Run \ {r} : runOf'[q] = runOf[q]
      /\ runOf' \in [Run -> RunRecord]
  <2>1. /\ runOf \in [Run -> RunRecord] /\ runOf[r].state = "live" /\ runOf[r].session \in Session
        /\ messagesOf[runOf[r].session] \in Seq(Nat)
    BY DEF PageInv, ServerSideHolds, RunRecord
  <2>2. runOf' = [runOf EXCEPT ![r] = [runOf[r] EXCEPT !.state = "over", !.snapshot = messagesOf[runOf[r].session]]]
    BY <2>1
  <2>3. runOf[r] \in RunRecord
    BY <2>1
  <2>4. [runOf[r] EXCEPT !.state = "over", !.snapshot = messagesOf[runOf[r].session]] \in RunRecord
    BY ONLY <2>1, <2>3 DEF RunRecord
  <2>. QED BY ONLY <2>1, <2>2, <2>3, <2>4 DEF RunRecord
<1>1. PageTyped'
  <2>1. TabTyped'
    <3>1. agentSession' \in [id : Session \cup {NoId}, messages : Seq(Nat)]
      BY NothingShown DEF PageInv, PageTyped, TabTyped, ServerSideHolds, Answer, RunRecord
    <3>2. sessionLoad' \in [of : Session \cup {NoId}, stale : BOOLEAN]
      BY DEF PageInv, PageTyped, TabTyped
    <3>. QED BY <3>1, <3>2, NothingShown
                DEF PageInv, PageTyped, TabTyped, OneSession, Answer, RunRecord, ServerSideHolds
  <2>2. CountsTyped'
    BY PageConstants DEF PageInv, PageTyped, CountsTyped
  <2>3. awaiting' \subseteq Answer
    BY <1>f, ApartFromNoId DEF PageInv, PageTyped, TabTyped, Answer
  <2>. QED BY <2>1, <2>2, <2>3 DEF PageTyped
<1>2. ServerSideHolds'
  <2>1. ASSUME NEW q \in Run
        PROVE  /\ Numbered(runOf[q].log)' /\ Ascending(runOf'[q].snapshot)
               /\ runOf'[q].state # "none" => runOf'[q].session # NoId
    <3>1. CASE q = r
      BY <3>1, <1>f, ApartFromNoId DEF PageInv, ServerSideHolds, Numbered
    <3>2. CASE q # r
      BY <3>2, <1>f DEF PageInv, ServerSideHolds, Numbered
    <3>. QED BY <3>1, <3>2
  <2>2. \A q \in DOMAIN opened : opened[q] \in Nat /\ runOf'[q].state # "none"
    BY <1>f DEF PageInv, PageTyped, TabTyped, ServerSideHolds
  <2>. QED BY <2>1, <2>2, <1>f DEF PageInv, ServerSideHolds, Numbered
<1>3. OneSession'
  BY <1>f, ApartFromNoId, NothingShown DEF PageInv, PageTyped, TabTyped, OneSession, ServerSideHolds, Answer
<1>4. StopReaches'
  BY <1>f, ApartFromNoId DEF PageInv, PageTyped, TabTyped, StopReaches
<1>5. ASSUME ~strayed' PROVE Undisturbed'
  <2>0. ~strayed /\ Undisturbed
    BY <1>5 DEF PageInv, PageTyped, TabTyped
  <2>1. OneRunFollowed'
    BY <1>f, <1>5, <2>0, ApartFromNoId
       DEF PageInv, PageTyped, TabTyped, Undisturbed, OneRunFollowed, QuestionsFit, StopReaches, Sending
  <2>2. QuestionsFit'
    BY <1>f, <1>5, <2>0, ApartFromNoId, NothingShown
       DEF PageInv, PageTyped, TabTyped, Undisturbed, OneRunFollowed, QuestionsFit, LoadFits, ShownFits,
           OneSession, Sending
  <2>3. LoadFits'
    BY <1>f, <1>5, <2>0, ApartFromNoId, NothingShown
       DEF PageInv, PageTyped, TabTyped, Undisturbed, QuestionsFit, LoadFits, OneSession, RunFits,
           OneRunFollowed, Turned
  <2>4. RunFits'
    <3>1. CASE chatRunning
      <4>1. /\ activeRunId \in Run /\ activeRunId \in DOMAIN opened
            /\ runOf[activeRunId].session = sessionId /\ sessionId \in Session
        BY <3>1, <2>0, ApartFromNoId
           DEF PageInv, PageTyped, TabTyped, StopReaches, Undisturbed, RunFits, OneSession
      <4>2. Progress(activeRunId)'
        BY <4>1, <3>1, <2>0, <1>f DEF Undisturbed, RunFits, Progress
      <4>3. runOf'[activeRunId].state = "over" => Within(runOf'[activeRunId].snapshot, messagesOf[sessionId])
        BY <4>1, <3>1, <2>0, <1>f, WithinItself DEF Undisturbed, RunFits
      <4>. QED BY <4>1, <4>2, <4>3, <3>1, <2>0, <1>f DEF Undisturbed, RunFits
    <3>. QED BY <3>1 DEF RunFits
  <2>5. ShownFits'
    BY <1>f, <1>5, <2>0, ApartFromNoId, EmptyAscends, WithinItself, NothingShown
       DEF PageInv, PageTyped, TabTyped, Undisturbed, QuestionsFit, LoadFits, ShownFits, ServerSideHolds,
           Numbered, OneSession, RunFits, OneRunFollowed
  <2>. QED BY <2>1, <2>2, <2>3, <2>4, <2>5 DEF Undisturbed
<1>. QED BY <1>1, <1>2, <1>3, <1>4, <1>5 DEF PageInv

LEMMA StopRunKeeps == ASSUME PageInv, StopRun PROVE PageInv'
<1>. USE DEF StopRun, Click, AbortRun, CloseRunStream, Closed, Idle
<1>1. PageTyped'
  <2>1. TabTyped'
    <3>1. agentSession' \in [id : Session \cup {NoId}, messages : Seq(Nat)]
      BY NothingShown DEF PageInv, PageTyped, TabTyped, ServerSideHolds, Answer, RunRecord
    <3>2. sessionLoad' \in [of : Session \cup {NoId}, stale : BOOLEAN]
      BY DEF PageInv, PageTyped, TabTyped
    <3>. QED BY <3>1, <3>2, NothingShown
                DEF PageInv, PageTyped, TabTyped, OneSession, Answer, RunRecord, ServerSideHolds
  <2>2. CountsTyped'
    BY PageConstants DEF PageInv, PageTyped, CountsTyped
  <2>3. awaiting' \subseteq Answer
    BY ApartFromNoId DEF PageInv, PageTyped, TabTyped, Answer
  <2>. QED BY <2>1, <2>2, <2>3 DEF PageTyped
<1>2. ServerSideHolds'
  BY ApartFromNoId, EmptyAscends DEF PageInv, PageTyped, TabTyped, ServerSideHolds, Numbered, RunRecord, Answer
<1>3. OneSession'
  BY ApartFromNoId, NothingShown DEF PageInv, PageTyped, TabTyped, OneSession, ServerSideHolds, Answer
<1>4. StopReaches'
  BY ApartFromNoId DEF PageInv, PageTyped, TabTyped, StopReaches
<1>5. ASSUME ~strayed' PROVE Undisturbed'
  <2>0. ~strayed /\ Undisturbed
    BY <1>5 DEF PageInv, PageTyped, TabTyped
  <2>1. OneRunFollowed'
    BY <1>5, <2>0, ApartFromNoId
       DEF PageInv, PageTyped, TabTyped, Undisturbed, OneRunFollowed, QuestionsFit, StopReaches, Sending
  <2>2. QuestionsFit'
    BY <1>5, <2>0, ApartFromNoId, NothingShown
       DEF PageInv, PageTyped, TabTyped, Undisturbed, OneRunFollowed, QuestionsFit, LoadFits, ShownFits,
           OneSession, Sending
  <2>3. LoadFits'
    BY <1>5, <2>0, ApartFromNoId, NothingShown
       DEF PageInv, PageTyped, TabTyped, Undisturbed, QuestionsFit, LoadFits, OneSession, RunFits,
           OneRunFollowed, Turned
  <2>4. RunFits'
    BY <1>5, <2>0, ApartFromNoId, NothingShown
       DEF PageInv, PageTyped, TabTyped, Undisturbed, QuestionsFit, RunFits, Progress, ServerSideHolds,
           OneRunFollowed
  <2>5. ShownFits'
    BY <1>5, <2>0, ApartFromNoId, EmptyAscends, WithinItself, NothingShown
       DEF PageInv, PageTyped, TabTyped, Undisturbed, QuestionsFit, LoadFits, ShownFits, ServerSideHolds,
           Numbered, OneSession, RunFits, OneRunFollowed
  <2>. QED BY <2>1, <2>2, <2>3, <2>4, <2>5 DEF Undisturbed
<1>. QED BY <1>1, <1>2, <1>3, <1>4, <1>5 DEF PageInv

LEMMA SendFailsKeeps == ASSUME PageInv, NEW c \in awaiting, SendFails(c) PROVE PageInv'
<1>. USE DEF SendFails, Idle, Answered
<1>1. PageTyped'
  <2>1. TabTyped'
    <3>1. agentSession' \in [id : Session \cup {NoId}, messages : Seq(Nat)]
      BY NothingShown DEF PageInv, PageTyped, TabTyped, ServerSideHolds, Answer, RunRecord
    <3>2. sessionLoad' \in [of : Session \cup {NoId}, stale : BOOLEAN]
      BY DEF PageInv, PageTyped, TabTyped
    <3>. QED BY <3>1, <3>2, NothingShown
                DEF PageInv, PageTyped, TabTyped, OneSession, Answer, RunRecord, ServerSideHolds
  <2>2. CountsTyped'
    BY PageConstants DEF PageInv, PageTyped, CountsTyped
  <2>3. awaiting' \subseteq Answer
    BY ApartFromNoId DEF PageInv, PageTyped, TabTyped, Answer
  <2>. QED BY <2>1, <2>2, <2>3 DEF PageTyped
<1>2. ServerSideHolds'
  BY ApartFromNoId, EmptyAscends DEF PageInv, PageTyped, TabTyped, ServerSideHolds, Numbered, RunRecord, Answer
<1>3. OneSession'
  BY ApartFromNoId, NothingShown DEF PageInv, PageTyped, TabTyped, OneSession, ServerSideHolds, Answer
<1>4. StopReaches'
  BY ApartFromNoId DEF PageInv, PageTyped, TabTyped, StopReaches
<1>5. ASSUME ~strayed' PROVE Undisturbed'
  <2>0. ~strayed /\ Undisturbed
    BY <1>5 DEF PageInv, PageTyped, TabTyped
  <2>1. OneRunFollowed'
    BY <1>5, <2>0, ApartFromNoId
       DEF PageInv, PageTyped, TabTyped, Undisturbed, OneRunFollowed, QuestionsFit, StopReaches, Sending
  <2>2. QuestionsFit'
    BY <1>5, <2>0, ApartFromNoId, NothingShown
       DEF PageInv, PageTyped, TabTyped, Undisturbed, OneRunFollowed, QuestionsFit, LoadFits, ShownFits,
           OneSession, Sending
  <2>3. LoadFits'
    BY <1>5, <2>0, ApartFromNoId, NothingShown
       DEF PageInv, PageTyped, TabTyped, Undisturbed, QuestionsFit, LoadFits, OneSession, RunFits,
           OneRunFollowed, Turned
  <2>4. RunFits'
    BY <1>5, <2>0, ApartFromNoId, NothingShown
       DEF PageInv, PageTyped, TabTyped, Undisturbed, QuestionsFit, RunFits, Progress, ServerSideHolds,
           OneRunFollowed
  <2>5. ShownFits'
    BY <1>5, <2>0, ApartFromNoId, EmptyAscends, WithinItself, NothingShown
       DEF PageInv, PageTyped, TabTyped, Undisturbed, QuestionsFit, LoadFits, ShownFits, ServerSideHolds,
           Numbered, OneSession, RunFits, OneRunFollowed
  <2>. QED BY <2>1, <2>2, <2>3, <2>4, <2>5 DEF Undisturbed
<1>. QED BY <1>1, <1>2, <1>3, <1>4, <1>5 DEF PageInv

LEMMA StreamBreaksKeeps == ASSUME PageInv, NEW r \in Run, StreamBreaks(r) PROVE PageInv'
<1>. USE DEF StreamBreaks, Idle, CloseRunStream, Closed
<1>1. PageTyped'
  <2>1. TabTyped'
    <3>1. agentSession' \in [id : Session \cup {NoId}, messages : Seq(Nat)]
      BY NothingShown DEF PageInv, PageTyped, TabTyped, ServerSideHolds, Answer, RunRecord
    <3>2. sessionLoad' \in [of : Session \cup {NoId}, stale : BOOLEAN]
      BY DEF PageInv, PageTyped, TabTyped
    <3>. QED BY <3>1, <3>2, NothingShown
                DEF PageInv, PageTyped, TabTyped, OneSession, Answer, RunRecord, ServerSideHolds
  <2>2. CountsTyped'
    BY PageConstants DEF PageInv, PageTyped, CountsTyped
  <2>3. awaiting' \subseteq Answer
    BY ApartFromNoId DEF PageInv, PageTyped, TabTyped, Answer
  <2>. QED BY <2>1, <2>2, <2>3 DEF PageTyped
<1>2. ServerSideHolds'
  BY ApartFromNoId, EmptyAscends DEF PageInv, PageTyped, TabTyped, ServerSideHolds, Numbered, RunRecord, Answer
<1>3. OneSession'
  BY ApartFromNoId, NothingShown DEF PageInv, PageTyped, TabTyped, OneSession, ServerSideHolds, Answer
<1>4. StopReaches'
  BY ApartFromNoId DEF PageInv, PageTyped, TabTyped, StopReaches
<1>5. ASSUME ~strayed' PROVE Undisturbed'
  <2>0. ~strayed /\ Undisturbed
    BY <1>5 DEF PageInv, PageTyped, TabTyped
  <2>1. OneRunFollowed'
    BY <1>5, <2>0, ApartFromNoId
       DEF PageInv, PageTyped, TabTyped, Undisturbed, OneRunFollowed, QuestionsFit, StopReaches, Sending
  <2>2. QuestionsFit'
    BY <1>5, <2>0, ApartFromNoId, NothingShown
       DEF PageInv, PageTyped, TabTyped, Undisturbed, OneRunFollowed, QuestionsFit, LoadFits, ShownFits,
           OneSession, Sending
  <2>3. LoadFits'
    BY <1>5, <2>0, ApartFromNoId, NothingShown
       DEF PageInv, PageTyped, TabTyped, Undisturbed, QuestionsFit, LoadFits, OneSession, RunFits,
           OneRunFollowed, Turned
  <2>4. RunFits'
    BY <1>5, <2>0, ApartFromNoId, NothingShown
       DEF PageInv, PageTyped, TabTyped, Undisturbed, QuestionsFit, RunFits, Progress, ServerSideHolds,
           OneRunFollowed
  <2>5. ShownFits'
    BY <1>5, <2>0, ApartFromNoId, EmptyAscends, WithinItself, NothingShown
       DEF PageInv, PageTyped, TabTyped, Undisturbed, QuestionsFit, LoadFits, ShownFits, ServerSideHolds,
           Numbered, OneSession, RunFits, OneRunFollowed
  <2>. QED BY <2>1, <2>2, <2>3, <2>4, <2>5 DEF Undisturbed
<1>. QED BY <1>1, <1>2, <1>3, <1>4, <1>5 DEF PageInv

LEMMA EventArrivesKeeps == ASSUME PageInv, NEW r \in Run, EventArrives(r) PROVE PageInv'
<1>. USE DEF EventArrives
<1>e. /\ opened[r] \in Nat /\ r \in DOMAIN opened /\ opened' = [opened EXCEPT ![r] = opened[r] + 1]
      /\ opened[r] \div 2 + 1 \in DOMAIN runOf[r].log
      /\ LET m == runOf[r].log[opened[r] \div 2 + 1]
         IN  /\ m \in Nat
             /\ agentSession' = [agentSession EXCEPT !.messages = Upsert(agentSession.messages, m)]
  <2>1. opened[r] \in Nat /\ r \in DOMAIN opened /\ runOf[r].log \in Seq(Nat) /\ opened[r] < 2 * Len(runOf[r].log)
    BY DEF PageInv, ServerSideHolds, RunRecord, Events
  <2>2. opened[r] \div 2 + 1 \in 1 .. Len(runOf[r].log)
    BY <2>1
  <2>3. runOf[r].log[opened[r] \div 2 + 1] \in Nat
    BY ONLY <2>1, <2>2
  <2>4. /\ opened' = [opened EXCEPT ![r] = opened[r] + 1]
        /\ agentSession' = [agentSession EXCEPT !.messages =
                              Upsert(agentSession.messages, runOf[r].log[opened[r] \div 2 + 1])]
    OBVIOUS
  <2>5. DOMAIN runOf[r].log = 1 .. Len(runOf[r].log)
    BY ONLY <2>1
  <2>. QED BY ONLY <2>1, <2>2, <2>3, <2>4, <2>5
<1>1. PageTyped'
  <2>1. TabTyped'
    <3>1. agentSession' \in [id : Session \cup {NoId}, messages : Seq(Nat)]
      <4>1. Upsert(agentSession.messages, runOf[r].log[opened[r] \div 2 + 1]) \in Seq(Nat)
        BY <1>e DEF Upsert, PageInv, PageTyped, TabTyped
      <4>. QED BY <1>e, <4>1 DEF PageInv, PageTyped, TabTyped
    <3>2. sessionLoad' \in [of : Session \cup {NoId}, stale : BOOLEAN]
      BY DEF PageInv, PageTyped, TabTyped
    <3>. QED BY <3>1, <3>2, NothingShown
                DEF PageInv, PageTyped, TabTyped, OneSession, Answer, RunRecord, ServerSideHolds
  <2>2. CountsTyped'
    BY PageConstants DEF PageInv, PageTyped, CountsTyped
  <2>3. awaiting' \subseteq Answer
    BY <1>e, ApartFromNoId DEF PageInv, PageTyped, TabTyped, Answer
  <2>. QED BY <2>1, <2>2, <2>3 DEF PageTyped
<1>2. ServerSideHolds'
  BY <1>e DEF PageInv, PageTyped, TabTyped, ServerSideHolds, Numbered
<1>3. OneSession'
  BY <1>e, ApartFromNoId, NothingShown DEF PageInv, PageTyped, TabTyped, OneSession, ServerSideHolds, Answer
<1>4. StopReaches'
  BY <1>e, ApartFromNoId DEF PageInv, PageTyped, TabTyped, StopReaches
<1>5. ASSUME ~strayed' PROVE Undisturbed'
  <2>0. ~strayed /\ Undisturbed
    BY <1>5 DEF PageInv, PageTyped, TabTyped
  <2>1. OneRunFollowed'
    BY <1>e, <1>5, <2>0, ApartFromNoId
       DEF PageInv, PageTyped, TabTyped, Undisturbed, OneRunFollowed, QuestionsFit, StopReaches, Sending
  <2>2. QuestionsFit'
    BY <1>e, <1>5, <2>0, ApartFromNoId, NothingShown
       DEF PageInv, PageTyped, TabTyped, Undisturbed, OneRunFollowed, QuestionsFit, LoadFits, ShownFits,
           OneSession, Sending
  <2>3. LoadFits'
    BY <1>e, <1>5, <2>0, ApartFromNoId, NothingShown
       DEF PageInv, PageTyped, TabTyped, Undisturbed, QuestionsFit, LoadFits, OneSession, RunFits,
           OneRunFollowed, Turned
  <2>4. RunFits'
    <3>0. chatRunning /\ activeRunId = r
      BY <2>0, <1>e DEF Undisturbed, OneRunFollowed
    <3>. DEFINE n == opened[r]  log == runOf[r].log  shown == agentSession.messages  m == log[n \div 2 + 1]
    <3>1. /\ Ascending(log) /\ Ascending(shown) /\ n \in Nat /\ n \div 2 + 1 \in DOMAIN log
      BY <1>e, <2>0 DEF PageInv, ServerSideHolds, Numbered, Undisturbed, ShownFits
    <3>2. Ready(shown, log, n)
      BY <3>0, <2>0 DEF Undisturbed, RunFits, Progress
    <3>3. agentSession'.messages = Upsert(shown, m) /\ agentSession'.id = agentSession.id /\ opened'[r] = n + 1
      BY <1>e DEF PageInv, PageTyped, TabTyped
    <3>4. Progress(r)'
      BY <3>1, <3>2, <3>3, EventShown DEF Progress
    <3>. QED BY <3>4, <3>0, <2>0 DEF Undisturbed, RunFits
  <2>5. ShownFits'
    <3>0. chatRunning /\ activeRunId = r
      BY <2>0, <1>e DEF Undisturbed, OneRunFollowed
    <3>. DEFINE n == opened[r]  log == runOf[r].log  shown == agentSession.messages  m == log[n \div 2 + 1]
    <3>1. /\ Ascending(log) /\ Ascending(shown) /\ n \in Nat /\ n \div 2 + 1 \in DOMAIN log
      BY <1>e, <2>0 DEF PageInv, ServerSideHolds, Numbered, Undisturbed, ShownFits
    <3>2. Ready(shown, log, n)
      BY <3>0, <2>0 DEF Undisturbed, RunFits, Progress
    <3>3. agentSession'.messages = Upsert(shown, m) /\ agentSession'.id = agentSession.id /\ opened'[r] = n + 1
      BY <1>e DEF PageInv, PageTyped, TabTyped
    <3>4. agentSession.id = sessionId /\ sessionId # NoId /\ Within(log, messagesOf[sessionId])
      BY <3>0, <2>0 DEF Undisturbed, RunFits, PageInv, OneSession
    <3>5. Ascending(agentSession'.messages) /\ Within(agentSession'.messages, messagesOf[sessionId])
      BY <3>1, <3>2, <3>3, <3>4, <2>0, EventShown DEF Undisturbed, ShownFits
    <3>. QED BY <3>3, <3>4, <3>5, <2>0 DEF Undisturbed, ShownFits
  <2>. QED BY <2>1, <2>2, <2>3, <2>4, <2>5 DEF Undisturbed
<1>. QED BY <1>1, <1>2, <1>3, <1>4, <1>5 DEF PageInv

LEMMA RunOverKeeps == ASSUME PageInv, NEW r \in Run, RunOver(r) PROVE PageInv'
<1>. USE DEF RunOver, Events, Show, Idle, CloseRunStream, Closed, LoadEffect
<1>l. sessionLoad' \in [of : Session \cup {NoId}, stale : BOOLEAN]
  BY LoadEffectTyped, NothingShown DEF PageInv, PageTyped, TabTyped, ServerSideHolds, RunRecord, Answer
<1>c. /\ sessionId' \in Session \cup {NoId} /\ localStorage' = sessionId' /\ sessionLoaded' = sessionLoaded
      /\ activeRunId' = NoId /\ chatEventSource' \in Run \cup {NoId} /\ DOMAIN opened' \subseteq Run
      /\ UNCHANGED <<selectedProjectID, projectOf, strayed>>
  BY DEF PageInv, PageTyped, TabTyped, ServerSideHolds, RunRecord
<1>1. PageTyped'
  <2>1. TabTyped'
    <3>1. agentSession' \in [id : Session \cup {NoId}, messages : Seq(Nat)]
      BY NothingShown DEF PageInv, PageTyped, TabTyped, ServerSideHolds, Answer, RunRecord
    <3>2. sessionLoad' \in [of : Session \cup {NoId}, stale : BOOLEAN]
      BY <1>l DEF PageInv, PageTyped, TabTyped
    <3>. QED BY <1>c, <3>1, <3>2, NothingShown
                DEF PageInv, PageTyped, TabTyped, OneSession, Answer, RunRecord, ServerSideHolds
  <2>2. CountsTyped'
    BY PageConstants DEF PageInv, PageTyped, CountsTyped
  <2>3. awaiting' \subseteq Answer
    BY <1>l, <1>c, ApartFromNoId DEF PageInv, PageTyped, TabTyped, Answer
  <2>. QED BY <2>1, <2>2, <2>3 DEF PageTyped
<1>2. ServerSideHolds'
  BY <1>l, <1>c, ApartFromNoId, EmptyAscends
     DEF PageInv, PageTyped, TabTyped, ServerSideHolds, Numbered, RunRecord, Answer
<1>3. OneSession'
  <2>1. \/ UNCHANGED <<sessionId, sessionLoad>>
        \/ sessionLoad' = NoLoad
        \/ sessionLoad'.of = sessionId' /\ ~sessionLoaded'
    BY <1>c
  <2>2. runOf[r].session # NoId /\ agentSession'.id = sessionId'
    BY DEF PageInv, ServerSideHolds
  <2>. QED BY <1>c, <2>1, <2>2 DEF PageInv, PageTyped, TabTyped, OneSession
<1>4. StopReaches'
  BY <1>l, <1>c, ApartFromNoId DEF PageInv, PageTyped, TabTyped, StopReaches
<1>5. ASSUME ~strayed' PROVE Undisturbed'
  <2>0. ~strayed /\ Undisturbed
    BY <1>5 DEF PageInv, PageTyped, TabTyped
  <2>1. OneRunFollowed'
    BY <1>l, <1>c, <1>5, <2>0, ApartFromNoId
       DEF PageInv, PageTyped, TabTyped, Undisturbed, OneRunFollowed, QuestionsFit, StopReaches, Sending
  <2>2. QuestionsFit'
    BY <1>l, <1>c, <1>5, <2>0, ApartFromNoId, NothingShown
       DEF PageInv, PageTyped, TabTyped, Undisturbed, OneRunFollowed, QuestionsFit, LoadFits, ShownFits,
           OneSession, Sending
  <2>3. LoadFits'
    BY <1>l, <1>c, <1>5, <2>0, ApartFromNoId, NothingShown
       DEF PageInv, PageTyped, TabTyped, Undisturbed, QuestionsFit, LoadFits, OneSession, RunFits,
           OneRunFollowed, Turned
  <2>4. RunFits'
    BY <1>l, <1>c, <1>5, <2>0, ApartFromNoId, NothingShown
       DEF PageInv, PageTyped, TabTyped, Undisturbed, QuestionsFit, RunFits, Progress, ServerSideHolds,
           OneRunFollowed
  <2>5. ShownFits'
    BY <1>l, <1>c, <1>5, <2>0, ApartFromNoId, EmptyAscends, WithinItself, NothingShown
       DEF PageInv, PageTyped, TabTyped, Undisturbed, QuestionsFit, LoadFits, ShownFits, ServerSideHolds,
           Numbered, OneSession, RunFits, OneRunFollowed
  <2>. QED BY <2>1, <2>2, <2>3, <2>4, <2>5 DEF Undisturbed
<1>. QED BY <1>1, <1>2, <1>3, <1>4, <1>5 DEF PageInv

LEMMA PageStepKeeps == ASSUME PageInv, PageNext PROVE PageInv'
<1>1. CASE UserNext
  BY <1>1, SendChatKeeps, StopRunKeeps, StartNewChatKeeps, SwitchBranchKeeps, ClearChatKeeps,
     SelectProjectKeeps, ReloadKeeps, SwitchSessionKeeps, DeleteSessionKeeps DEF UserNext
<1>2. ASSUME NEW c \in awaiting, CallNext(c) PROVE PageInv'
  BY <1>2, AbortedKeeps, SendFailsKeeps, SwitchAnsweredKeeps, BranchAnsweredKeeps, DeletedKeeps, ClearedKeeps,
     RunCreatedKeeps DEF CallNext
<1>3. ASSUME NEW r \in Run, StreamNext(r) PROVE PageInv'
  BY <1>3, EventArrivesKeeps, RunOverKeeps, StreamBreaksKeeps DEF StreamNext
<1>. QED BY <1>1, <1>2, <1>3, LoadedKeeps, RunWorksKeeps, FinishKeeps DEF PageNext

LEMMA PageInvShows == ASSUME PageInv PROVE PageTypeOK /\ OneRunFollowed /\ NothingForeign
<1>1. PageTypeOK
  BY DEF PageInv, PageTyped, TabTyped, CountsTyped, PageTypeOK
<1>2. OneRunFollowed
  BY DEF PageInv, Undisturbed, OneRunFollowed
<1>3. \A m, o : Within(m, o) => ToSet(m) \subseteq ToSet(o)
  BY DEF Within, ToSet
<1>4. NothingForeign
  BY <1>3 DEF PageInv, Undisturbed, ShownFits, Ascending, NothingForeign
<1>. QED BY <1>1, <1>2, <1>4

\* However the handlers interleave at their awaits, the tab, its storage and its view
\* are about one session, the stop button reaches the run that is shown, and as long as
\* no answer strays one run is followed, and the messages shown are those of one session
\* of this project, in their order and each once (App.tsx: sendChat, switchSession,
\* startRunStream, upsertMessage).
THEOREM PageHolds == PageSpec => []PageSound
<1>1. PageInit => PageInv
  BY PageBegins
<1>2. PageInv /\ UNCHANGED pageVars => PageInv'
  BY DEF PageInv, PageTyped, TabTyped, CountsTyped, ServerSideHolds, Numbered, OneSession, StopReaches,
       Undisturbed, OneRunFollowed, Sending, QuestionsFit, LoadFits, RunFits, Progress, ShownFits, pageVars
<1>3. PageInv /\ [PageNext]_pageVars => PageInv'
  BY <1>2, PageStepKeeps
<1>4. PageInv => PageSound
  BY PageInvShows DEF PageInv, PageSound
<1>. QED BY <1>1, <1>3, <1>4, PTL DEF PageSpec
=============================================================================
