------------------------------ MODULE RunStream ------------------------------
(***************************************************************************)
(* The events of one run and the clients that read them: runState,         *)
(* runSubscription and runSubscriber (internal/api/run_manager.go) and the  *)
(* loop that writes a subscription to a client (internal/api/run_stream.go  *)
(* and handleRunEvents in internal/api/run_handlers.go).                    *)
(*                                                                          *)
(* A frame is its sequence number; frames[n] is the size of frame n.  What  *)
(* r.mu guards is changed only by the action that holds it: holding names   *)
(* the critical section that is under way while a publisher serves the      *)
(* subscribers one by one, in the order of a Go map, which is any.  A       *)
(* client takes frames from its queue without that lock.                    *)
(*                                                                          *)
(* A subscriber is one GET request; a client that reconnects is another     *)
(* one.                                                                     *)
(***************************************************************************)
EXTENDS Integers, SequencesExt

CONSTANTS Subscriber,                \* GET /api/runs/{id}/events requests
          Size,                      \* sizes of encoded frames
          TerminalSize,              \* sizes of terminal frames, at most MaxTerminalBytes
          MaxFrames,                 \* bound of the model on the events of a run
          MaxRetainedEvents, MaxRetainedBytes,            \* config.RunLimits
          MaxSubscriberQueueEvents, MaxSubscriberQueueBytes, MaxLiveQueueBytes,
          SubscriberLimit            \* what MaxSubscribers may be set to

ASSUME StreamAssumption ==
  /\ IsFiniteSet(Subscriber)
  /\ Size \subseteq Nat /\ TerminalSize \subseteq Nat
  /\ MaxFrames \in Nat
  /\ {MaxRetainedEvents, MaxRetainedBytes, MaxSubscriberQueueEvents,
      MaxSubscriberQueueBytes, MaxLiveQueueBytes} \subseteq Nat \ {0}
  /\ SubscriberLimit \subseteq Nat \ {0}

VARIABLES
  maxSubscribers,  \* the MaxSubscribers of the configuration
  frames,          \* the sizes of the frames published so far
  history,         \* runState.history
  normalEvents,    \* runState.normalEvents
  normalBytes,     \* runState.normalBytes
  liveQueueBytes,  \* runState.liveQueueBytes
  attached,        \* runState.subscribers: those whose attached is true
  done,            \* runState.done
  holding,         \* the publisher's critical section that is under way
  todo,            \* the subscribers that section still has to serve
  queue,           \* runSubscriber.queue; closed when its owner is detached
  pendingEvents,   \* runSubscriber.pendingEvents
  pendingBytes,    \* runSubscriber.pendingBytes
  replay,          \* the rest of runSubscription.history
  reader,          \* where each request's handler stands
  joined,          \* how many frames were published when each one subscribed
  seen,            \* the frames each client has received
  evicted          \* the subscribers removed because a budget was exceeded

runVars   == <<maxSubscribers, frames, history, normalEvents, normalBytes, done>>
queueVars == <<liveQueueBytes, attached, pendingEvents, pendingBytes, evicted>>
readVars  == <<replay, reader, joined, seen>>
vars == <<runVars, holding, todo, queue, queueVars, readVars>>

ReaderStates == {"new", "refused", "streaming", "acknowledging", "drained", "broken", "gone"}

Frame == 1..Len(frames)

TypeOK ==
  /\ maxSubscribers \in SubscriberLimit
  /\ frames \in Seq(Size \cup TerminalSize)
  /\ history \in Seq(Frame)
  /\ normalEvents \in Nat /\ normalBytes \in Nat /\ liveQueueBytes \in Nat
  /\ attached \subseteq Subscriber /\ evicted \subseteq Subscriber
  /\ done \in BOOLEAN
  /\ holding \in {"nothing", "event", "terminal"}
  /\ todo \subseteq attached
  /\ queue \in [Subscriber -> Seq(Frame)]
  /\ pendingEvents \in [Subscriber -> Nat]
  /\ pendingBytes \in [Subscriber -> Nat]
  /\ replay \in [Subscriber -> Seq(Frame)]
  /\ reader \in [Subscriber -> ReaderStates]
  /\ joined \in [Subscriber -> {-1} \cup 0..Len(frames)]
  /\ seen \in [Subscriber -> Seq(Frame)]

Init ==
  /\ maxSubscribers \in SubscriberLimit
  /\ frames = <<>> /\ history = <<>>
  /\ normalEvents = 0 /\ normalBytes = 0 /\ liveQueueBytes = 0
  /\ attached = {} /\ evicted = {}
  /\ done = FALSE
  /\ holding = "nothing" /\ todo = {}
  /\ queue = [s \in Subscriber |-> <<>>]
  /\ pendingEvents = [s \in Subscriber |-> 0]
  /\ pendingBytes = [s \in Subscriber |-> 0]
  /\ replay = [s \in Subscriber |-> <<>>]
  /\ reader = [s \in Subscriber |-> "new"]
  /\ joined = [s \in Subscriber |-> -1]
  /\ seen = [s \in Subscriber |-> <<>>]

Bytes(fs) == SumFunction([i \in DOMAIN fs |-> frames[fs[i]]])

-----------------------------------------------------------------------------
(* The publisher: publish, publishTerminal and the frames they enqueue. *)

\* How many of the oldest frames the eviction loop of publish drops to make
\* room for one of the given size.
Drop(size) ==
  CHOOSE d \in 0..Len(history) :
    LET fits(k) == /\ normalEvents - k + 1 <= MaxRetainedEvents
                   /\ normalBytes - Bytes(SubSeq(history, 1, k)) + size <= MaxRetainedBytes
    IN fits(d) /\ \A k \in 0..(d - 1) : ~fits(k)

\* A frame beyond the retained bytes is delivered live and kept nowhere.
Retain(size) ==
  IF size <= MaxRetainedBytes
  THEN LET d == Drop(size)
       IN /\ history' = Append(SubSeq(history, d + 1, Len(history)), Len(frames) + 1)
          /\ normalEvents' = normalEvents - d + 1
          /\ normalBytes' = normalBytes - Bytes(SubSeq(history, 1, d)) + size
  ELSE UNCHANGED <<history, normalEvents, normalBytes>>

Publish(size) ==
  /\ holding = "nothing" /\ ~done
  /\ Len(frames) < MaxFrames
  /\ frames' = Append(frames, size)
  /\ Retain(size)
  /\ holding' = "event" /\ todo' = attached
  /\ UNCHANGED <<maxSubscribers, done, queue, queueVars, readVars>>

\* Faulty variant: the subscribers are not served.
PublishTerminalSilently(size) ==
  /\ holding = "nothing" /\ ~done
  /\ frames' = Append(frames, size)
  /\ history' = Append(history, Len(frames) + 1)
  /\ done' = TRUE
  /\ holding' = "terminal" /\ todo' = {}
  /\ UNCHANGED <<maxSubscribers, normalEvents, normalBytes, queue, queueVars, readVars>>

\* publishTerminal, which fail() calls too: outside the retention budget, and
\* the last frame of the run.
PublishTerminal(size) ==
  /\ holding = "nothing" /\ ~done
  /\ frames' = Append(frames, size)
  /\ history' = Append(history, Len(frames) + 1)
  /\ done' = TRUE
  /\ holding' = "terminal" /\ todo' = attached
  /\ UNCHANGED <<maxSubscribers, normalEvents, normalBytes, queue, queueVars, readVars>>

\* Faulty variant: the pending bytes stay counted.
RemovedKeepingBytes(s, pending, live) ==
  /\ attached' = attached \ {s}
  /\ liveQueueBytes' = live
  /\ pendingEvents' = [pendingEvents EXCEPT ![s] = 0]
  /\ pendingBytes' = [pendingBytes EXCEPT ![s] = 0]

\* removeSubscriberLocked, with the given bytes pending: close of the queue
\* leaves the buffered frames to the reader.
Removed(s, pending, live) ==
  /\ attached' = attached \ {s}
  /\ liveQueueBytes' = IF pending > live THEN 0 ELSE live - pending
  /\ pendingEvents' = [pendingEvents EXCEPT ![s] = 0]
  /\ pendingBytes' = [pendingBytes EXCEPT ![s] = 0]

\* The three budgets of a live frame.
Fits(s, size) ==
  /\ pendingEvents[s] + 1 <= MaxSubscriberQueueEvents
  /\ pendingBytes[s] + size <= MaxSubscriberQueueBytes
  /\ liveQueueBytes + size <= MaxLiveQueueBytes

\* Faulty variant: the frame is dropped, the subscriber stays.
OverflowSkippingFrame(s) ==
  UNCHANGED <<liveQueueBytes, attached, pendingEvents, pendingBytes, evicted>>

\* What enqueueSubscriberLocked does with a frame that exceeds a budget.
Overflow(s) ==
  /\ Removed(s, pendingBytes[s], liveQueueBytes)
  /\ evicted' = evicted \cup {s}

\* enqueueSubscriberLocked for the frame being published; the terminal frame
\* detaches its subscriber right after it.  The send blocks on a full queue.
Enqueue(s) ==
  LET size == Last(frames)
  IN /\ s \in todo
     /\ todo' = todo \ {s}
     /\ IF Fits(s, size)
        THEN /\ Len(queue[s]) < MaxSubscriberQueueEvents
             /\ queue' = [queue EXCEPT ![s] = Append(@, Len(frames))]
             /\ IF holding = "terminal"
                THEN Removed(s, pendingBytes[s] + size, liveQueueBytes + size)
                ELSE /\ pendingEvents' = [pendingEvents EXCEPT ![s] = @ + 1]
                     /\ pendingBytes' = [pendingBytes EXCEPT ![s] = @ + size]
                     /\ liveQueueBytes' = liveQueueBytes + size
                     /\ UNCHANGED attached
             /\ UNCHANGED evicted
        ELSE Overflow(s) /\ UNCHANGED queue
     /\ UNCHANGED <<runVars, holding, readVars>>

Unlock ==
  /\ holding # "nothing" /\ todo = {}
  /\ holding' = "nothing"
  /\ UNCHANGED <<runVars, todo, queue, queueVars, readVars>>

-----------------------------------------------------------------------------
(* The handler of one client: subscribe, then next, write and acknowledge.  *)

\* subscribeLocked: the copy of the history and the attachment are one step,
\* so that what comes after the copy comes through the queue.
Subscribe(s) ==
  /\ holding = "nothing" /\ reader[s] = "new"
  /\ done \/ Cardinality(attached) < maxSubscribers
  /\ attached' = IF done THEN attached ELSE attached \cup {s}
  /\ replay' = [replay EXCEPT ![s] = history]
  /\ joined' = [joined EXCEPT ![s] = Len(frames)]
  /\ reader' = [reader EXCEPT ![s] = "streaming"]
  /\ UNCHANGED <<runVars, holding, todo, queue, liveQueueBytes, pendingEvents,
                 pendingBytes, evicted, seen>>

RefuseSubscribe(s) ==
  /\ holding = "nothing" /\ reader[s] = "new"
  /\ ~done /\ Cardinality(attached) >= maxSubscribers
  /\ reader' = [reader EXCEPT ![s] = "refused"]
  /\ UNCHANGED <<runVars, holding, todo, queue, queueVars, replay, joined, seen>>

\* A subscription to a completed run has no queue.
HasQueue(s) == ~done \/ joined[s] < Len(frames)

\* A frame of the history is written without the lock and not acknowledged.
Replay(s) ==
  /\ reader[s] = "streaming" /\ replay[s] # <<>>
  /\ seen' = [seen EXCEPT ![s] = Append(@, Head(replay[s]))]
  /\ replay' = [replay EXCEPT ![s] = Tail(@)]
  /\ UNCHANGED <<runVars, holding, todo, queue, queueVars, reader, joined>>

\* next() takes a live frame without the lock; buffered frames of a closed
\* queue are still delivered.
TakesLive(s) == reader[s] = "streaming" /\ replay[s] = <<>> /\ queue[s] # <<>>

Deliver(s) ==
  /\ TakesLive(s)
  /\ queue' = [queue EXCEPT ![s] = Tail(@)]
  /\ seen' = [seen EXCEPT ![s] = Append(@, Head(queue[s]))]
  /\ reader' = [reader EXCEPT ![s] = "acknowledging"]
  /\ UNCHANGED <<runVars, holding, todo, queueVars, replay, joined>>

\* acknowledge, with its clamps; it ignores a detached subscriber.
Acknowledge(s) ==
  /\ holding = "nothing" /\ reader[s] = "acknowledging"
  /\ reader' = [reader EXCEPT ![s] = "streaming"]
  /\ LET size == IF frames[Last(seen[s])] > pendingBytes[s]
                 THEN pendingBytes[s] ELSE frames[Last(seen[s])]
     IN IF s \in attached
        THEN /\ pendingEvents' = [pendingEvents EXCEPT ![s] = IF @ > 0 THEN @ - 1 ELSE @]
             /\ pendingBytes' = [pendingBytes EXCEPT ![s] = @ - size]
             /\ liveQueueBytes' = IF size > liveQueueBytes THEN 0 ELSE liveQueueBytes - size
        ELSE UNCHANGED <<pendingEvents, pendingBytes, liveQueueBytes>>
  /\ UNCHANGED <<runVars, holding, todo, queue, attached, evicted, replay, joined, seen>>

\* The queue is closed and empty, or there is none.
EndOfStream(s) ==
  /\ reader[s] = "streaming" /\ replay[s] = <<>> /\ queue[s] = <<>>
  /\ s \notin attached
  /\ reader' = [reader EXCEPT ![s] = "drained"]
  /\ UNCHANGED <<runVars, holding, todo, queue, queueVars, replay, joined, seen>>

\* The client goes away or the server quiesces: next() sees the context end
\* while it waits for a live frame, or a write fails and its frame is lost.
Break(s) ==
  /\ reader[s] = "streaming"
  /\ \/ replay[s] = <<>> /\ HasQueue(s) /\ UNCHANGED <<replay, queue>>
     \/ replay[s] # <<>> /\ replay' = [replay EXCEPT ![s] = Tail(@)] /\ UNCHANGED queue
     \/ TakesLive(s) /\ queue' = [queue EXCEPT ![s] = Tail(@)] /\ UNCHANGED replay
  /\ reader' = [reader EXCEPT ![s] = "broken"]
  /\ UNCHANGED <<runVars, holding, todo, queueVars, joined, seen>>

\* Faulty variant: unsubscribes without r.mu.
UnsubscribeUnlocked(s) ==
  /\ reader[s] \in {"drained", "broken"}
  /\ reader' = [reader EXCEPT ![s] = "gone"]
  /\ IF s \in attached
     THEN Removed(s, pendingBytes[s], liveQueueBytes)
     ELSE UNCHANGED <<attached, liveQueueBytes, pendingEvents, pendingBytes>>
  /\ UNCHANGED <<runVars, holding, todo, queue, evicted, replay, joined, seen>>

\* The deferred unsubscribe.
Unsubscribe(s) ==
  /\ holding = "nothing" /\ reader[s] \in {"drained", "broken"}
  /\ reader' = [reader EXCEPT ![s] = "gone"]
  /\ IF s \in attached
     THEN Removed(s, pendingBytes[s], liveQueueBytes)
     ELSE UNCHANGED <<attached, liveQueueBytes, pendingEvents, pendingBytes>>
  /\ UNCHANGED <<runVars, holding, todo, queue, evicted, replay, joined, seen>>

-----------------------------------------------------------------------------
Publisher ==
  \/ Unlock
  \/ \E s \in Subscriber : Enqueue(s)

Client(s) ==
  \/ Replay(s) \/ Deliver(s) \/ Acknowledge(s) \/ EndOfStream(s) \/ Unsubscribe(s)

Next ==
  \/ \E size \in Size : Publish(size)
  \/ \E size \in TerminalSize : PublishTerminal(size)
  \/ Publisher
  \/ \E s \in Subscriber : Subscribe(s) \/ RefuseSubscribe(s) \/ Client(s) \/ Break(s)

Spec == Init /\ [][Next]_vars

\* A publisher that has begun goes on; clients may stop reading for ever.
PublisherSpec == Spec /\ WF_vars(Publisher)

\* What StreamsEnd assumes of the clients as well: they keep reading.
ClientsRead == \A s \in Subscriber : WF_vars(Client(s))

-----------------------------------------------------------------------------
(* Properties. *)

\* What a client receives is what RunLog allows.
Log == INSTANCE RunLog
         WITH Size <- Size \cup TerminalSize, KeptSize <- MaxRetainedBytes,
              log <- frames, closed <- done

LogSpec == Log!Spec

\* The channel send under r.mu always finds room: a client that takes frames
\* and acknowledges them late, or never, cannot block the run.
NeverBlocks ==
  \A s \in todo : Fits(s, Last(frames)) => Len(queue[s]) < MaxSubscriberQueueEvents

\* The frames a subscriber has not acknowledged: those in its queue and the one
\* its handler has taken.  A handler that has given up acknowledges nothing.
Unacknowledged(s) ==
  IF reader[s] = "acknowledging" THEN <<Last(seen[s])>> \o queue[s] ELSE queue[s]

\* The three budgets count what is really outstanding, whatever order of
\* deliveries, acknowledgements and removals led there, and stay in bounds.
LiveBudget ==
  /\ \A s \in attached : reader[s] # "broken" =>
       /\ pendingEvents[s] = Len(Unacknowledged(s))
       /\ pendingBytes[s] = Bytes(Unacknowledged(s))
  /\ liveQueueBytes = SumFunctionOnSet(pendingBytes, attached)
  /\ liveQueueBytes <= MaxLiveQueueBytes
  /\ Cardinality(attached) <= maxSubscribers

\* The retained frames of events: without the terminal one, which is the last.
Kept == IF done THEN Front(history) ELSE history
\* The retained events are counted exactly, stay in bounds and are the newest
\* ones: between the oldest retained frame and the end of the run nothing is
\* missing but frames too large to be retained at all, and the terminal one is
\* retained whatever its size.
Retention ==
  /\ normalEvents = Len(Kept) /\ normalBytes = Bytes(Kept)
  /\ normalEvents <= MaxRetainedEvents /\ normalBytes <= MaxRetainedBytes
  /\ \A n \in Frame :
       Kept # <<>> /\ n >= Kept[1] /\ frames[n] <= MaxRetainedBytes => n \in ToSet(history)
  /\ done => history # <<>> /\ Last(history) = Len(frames)

\* What is counted is what is there, in the live queues and in the history, and
\* what the count lets through finds room; every value is of its type.
Budgets == TypeOK /\ NeverBlocks /\ LiveBudget /\ Retention

\* A stream that the server ends by itself has delivered the terminal event,
\* unless its client was so slow that it was evicted.
EndsWithTerminal ==
  \A s \in Subscriber :
    reader[s] = "drained" /\ s \notin evicted =>
      done /\ seen[s] # <<>> /\ Last(seen[s]) = Len(frames)

\* An event is published in finitely many steps even if no client reads.
PublishEnds == holding # "nothing" ~> holding = "nothing"

\* After the terminal event every stream comes to its end and is removed, if the
\* clients keep reading, and no stream ends by itself before it.
StreamsEnd ==
  /\ []EndsWithTerminal
  /\ ClientsRead =>
       \A s \in Subscriber :
         done /\ reader[s] # "new" ~> reader[s] \in {"gone", "refused"}

\* Neither the run nor a client that reads is left waiting (publish, SSE loop).
StreamsSettle == PublishEnds /\ StreamsEnd
==============================================================================
