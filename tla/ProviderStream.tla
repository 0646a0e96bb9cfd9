---------------------------- MODULE ProviderStream ----------------------------
(***************************************************************************)
(* One request to a model, from the agent loop (streamAssistantResponse)    *)
(* over the client to the provider and back: drainMessageStream turns the    *)
(* chunks of the provider into events, a pump moves them from an unbounded   *)
(* queue into a channel, and the loop reads them until the last one, an      *)
(* error of a listener, or the cancellation of the run.                     *)
(*                                                                          *)
(* A call has two names: the key under which its pieces are put together,    *)
(* and the id that the provider gives it, by which it is found in a message. *)
(* Nothing makes the one follow the other: an index may be missing, an id    *)
(* may come under two keys, and a key may get a second id.                   *)
(*                                                                          *)
(* A text is as long as the number of its deltas, and of the arguments of a  *)
(* call a piece has some or none.  The texts of a chunk are pushed in one    *)
(* step, and then each of its pieces in one.                                *)
(***************************************************************************)
EXTENDS Integers, Sequences, SequencesExt

CONSTANTS Id,         \* ids of tool calls
          MaxCalls,   \* bound: pieces of a chunk, and indexes of calls
          Chunks,     \* what the provider may send
          MaxChunks,  \* bound: chunks that it sends
          Buffer      \* capacity of the channel

\* A piece of a call: the index that the provider gives, or none, and its id,
\* its name and some of its arguments, each of which may be missing.
Key == 0..(MaxCalls - 1)
NoIndex == -1
Piece == [index : Key \cup {NoIndex}, id : Id \cup {"none"}, named : BOOLEAN, args : BOOLEAN]
Chunk == {c \in [thinking : BOOLEAN, text : BOOLEAN, pieces : Seq(Piece)] : Len(c.pieces) <= MaxCalls}

ASSUME StreamConstants ==
  /\ Id \cap {"thinking", "text", "none"} = {}
  /\ MaxCalls \in Nat /\ MaxChunks \in Nat /\ Buffer \in Nat
  /\ Chunks \subseteq Chunk

VARIABLES
  chunks,    \* the number of chunks received
  draining,  \* drainMessageStream: "none", "running" or "over"
  thinking,  \* the deltas of thinking so far
  text,      \* ... and of text
  pieces,    \* those of the last chunk that are not told of yet, with their keys
  got,       \* the others, of all chunks
  calls,     \* of each key: the call as far as it is known
  order,     \* the keys in the order in which they appeared
  pushed,    \* every event that was pushed; the last one closes the stream
  pump,      \* "idle", "sending" or "ended"; when it ends it closes the channel
  sent,      \* the number of events that went into the channel
  read,      \* ... and of those that the loop has taken out
  loop,      \* "new", "calling", "reading", or how the loop has returned
  told,      \* what the listeners were told
  cancelled  \* the context of the run is done

drainVars == <<chunks, draining, thinking, text, pieces, got, calls, order, pushed>>
pumpVars == <<pump, sent>>
loopVars == <<read, loop, told>>
streamVars == <<drainVars, pumpVars, loopVars, cancelled>>

UnknownCall == [id |-> "none", named |-> FALSE, started |-> FALSE]
IsKnown(call) == call.id # "none" /\ call.named

Event(type, at, partial) == [type |-> type, at |-> at, partial |-> partial]
Terminal == {"done", "error"}
Closed == pushed # <<>> /\ Last(pushed).type \in Terminal

StreamInit ==
  /\ chunks = 0 /\ draining = "none" /\ thinking = 0 /\ text = 0
  /\ pieces = <<>> /\ got = <<>>
  /\ calls = [k \in Key |-> UnknownCall] /\ order = <<>> /\ pushed = <<>>
  /\ pump = "idle" /\ sent = 0 /\ read = 0 /\ loop = "new" /\ told = <<>>
  /\ cancelled = FALSE

Cancel ==
  /\ ~cancelled /\ cancelled' = TRUE
  /\ UNCHANGED <<drainVars, pumpVars, loopVars>>

-----------------------------------------------------------------------------
(* drainMessageStream. *)

\* streamingPartial: what a message holds, in its order.
Texts(th, tx) ==
  (IF th > 0 THEN <<"thinking">> ELSE <<>>) \o (IF tx > 0 THEN <<"text">> ELSE <<>>)

\* The members of a sequence that are not "none": SequencesExt's Remove, in a
\* form that a proof can expand.
Given(s) ==
  LET given[n \in 0..Len(s)] ==
        IF n = 0 THEN <<>>
        ELSE IF s[n] = "none" THEN given[n - 1]
        ELSE Append(given[n - 1], s[n])
  IN  given[Len(s)]

\* streamingPartialWithToolCalls: and the ids of the calls that have an id and a name.
WithCalls(th, tx, cs, ord) ==
  Texts(th, tx) \o Given([n \in DOMAIN ord |-> IF IsKnown(cs[ord[n]]) THEN cs[ord[n]].id ELSE "none"])

\* toolCallIndex: the first call of an id; also the index of a kind of text.
IndexOf(item, content) ==
  IF Contains(content, item)
  THEN CHOOSE i \in DOMAIN content : content[i] = item /\ \A j \in 1..(i - 1) : content[j] # item
  ELSE 1

At(type, item, content) == Event(type, IndexOf(item, content), content)

\* pushTextChunkUpdates: thinking comes before text, also when it starts later.
TextUpdates(chunk) ==
  LET th == thinking + (IF chunk.thinking THEN 1 ELSE 0)
      tx == text + (IF chunk.text THEN 1 ELSE 0)
  IN  (IF chunk.thinking /\ thinking = 0
       THEN <<At("start", "thinking", <<"thinking">> \o Texts(0, text))>> ELSE <<>>)
      \o (IF chunk.thinking THEN <<At("delta", "thinking", Texts(th, text))>> ELSE <<>>)
      \o (IF chunk.text /\ text = 0
          THEN <<At("start", "text", Append(Texts(th, 0), "text"))>> ELSE <<>>)
      \o (IF chunk.text THEN <<At("delta", "text", Texts(th, tx))>> ELSE <<>>)

\* The position of a piece stands for a missing index.
Keyed(ps) ==
  [n \in DOMAIN ps |->
     [index |-> ps[n].index, key |-> IF ps[n].index = NoIndex THEN n - 1 ELSE ps[n].index,
      id |-> ps[n].id, named |-> ps[n].named, args |-> ps[n].args]]

\* The calls after a piece; a later id replaces an earlier one.
CallsAfter(piece) ==
  [calls EXCEPT ![piece.key] =
     LET call == [id |-> IF piece.id = "none" THEN @.id ELSE piece.id, named |-> @.named \/ piece.named]
     IN  [id |-> call.id, named |-> call.named, started |-> IsKnown(call)]]

OrderAfter(piece) == IF Contains(order, piece.key) THEN order ELSE Append(order, piece.key)

\* Faulty variant: a call is started by its first piece, whatever that tells.
CallUpdatesAtOnce(piece, content) ==
  LET call == CallsAfter(piece)[piece.key]
  IN  (IF ~Contains(order, piece.key) THEN <<At("start", call.id, content)>> ELSE <<>>)
      \o (IF piece.args /\ IsKnown(call) THEN <<At("delta", call.id, content)>> ELSE <<>>)

\* pushToolCallChunkUpdates, for one piece: nothing is said of a call without its
\* id and name.
CallUpdates(piece, content) ==
  LET call == CallsAfter(piece)[piece.key]
  IN  IF ~IsKnown(call) THEN <<>>
      ELSE (IF ~calls[piece.key].started THEN <<At("start", call.id, content)>> ELSE <<>>)
           \o (IF piece.args THEN <<At("delta", call.id, content)>> ELSE <<>>)

Receive(chunk) ==
  /\ draining = "running" /\ pieces = <<>> /\ chunks < MaxChunks
  /\ pushed' = pushed \o (IF chunks = 0 THEN <<Event("begin", 1, <<>>)>> ELSE <<>>) \o TextUpdates(chunk)
  /\ thinking' = thinking + (IF chunk.thinking THEN 1 ELSE 0)
  /\ text' = text + (IF chunk.text THEN 1 ELSE 0)
  /\ pieces' = Keyed(chunk.pieces)
  /\ chunks' = chunks + 1
  /\ UNCHANGED <<draining, got, calls, order, pumpVars, loopVars, cancelled>>

PushPiece ==
  /\ draining = "running" /\ pieces # <<>>
  /\ LET piece == Head(pieces)
         content == WithCalls(thinking, text, CallsAfter(piece), OrderAfter(piece))
     IN  /\ pushed' = pushed \o CallUpdates(piece, content)
         /\ calls' = CallsAfter(piece) /\ order' = OrderAfter(piece)
         /\ got' = Append(got, piece)
  /\ pieces' = Tail(pieces)
  /\ UNCHANGED <<draining, chunks, thinking, text, pumpVars, loopVars, cancelled>>

\* pushAssistantError: the only content of the message is what went wrong.
PushError == pushed' = Append(pushed, Event("error", 1, <<"text">>))

\* Faulty variant: an error of the provider ends the drain alone.
ReceiveFailsSilently ==
  /\ draining = "running" /\ pieces = <<>>
  /\ draining' = "over"
  /\ UNCHANGED <<chunks, thinking, text, pieces, got, calls, order, pushed, pumpVars, loopVars, cancelled>>

\* Recv fails, at any time and when the run is cancelled.
ReceiveFails ==
  /\ draining = "running" /\ pieces = <<>>
  /\ draining' = "over" /\ PushError
  /\ UNCHANGED <<chunks, thinking, text, pieces, got, calls, order, pumpVars, loopVars, cancelled>>

\* The message at the end of the stream, of all chunks.  ConcatMessages puts the
\* pieces of an index together, in the order of the indexes, and leaves each
\* piece without one a call of its own, before them.
IdsOf(index) == {got[i].id : i \in {i \in DOMAIN got : got[i].index = index}} \ {"none"}

Final ==
  Texts(thinking, text)
  \o Given([i \in DOMAIN got |-> IF got[i].index = NoIndex THEN got[i].id ELSE "none"])
  \o Given([n \in 1..MaxCalls |-> IF IdsOf(n - 1) = {} THEN "none" ELSE CHOOSE id \in IdsOf(n - 1) : TRUE])

\* It can be converted when each of its calls has an id, the only one, and a name.
Complete ==
  /\ chunks > 0
  /\ \A i \in DOMAIN got :
       IF got[i].index = NoIndex THEN IsKnown(got[i])
       ELSE /\ \E id \in Id : IdsOf(got[i].index) = {id}
            /\ \E j \in DOMAIN got : got[j].index = got[i].index /\ got[j].named

\* Each item of a message once, where it first appears.
Once(content) ==
  Given([i \in DOMAIN content |->
           IF \E j \in 1..(i - 1) : content[j] = content[i] THEN "none" ELSE content[i]])

\* pushFinalToolCalls, which passes over an id that it has seen, and before it the
\* ends of the texts.
Ends == [i \in DOMAIN Once(Final) |-> At("end", Once(Final)[i], Final)]

\* EOF: an error when the run is cancelled, nothing came, or the message cannot
\* be converted; else the ends, and the last event by the stop reason.
EndOfChunks ==
  /\ draining = "running" /\ pieces = <<>> /\ draining' = "over"
  /\ \/ PushError
     \/ /\ ~cancelled /\ Complete
        /\ \E type \in Terminal : pushed' = (pushed \o Ends) \o <<Event(type, 1, Final)>>
  /\ UNCHANGED <<chunks, thinking, text, pieces, got, calls, order, pumpVars, loopVars, cancelled>>

-----------------------------------------------------------------------------
(* The pump, which sends without regard to the context. *)

Pump ==
  /\ pump = "idle" /\ sent < Len(pushed)
  /\ pump' = "sending"
  /\ UNCHANGED <<drainVars, sent, loopVars, cancelled>>

Send ==
  /\ pump = "sending" /\ sent - read < Buffer
  /\ sent' = sent + 1
  /\ pump' = IF Closed /\ sent' = Len(pushed) THEN "ended" ELSE "idle"
  /\ UNCHANGED <<drainVars, loopVars, cancelled>>

-----------------------------------------------------------------------------
(* streamAssistantResponse. *)

\* Returns with message_start, unless it was told before, and message_end; or
\* with an error alone when a listener fails.
Return(how) ==
  /\ loop' = how
  /\ told' = told \o (IF told = <<>> THEN <<"start">> ELSE <<>>) \o <<"end">>
ListenerFails == loop' = "failed" /\ UNCHANGED told

\* The context is converted and the request made.
SendRequest ==
  /\ loop = "new" /\ ~cancelled
  /\ loop' = "calling"
  /\ UNCHANGED <<drainVars, pumpVars, read, told, cancelled>>

\* A request that fails is a message of its own, but one that was cancelled is
\* answered with a stream of one event.
RequestFails ==
  /\ \/ loop = "new" /\ Return(IF cancelled THEN "aborted" ELSE "refused")
     \/ loop = "calling" /\ Return("refused")
  /\ UNCHANGED <<drainVars, pumpVars, read, cancelled>>

Answer ==
  /\ loop = "calling" /\ loop' = "reading"
  /\ draining' = "running"
  /\ UNCHANGED <<chunks, thinking, text, pieces, got, calls, order, pushed, pumpVars, read, told, cancelled>>

AnswerAborted ==
  /\ loop = "calling" /\ cancelled /\ loop' = "reading"
  /\ draining' = "over" /\ PushError
  /\ UNCHANGED <<chunks, thinking, text, pieces, got, calls, order, pumpVars, read, told, cancelled>>

ReadEvent ==
  /\ loop = "reading" /\ read < sent
  /\ read' = read + 1
  /\ LET event == pushed[read']
     IN  \/ ListenerFails
         \/ /\ event.type = "begin"
            /\ told' = Append(told, "start") /\ UNCHANGED loop
         \/ /\ event.type \in {"start", "delta", "end"}
            /\ told' = Append(told, "update") /\ UNCHANGED loop
         \/ event.type \in Terminal /\ Return(event.type)
  /\ UNCHANGED <<drainVars, pumpVars, cancelled>>

\* select takes the context when it is done, whatever else is there.
ReadCancelled ==
  /\ loop = "reading" /\ cancelled
  /\ Return("aborted")
  /\ UNCHANGED <<drainVars, pumpVars, read, cancelled>>

-----------------------------------------------------------------------------
Drain == (\E chunk \in Chunks : Receive(chunk)) \/ PushPiece \/ ReceiveFails \/ EndOfChunks
Read == SendRequest \/ RequestFails \/ Answer \/ AnswerAborted \/ ReadEvent \/ ReadCancelled

StreamNext == Drain \/ Pump \/ Send \/ Read \/ Cancel

StreamSpec == StreamInit /\ [][StreamNext]_streamVars

-----------------------------------------------------------------------------
StreamTypeOK ==
  /\ chunks \in 0..MaxChunks /\ draining \in {"none", "running", "over"}
  /\ thinking \in 0..MaxChunks /\ text \in 0..MaxChunks
  /\ calls \in [Key -> [id : Id \cup {"none"}, named : BOOLEAN, started : BOOLEAN]] /\ order \in Seq(Key)
  /\ pump \in {"idle", "sending", "ended"}
  /\ read \in 0..sent /\ sent \in read..(read + Buffer) /\ sent <= Len(pushed)
  /\ loop \in {"new", "calling", "reading", "done", "error", "refused", "aborted", "failed"}
  /\ cancelled \in BOOLEAN

\* Where the stream tells of an item.
About(item) ==
  {i \in DOMAIN pushed : /\ pushed[i].type \in {"start", "delta", "end"}
                        /\ pushed[i].partial[pushed[i].at] = item}

\* All pieces that give an id have one key, which was given no other.
OneKey(id) ==
  \A i, j \in DOMAIN got : got[i].id = id /\ got[j].id # "none" =>
    (got[i].key = got[j].key <=> got[j].id = id)

\* Whatever the chunks are and in which order they mix thinking, text and calls:
\* the stream begins once and first, each event names an item of the message it
\* carries, and the last event is the only one of its kind.  Of the texts, and of
\* an id that is used for one call, the deltas lie between the one start and the
\* one end.  A stream that ends well has told of all that is in its message and of
\* nothing else, and has ended each once, whatever the ids are.
EventsFit ==
  /\ \A i \in DOMAIN pushed :
       /\ pushed[i].type = "begin" <=> (i = 1 /\ ~(pushed[1].type \in Terminal))
       /\ pushed[i].type \in Terminal => i = Len(pushed)
  /\ \A i \in DOMAIN pushed : pushed[i].type \in {"start", "delta", "end"} =>
       pushed[i].at \in DOMAIN pushed[i].partial
  /\ \A item \in {"thinking", "text"} \cup {id \in Id : OneKey(id)} : \A i \in About(item) :
       /\ pushed[i].type = "start" <=> \A j \in About(item) : i <= j
       /\ pushed[i].type = "end" => \A j \in About(item) : j <= i
  /\ Closed /\ Last(pushed).type = "done" =>
       \A item \in {"thinking", "text"} \cup Id :
         IF Contains(Last(pushed).partial, item)
         THEN \E i \in About(item) : \A j \in About(item) : pushed[j].type = "end" <=> j = i
         ELSE About(item) = {}

\* What the listeners are told of the message is whole: it starts, changes and
\* ends, once, and it ends exactly when the loop returns without an error of a
\* listener; the loop returns aborted only from a run that was cancelled.
ToldWhole ==
  /\ told # <<>> => Head(told) = "start"
  /\ \A i \in DOMAIN told :
       (told[i] = "start" => i = 1) /\ (told[i] = "end" <=> (i = Len(told) /\ loop \in {"done", "error", "refused", "aborted"}))
  /\ loop = "aborted" => cancelled

\* openai_completion.go and agent_assistant.go: the events that a provider's answer is
\* made into fit together, and the loop passes on a whole message or says that it is not.
StreamWhole == StreamTypeOK /\ EventsFit /\ ToldWhole

\* The loop returns, and with it the pump, unless the loop left it behind.
StreamEnds ==
  /\ <>(loop \in {"done", "error", "refused", "aborted", "failed"})
  /\ (loop \in {"done", "error"}) ~> (pump = "ended")

===============================================================================
