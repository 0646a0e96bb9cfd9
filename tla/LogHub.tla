-------------------------------- MODULE LogHub --------------------------------
(***************************************************************************)
(* The output of an MCP server on its way to those who watch it: a          *)
(* ConnectionLogLineWriter cuts chunks into bounded lines, and loghub.Hub    *)
(* keeps the last lines and fans them out to bounded queues, evicting a      *)
(* reader that is slow.  The console hub is the same Hub behind another      *)
(* Write.  To a reader the hub is a RunLog (TailSpec) of the lines that the  *)
(* output consists of (LinesExact).                                         *)
(***************************************************************************)
EXTENDS Integers, Sequences, SequencesExt

CONSTANTS Reader,          \* clients that subscribe, once each
          MaxContent,      \* bytes that are kept of a line
          HistorySize,     \* Options.HistorySize
          MaxReaders,      \* Options.MaxSubscribers
          ReaderQueue,     \* Options.SubscriberQueue
          MaxOutput        \* bound: bytes that the server writes

ASSUME HubConstants == MaxContent \in Nat /\ HistorySize \in Nat

VARIABLES
  output,   \* all that was handed to Write
  rest,     \* the part of it that the Write under way has not looked at
  buf,      \* the buffered part of a line
  cut,      \* truncated: some of the line did not fit
  shut,     \* the writer is closed
  lines,    \* every line that was pushed; the hub keeps the last ones
  kept,     \* Hub.count
  hubOpen,  \* ~Hub.closed
  ends,     \* the readers' channels: "none", "open" or "closed"
  capacity, \* what they hold at most
  queue,    \* what is in them, as positions in lines
  joinedAt, \* the number of lines when a reader subscribed, -1 before
  got       \* the positions of the lines a reader has received

writerVars == <<output, rest, buf, cut, shut>>
readerVars == <<ends, capacity, queue, joinedAt, got>>
hubVars == <<writerVars, lines, kept, hubOpen, readerVars>>

\* A byte is a letter, a blank or the end of a line; a line is what is kept of it.
Byte == {"x", " ", "\n"}
Line == [text : BoundedSeq({"x", " "}, MaxContent), truncated : BOOLEAN]

Blank(line) == ~line.truncated /\ \A i \in DOMAIN line.text : line.text[i] = " "

HubInit ==
  /\ output = <<>> /\ rest = <<>> /\ buf = <<>> /\ cut = FALSE /\ shut = FALSE
  /\ lines = <<>> /\ kept = 0 /\ hubOpen = TRUE
  /\ ends = [r \in Reader |-> "none"] /\ capacity = [r \in Reader |-> 0]
  /\ queue = [r \in Reader |-> <<>>] /\ joinedAt = [r \in Reader |-> -1] /\ got = [r \in Reader |-> <<>>]

Open == {r \in Reader : ends[r] = "open"}

-----------------------------------------------------------------------------
(* Push, under Hub.mu. *)

\* Faulty variant: a reader whose queue is full misses the line and stays.
FanOutDropping ==
  /\ queue' = [r \in Reader |->
       IF r \in Open /\ Len(queue[r]) < capacity[r] THEN Append(queue[r], Len(lines) + 1) ELSE queue[r]]
  /\ UNCHANGED ends

FanOut ==
  LET full == {r \in Open : Len(queue[r]) = capacity[r]}
  IN  /\ queue' = [r \in Reader |->
           IF r \in Open \ full THEN Append(queue[r], Len(lines) + 1) ELSE queue[r]]
      /\ ends' = [r \in Reader |-> IF r \in full THEN "closed" ELSE ends[r]]

\* A closed hub drops what is pushed.
Push(line) ==
  IF hubOpen
  THEN /\ lines' = Append(lines, line)
       /\ kept' = IF kept < HistorySize THEN kept + 1 ELSE kept
       /\ FanOut
  ELSE UNCHANGED <<lines, kept, ends, queue>>

-----------------------------------------------------------------------------
(* The writer, under its own lock. *)

Write(chunk) ==
  /\ ~shut /\ rest = <<>> /\ Len(output) + Len(chunk) <= MaxOutput
  /\ output' = output \o chunk /\ rest' = chunk
  /\ UNCHANGED <<buf, cut, shut, lines, kept, hubOpen, readerVars>>

Room == MaxContent - Len(buf)

\* Faulty variant: what does not fit starts a line of its own.
AppendedOver(chunk) ==
  IF Len(chunk) <= Room THEN [text |-> buf \o chunk, truncated |-> cut]
  ELSE [text |-> chunk, truncated |-> cut]

\* appendChunk: the buffer and the flag after chunk.
Appended(chunk) ==
  [text |-> buf \o (IF Len(chunk) <= Room THEN chunk ELSE SubSeq(chunk, 1, Room)),
   truncated |-> cut \/ Len(chunk) > Room]

\* Faulty variant: the mark of a line that was cut stays for the next one.
EmitMarked(line) ==
  /\ buf' = <<>> /\ UNCHANGED cut
  /\ IF Blank(line) THEN UNCHANGED <<lines, kept, ends, queue>> ELSE Push(line)

\* emitBuffered, of a line that is complete.
Emit(line) ==
  /\ buf' = <<>> /\ cut' = FALSE
  /\ IF Blank(line) THEN UNCHANGED <<lines, kept, ends, queue>> ELSE Push(line)

\* One round of the loop of Write: the chunk up to its next end of line.
WriteStep ==
  /\ rest # <<>>
  /\ \/ /\ \A i \in DOMAIN rest : rest[i] # "\n"
        /\ buf' = Appended(rest).text /\ cut' = Appended(rest).truncated
        /\ rest' = <<>>
        /\ UNCHANGED <<lines, kept, ends, queue>>
     \/ \E i \in DOMAIN rest :
          /\ rest[i] = "\n" /\ \A j \in 1..(i - 1) : rest[j] # "\n"
          /\ Emit(Appended(SubSeq(rest, 1, i - 1)))
          /\ rest' = SubSeq(rest, i + 1, Len(rest))
  /\ UNCHANGED <<output, shut, hubOpen, capacity, joinedAt, got>>

\* The process has ended: what is left is a line.
CloseWriter ==
  /\ ~shut /\ rest = <<>>
  /\ shut' = TRUE
  /\ Emit([text |-> buf, truncated |-> cut])
  /\ UNCHANGED <<output, rest, hubOpen, capacity, joinedAt, got>>

-----------------------------------------------------------------------------
(* Readers. *)

\* The history is put into the new channel under the lock: at most all that is
\* kept, or the tail that the client asks for.
Subscribe(r) ==
  /\ hubOpen /\ joinedAt[r] = -1 /\ Cardinality(Open) < MaxReaders
  /\ \E tail \in (IF kept = 0 THEN {0} ELSE 1..kept) :
       /\ queue' = [queue EXCEPT ![r] = [i \in 1..tail |-> Len(lines) - tail + i]]
       /\ capacity' = [capacity EXCEPT ![r] = tail + ReaderQueue]
  /\ ends' = [ends EXCEPT ![r] = "open"]
  /\ joinedAt' = [joinedAt EXCEPT ![r] = Len(lines)]
  /\ UNCHANGED <<writerVars, lines, kept, hubOpen, got>>

\* SSEHandler takes one entry; an evicted reader still gets what is queued.
Receive(r) ==
  /\ queue[r] # <<>>
  /\ got' = [got EXCEPT ![r] = Append(@, Head(queue[r]))]
  /\ queue' = [queue EXCEPT ![r] = Tail(@)]
  /\ UNCHANGED <<writerVars, lines, kept, hubOpen, ends, capacity, joinedAt>>

\* cancel, when the client leaves.
Cancel(r) ==
  /\ ends[r] # "none" /\ (queue[r] # <<>> \/ ends[r] = "open")
  /\ ends' = [ends EXCEPT ![r] = "closed"] /\ queue' = [queue EXCEPT ![r] = <<>>]
  /\ UNCHANGED <<writerVars, lines, kept, hubOpen, capacity, joinedAt, got>>

CloseHub ==
  /\ hubOpen
  /\ hubOpen' = FALSE /\ kept' = 0
  /\ ends' = [r \in Reader |-> IF r \in Open THEN "closed" ELSE ends[r]]
  /\ UNCHANGED <<writerVars, lines, capacity, queue, joinedAt, got>>

HubNext ==
  \/ \E chunk \in SeqOf(Byte, 2) : chunk # <<>> /\ Write(chunk)
  \/ WriteStep \/ CloseWriter \/ CloseHub
  \/ \E r \in Reader : Subscribe(r) \/ Receive(r) \/ Cancel(r)

HubSpec == HubInit /\ [][HubNext]_hubVars

-----------------------------------------------------------------------------
HubTypeOK ==
  /\ output \in Seq(Byte) /\ rest \in Seq(Byte) /\ buf \in BoundedSeq({"x", " "}, MaxContent)
  /\ cut \in BOOLEAN /\ shut \in BOOLEAN /\ hubOpen \in BOOLEAN
  /\ lines \in Seq(Line) /\ kept \in 0..HistorySize
  /\ ends \in [Reader -> {"none", "open", "closed"}]
  /\ \A r \in Reader : Len(queue[r]) <= capacity[r]

\* What the hub was given is what the output consists of, however it was cut
\* into chunks: every line in its order, cut at its bound and marked when it was
\* longer, without those that are blank.
LineOf(piece) ==
  [text |-> SubSeq(piece, 1, IF Len(piece) < MaxContent THEN Len(piece) ELSE MaxContent),
   truncated |-> Len(piece) > MaxContent]

AllLines ==
  LET done   == SubSeq(output, 1, Len(output) - Len(rest))
      Breaks == {0} \cup {i \in DOMAIN done : done[i] = "\n"}
      starts == SetToSortSeq(Breaks, <)
      pieces == [n \in 1..(Len(starts) - 1) |-> LineOf(SubSeq(done, starts[n] + 1, starts[n + 1] - 1))]
      open   == LineOf(SubSeq(done, starts[Len(starts)] + 1, Len(done)))
      all    == SelectSeq(IF shut THEN Append(pieces, open) ELSE pieces, LAMBDA p : ~Blank(p))
  IN  IF hubOpen THEN lines = all ELSE IsPrefix(lines, all)

\* loghub: the types, and of the output all lines.
LinesExact == HubTypeOK /\ AllLines

\* To a reader: the lines from somewhere in the history on, each once, in order
\* and without a gap, until the client leaves, is evicted or the hub is closed.
Tails == INSTANCE RunLog WITH
  Subscriber <- Reader, Size <- {1}, KeptSize <- 1,
  log <- [i \in DOMAIN lines |-> 1], closed <- FALSE, joined <- joinedAt, seen <- got

\* loghub: a reader sees an interval of the lines from where it joined, until it is evicted or its source ends.
TailSpec == Tails!Spec

===============================================================================
