---------------------------- MODULE AgentSession ----------------------------
(***************************************************************************)
(* One chat session and the harness that runs the agent on it              *)
(* (internal/agent/runtime/agent_harness.go, internal/agent/core): the     *)
(* loop of turns, the queues of messages that arrive while it runs, the    *)
(* writes that wait for it, abort, branching and compaction, and the       *)
(* history they leave.                                                     *)
(*                                                                         *)
(* A run is the goroutine inside Prompt; run.at is the place it has        *)
(* reached.  Its steps between two acquisitions of the locks are one       *)
(* action.  Every other action is a call of some client.  The lease of     *)
(* RunManager gives the session one writer, so entries is at once the file *)
(* and what is in memory, while leaf is only in memory and is computed     *)
(* from the file after a restart.                                          *)
(*                                                                         *)
(* Bounds: MaxMessages, MaxEdits, MaxTroubles, and MaxEntries after which  *)
(* the model asks for no tool.                                             *)
(***************************************************************************)
EXTENDS SessionTree, SequencesExt

CONSTANTS MaxTurns,      \* AgentLoopConfig.MaxTurns
          MaxMessages,   \* messages the clients send
          MaxEdits,      \* changes of the model, branches and compactions
          MaxTroubles,   \* appends the storage fails, and crashes
          MaxEntries

ASSUME BoundsAssumption ==
  /\ MaxTurns \in Nat \ {0}
  /\ {MaxMessages, MaxEdits, MaxTroubles, MaxEntries} \subseteq Nat

VARIABLES
  entries,    \* Session.order and Session.entries
  leaf,       \* Session.leafID
  phase,      \* AgentHarness.phase
  run,        \* the goroutine in Prompt
  agent,      \* the leaf from which AgentHarness.agent was built
  accept,     \* AgentHarness.acceptQueue
  cancelled,  \* the context of the run is done
  steering, followUp, nextTurn,   \* the three queues
  writes,     \* number of AgentHarness.pendingSessionWrites
  aborting,   \* a caller waits in Abort
  gone,       \* messages given back to their sender, or lost with a failed run
  sent, edits, faults, crashes    \* counters of the bounds

history == <<entries, leaf>>
queues  == <<accept, steering, followUp, nextTurn>>
clients == <<aborting, gone, sent, edits, crashes>>
vars == <<history, phase, run, agent, queues, cancelled, writes, clients, faults>>

Messages == 1..MaxMessages

Places == {"idle", "starting", "prompts", "turn", "stream", "tools", "tool", "results",
           "failing", "turn end", "prepare", "agent end", "finish", "settling"}

\* at      : the place in the code
\* pending : messages the run holds and has not recorded yet
\* from    : the leaf from which the messages of the loop were built
\* added   : the messages the loop has appended to them since
\* calls   : tool calls that have no result yet
\* more    : hasMoreToolCalls
\* stop    : the turn ended in an error or was interrupted
IdleRun == [at |-> "idle", turn |-> 0, pending |-> <<>>, from |-> 0, added |-> <<>>,
            calls |-> {}, sequential |-> FALSE, more |-> FALSE, stop |-> FALSE]

\* The agent of the run is attached to the harness (activeAgent # nil).
Attached == run.at \notin {"idle", "starting", "settling"}

TypeOK ==
  /\ \A i \in DOMAIN entries :
       /\ entries[i].kind \in Kinds
       /\ {entries[i].parent, entries[i].ref} \subseteq 0..(i - 1)
       /\ entries[i].msg \in 0..sent
       /\ entries[i].calls \subseteq Calls
  /\ leaf \in 0..Len(entries)
  /\ phase \in {"idle", "turn", "summary"}
  /\ run.at \in Places
  /\ run.turn \in 0..(MaxTurns + 1)
  /\ {agent, run.from} \subseteq 0..Len(entries)
  /\ Range(run.added) \subseteq DOMAIN entries
  /\ writes \in 0..MaxEdits
  /\ gone \subseteq 1..sent

Init ==
  /\ entries = <<>> /\ leaf = 0
  /\ phase = "idle" /\ run = IdleRun /\ agent = 0
  /\ accept = FALSE /\ cancelled = FALSE
  /\ steering = <<>> /\ followUp = <<>> /\ nextTurn = <<>>
  /\ writes = 0 /\ aborting = FALSE /\ gone = {}
  /\ sent = 0 /\ edits = 0 /\ faults = 0 /\ crashes = 0

-----------------------------------------------------------------------------
(* The history *)

\* AppendEntry: the entry is checked on a copy, stored, and then published.
Record(e) ==
  /\ Admits(entries, leaf, e)
  /\ entries' = Stored(entries, leaf, e)
  /\ leaf'    = LeafAfter(entries, e)
  /\ UNCHANGED faults

StorageFails == crashes + faults < MaxTroubles /\ faults' = faults + 1 /\ UNCHANGED history

\* AppendEntry returns an error.
Refuse(e) ==
  \/ ~Admits(entries, leaf, e) /\ UNCHANGED <<history, faults>>
  \/ StorageFails

\* flushPendingSessionWritesLocked, onto history h with leaf l: all w waiting
\* writes, or the n before the one the storage refuses.
Written(h, l, n) ==
  /\ entries' = h \o [k \in 1..n |->
                   [StateEntry EXCEPT !.parent = IF k = 1 THEN l ELSE Len(h) + k - 1]]
  /\ leaf'   = IF n = 0 THEN l ELSE Len(h) + n

FlushAll(h, l, w) == Written(h, l, w) /\ writes' = 0 /\ UNCHANGED faults

FlushSome(h, l, w) ==
  /\ crashes + faults < MaxTroubles /\ faults' = faults + 1
  /\ \E n \in 0..(w - 1) : Written(h, l, n) /\ writes' = w - n

Flush      == FlushAll(entries, leaf, writes)
FlushFails == FlushSome(entries, leaf, writes)

\* rebuildAgentLocked, after the history of this step.
Rebuild == agent' = leaf'

-----------------------------------------------------------------------------
(* The start of a run *)

\* promptLocked up to the hook: the session is claimed, waiting writes are
\* flushed, and the queue of the next turn becomes part of the prompt.
Begin ==
  /\ phase = "idle" /\ run.at = "idle"
  /\ sent < MaxMessages
  /\ sent' = sent + 1
  /\ \/ /\ Flush
        /\ IF writes > 0 THEN Rebuild ELSE UNCHANGED agent
        /\ phase' = "turn"
        /\ run' = [IdleRun EXCEPT !.at = "starting", !.turn = 1, !.from = agent',
                                  !.pending = Append(nextTurn, sent')]
        /\ nextTurn' = <<>>
        /\ UNCHANGED gone
     \/ /\ FlushFails
        /\ run' = [IdleRun EXCEPT !.at = "settling"]
        /\ gone' = gone \cup {sent'}
        /\ UNCHANGED <<phase, agent, nextTurn>>
  /\ UNCHANGED <<cancelled, accept, steering, followUp, aborting, edits, crashes>>

\* promptLocked after the hook: the agent is attached, unless the run was
\* cancelled meanwhile.
Attach ==
  /\ run.at = "starting"
  /\ IF cancelled
     THEN /\ run' = [IdleRun EXCEPT !.at = "settling"]
          /\ nextTurn' = Front(run.pending) \o nextTurn
          /\ gone' = gone \cup {Last(run.pending)}
          /\ phase' = "idle"
          /\ UNCHANGED accept
     ELSE /\ run' = [run EXCEPT !.at = "prompts"]
          /\ accept' = TRUE
          /\ UNCHANGED <<nextTurn, gone, phase>>
  /\ UNCHANGED <<history, agent, cancelled, steering, followUp, writes, aborting, sent,
                 edits, crashes, faults>>

-----------------------------------------------------------------------------
(* The loop of turns *)

\* What a step of the loop leaves alone that neither polls a queue nor
\* flushes the waiting writes.
InLoop == UNCHANGED <<phase, agent, queues, cancelled, writes, clients>>

Goto(place) == run' = [run EXCEPT !.at = place]

\* A message of the run could not be recorded: the loop is left at once.
LeaveLoop(e) ==
  /\ Refuse(e)
  /\ run' = [run EXCEPT !.at = "finish", !.pending = <<>>]
  /\ gone' = gone \cup Range(run.pending)
  /\ UNCHANGED <<phase, agent, queues, cancelled, writes, aborting, sent, edits, crashes>>

\* The message events of the prompts, and of the queued messages at the start
\* of a turn.
RecordMessage ==
  /\ run.at \in {"prompts", "turn"} /\ run.pending # <<>>
  /\ \/ /\ Record(UserEntry(Head(run.pending)))
        /\ run' = [run EXCEPT !.pending = Tail(@), !.added = Append(@, leaf')]
        /\ InLoop
     \/ LeaveLoop(UserEntry(Head(run.pending)))

\* Faulty variant: the message that was taken stays.
RestKeepingHead(q) == q

\* messageQueue.drain in the mode one-at-a-time.
Drained(q) == IF q = <<>> THEN <<>> ELSE <<Head(q)>>
Rest(q)    == IF q = <<>> THEN <<>> ELSE Tail(q)

FirstPoll ==
  /\ run.at = "prompts" /\ run.pending = <<>>
  /\ run' = [run EXCEPT !.at = "turn", !.pending = Drained(steering)]
  /\ steering' = Rest(steering)
  /\ UNCHANGED <<history, phase, agent, accept, followUp, nextTurn, cancelled, writes,
                 clients, faults>>

CallModel ==
  /\ run.at = "turn" /\ run.pending = <<>>
  /\ Goto("stream")
  /\ InLoop /\ UNCHANGED <<history, faults>>

\* streamAssistantResponse: the context of the run is looked at before the
\* request and while it streams, so an answer may still win against a cancel.
Answer(e, next) ==
  \/ /\ Record(e)
     /\ run' = [run EXCEPT !.at = next, !.calls = AsksFor(<<e>>, 1), !.added = Append(@, leaf'),
                           !.more = FALSE, !.stop = (e.kind = "failed")]
     /\ InLoop
  \/ LeaveLoop(e)

Stream ==
  /\ run.at = "stream"
  /\ \/ Answer(AssistantEntry({}), "turn end")
     \/ Answer(FailedEntry({}), "turn end")
     \/ /\ Len(entries) < MaxEntries
        /\ \E asks \in (SUBSET Calls) \ {{}} :
             \/ Answer(AssistantEntry(asks), "tools")
             \/ Answer(FailedEntry(asks), "turn end")

\* The runner of the tools looks at the context before a batch and, in the
\* sequential mode, before each call.
RunTools ==
  /\ run.at = "tools" /\ ~cancelled
  /\ \E sequential \in BOOLEAN :
       /\ run.sequential => sequential
       /\ run' = [run EXCEPT !.at = IF sequential THEN "tool" ELSE "results",
                             !.sequential = sequential]
  /\ InLoop /\ UNCHANGED <<history, faults>>

\* The results of a parallel batch are recorded when all calls have returned,
\* unless the run was cancelled by then; emitting them looks no more at the
\* context.  Some tools end the run (Terminate).
RecordResult ==
  /\ run.at \in {"tool", "results"}
  /\ LET c    == Min(run.calls)
         rest == run.calls \ {c}
     IN  \/ /\ Record(ResultEntry(c))
            /\ \E more \in BOOLEAN :
                 /\ rest # {} => more
                 /\ run' = [run EXCEPT !.calls = rest, !.added = Append(@, leaf'),
                                       !.more = more, !.sequential = @ /\ rest # {},
                                       !.at = CASE rest = {}       -> "turn end"
                                                [] run.sequential /\ rest # {} -> "tools"
                                                [] OTHER           -> "results"]
            /\ InLoop
         \/ ~cancelled /\ LeaveLoop(ResultEntry(c))
         \/ /\ cancelled /\ Refuse(ResultEntry(c))
            /\ Goto("failing")
            /\ InLoop

\* ctx.Err() # nil between the calls of the model and the end of the tools.
ToolsInterrupted ==
  /\ run.at = "tools" /\ cancelled
  /\ Goto("failing")
  /\ InLoop /\ UNCHANGED <<history, faults>>

\* emitActiveTerminalError: an assistant message that says what went wrong.
RecordFailure ==
  /\ run.at = "failing"
  /\ \/ /\ Record(FailedEntry({}))
        /\ run' = [run EXCEPT !.at = "turn end", !.stop = TRUE, !.calls = {}, !.sequential = FALSE]
        /\ InLoop
     \/ LeaveLoop(FailedEntry({}))

\* The event turn_end: waiting writes are flushed.
TurnEnd ==
  /\ run.at = "turn end"
  /\ \/ Flush /\ Goto(IF run.stop THEN "agent end" ELSE "prepare")
     \/ FlushFails /\ Goto("finish")
  /\ UNCHANGED <<phase, agent, queues, cancelled, clients>>

\* The run goes on with messages p, unless it has used up its turns: then they
\* are gone.
StartTurn(p) ==
  IF run.turn < MaxTurns
  THEN /\ run' = [run EXCEPT !.at = "turn", !.turn = @ + 1, !.pending = p,
                           !.from = leaf', !.added = <<>>]
       /\ UNCHANGED gone
  ELSE /\ run' = [run EXCEPT !.at = "failing", !.turn = @ + 1]
       /\ gone' = gone \cup Range(p)

\* prepareNextTurn reads the context from the session again; then the loop
\* takes a steering message, or a follow-up when it would otherwise end.
PrepareNextTurn ==
  /\ run.at = "prepare"
  /\ \/ /\ Flush
        /\ \/ /\ run.more \/ steering # <<>>
              /\ StartTurn(Drained(steering))
              /\ steering' = Rest(steering)
              /\ UNCHANGED followUp
           \/ /\ ~run.more /\ steering = <<>> /\ followUp # <<>>
              /\ StartTurn(Drained(followUp))
              /\ followUp' = Rest(followUp)
              /\ UNCHANGED steering
           \/ /\ ~run.more /\ steering = <<>> /\ followUp = <<>>
              /\ Goto("agent end")
              /\ UNCHANGED <<steering, followUp, gone>>
     \/ /\ FlushFails
        /\ Goto("failing")
        /\ UNCHANGED <<steering, followUp, gone>>
  /\ UNCHANGED <<phase, agent, accept, nextTurn, cancelled, aborting, sent, edits, crashes>>

-----------------------------------------------------------------------------
(* The end of a run *)

\* Faulty variant: the queue stays open.
DrainQueuesAccepting ==
  /\ nextTurn' = nextTurn \o steering \o followUp
  /\ steering' = <<>> /\ followUp' = <<>>
  /\ UNCHANGED accept

\* drainActiveQueuesLocked: what came too late waits for the next prompt.
DrainQueues ==
  /\ accept'   = FALSE
  /\ nextTurn' = nextTurn \o steering \o followUp
  /\ steering' = <<>>
  /\ followUp' = <<>>

\* The event agent_end.
AgentEnd ==
  /\ run.at = "agent end"
  /\ DrainQueues
  /\ \/ Flush /\ phase' = "idle"
     \/ FlushFails /\ UNCHANGED phase
  /\ Goto("finish")
  /\ UNCHANGED <<agent, cancelled, clients>>

\* finishRun and detachRun.
FinishRun ==
  /\ run.at = "finish"
  /\ DrainQueues
  /\ \/ Flush /\ Rebuild
     \/ FlushFails /\ UNCHANGED agent
  /\ phase' = "idle"
  /\ run' = [IdleRun EXCEPT !.at = "settling"]
  /\ UNCHANGED <<cancelled, clients>>

\* Faulty variant: runDone is cleared and not closed.
SettleRunSilently ==
  /\ run.at = "settling"
  /\ run' = IdleRun
  /\ cancelled' = FALSE
  /\ UNCHANGED <<history, phase, agent, queues, writes, clients, faults>>

\* settleRun: whoever waits for the run goes on.
SettleRun ==
  /\ run.at = "settling"
  /\ run' = IdleRun
  /\ cancelled' = FALSE /\ aborting' = FALSE
  /\ UNCHANGED <<history, phase, agent, queues, writes, gone, sent, edits, crashes, faults>>

-----------------------------------------------------------------------------
(* The clients *)

UnchangedButQueues ==
  UNCHANGED <<history, phase, run, agent, accept, cancelled, writes, aborting, gone,
              edits, crashes, faults>>

\* enqueueWhileRunning
Steer ==
  /\ accept /\ sent < MaxMessages
  /\ sent' = sent + 1
  /\ steering' = Append(steering, sent')
  /\ UnchangedButQueues /\ UNCHANGED <<followUp, nextTurn>>

FollowUp ==
  /\ accept /\ sent < MaxMessages
  /\ sent' = sent + 1
  /\ followUp' = Append(followUp, sent')
  /\ UnchangedButQueues /\ UNCHANGED <<steering, nextTurn>>

NextTurn ==
  /\ sent < MaxMessages
  /\ sent' = sent + 1
  /\ nextTurn' = Append(nextTurn, sent')
  /\ UnchangedButQueues /\ UNCHANGED <<steering, followUp>>

\* SetModel (as SetReasoning and SetActiveTools): persisted at once while the
\* harness is idle, and after a turn otherwise.
SetModel ==
  /\ edits < MaxEdits /\ edits' = edits + 1
  /\ \/ /\ phase # "idle"
        /\ writes' = writes + 1
        /\ UNCHANGED <<history, agent, faults>>
     \/ /\ phase = "idle" /\ writes = 0
        /\ \/ Record(StateEntry) /\ Rebuild
           \/ Refuse(StateEntry) /\ UNCHANGED agent
        /\ UNCHANGED writes
     \/ /\ phase = "idle" /\ writes > 0
        /\ \/ FlushAll(entries, leaf, writes + 1) /\ Rebuild
           \/ FlushSome(entries, leaf, writes + 1) /\ UNCHANGED agent
  /\ UNCHANGED <<phase, run, queues, cancelled, aborting, gone, sent, crashes>>

\* Abort: the queues are taken back from the run, which is then cancelled; the
\* caller waits for runDone.
Abort ==
  /\ run.at # "idle" /\ ~aborting
  /\ cancelled' = TRUE /\ aborting' = TRUE
  /\ IF Attached
     THEN /\ gone' = gone \cup Range(steering) \cup Range(followUp)
          /\ steering' = <<>> /\ followUp' = <<>>
          /\ accept' = FALSE
     ELSE UNCHANGED <<gone, steering, followUp, accept>>
  /\ UNCHANGED <<history, phase, run, agent, nextTurn, writes, sent, edits, crashes, faults>>

\* The context given to Prompt ends: a timeout, or the run manager.
Cancel ==
  /\ run.at # "idle" /\ ~cancelled
  /\ cancelled' = TRUE
  /\ UNCHANGED <<history, phase, run, agent, queues, writes, clients, faults>>

\* beginSummaryOperation
BeginSummary ==
  /\ phase = "idle" /\ run.at = "idle"
  /\ edits < MaxEdits /\ edits' = edits + 1
  /\ \/ Flush /\ Rebuild /\ phase' = "summary"
     \/ FlushFails /\ UNCHANGED <<agent, phase>>
  /\ UNCHANGED <<run, queues, cancelled, aborting, gone, sent, crashes>>

\* What NavigateTree (first two) and Compact make of the history: the leaf is
\* moved, a summary of the branch that is left is put where the user goes to,
\* or a summary takes the place of what came before kept.
Outcome(h, l) == [entries |-> h, leaf |-> l]

AppendedAt(l, e) ==
  IF Admits(entries, l, e) THEN {Outcome(Stored(entries, l, e), LeafAfter(entries, e))} ELSE {}

Navigated ==
  LET targets == {NavigationTarget(entries, leaf, t) : t \in 0..Len(entries)}
  IN  UNION {AppendedAt(leaf, LeafEntry(t)) \cup AppendedAt(t, SummaryEntry) : t \in targets}

Compacted ==
  IF MayCompact(entries, leaf)
  THEN UNION {AppendedAt(leaf, CompactionEntry(kept)) : kept \in FirstKept(entries, leaf)}
  ELSE {}

\* The operation, or its failure, and the deferred end: what was written
\* meanwhile is flushed behind it.
EndSummary ==
  /\ phase = "summary"
  /\ \E o \in {Outcome(entries, leaf)} \cup Navigated \cup Compacted :
       \/ FlushAll(o.entries, o.leaf, writes) /\ Rebuild
       \/ FlushSome(o.entries, o.leaf, writes) /\ UNCHANGED agent
  /\ phase' = "idle"
  /\ UNCHANGED <<run, queues, cancelled, clients>>

\* The process stops and the session is loaded from its file.
Crash ==
  /\ crashes + faults < MaxTroubles /\ crashes' = crashes + 1
  /\ leaf' = LoadedLeaf(entries)
  /\ UNCHANGED entries /\ Rebuild
  /\ phase' = "idle" /\ run' = IdleRun /\ cancelled' = FALSE
  /\ accept' = FALSE /\ steering' = <<>> /\ followUp' = <<>> /\ nextTurn' = <<>>
  /\ writes' = 0 /\ aborting' = FALSE
  /\ gone' = {m \in 1..sent : \A i \in DOMAIN entries : entries[i].msg # m}
  /\ UNCHANGED <<sent, edits, faults>>

-----------------------------------------------------------------------------
Loop == \/ Attach \/ RecordMessage \/ FirstPoll \/ CallModel \/ Stream \/ RunTools
        \/ RecordResult \/ ToolsInterrupted \/ RecordFailure \/ TurnEnd
        \/ PrepareNextTurn \/ AgentEnd \/ FinishRun \/ SettleRun

Clients == \/ Begin \/ Steer \/ FollowUp \/ NextTurn \/ SetModel \/ Abort \/ Cancel
           \/ BeginSummary

Next == Loop \/ Clients \/ EndSummary \/ Crash

Spec == Init /\ [][Next]_vars

\* The goroutine of a run goes on as long as the model and the tools answer,
\* which the timeouts of requests and tools see to.
FairSpec == Spec /\ WF_vars(Loop)

-----------------------------------------------------------------------------
(* Properties *)

Recorded == {entries[i].msg : i \in DOMAIN entries} \ {0}

\* What a client adds to a queue of the run is read: without a run the queues are
\* closed and empty.
QueuesAreRead == accept \/ steering \o followUp # <<>> => Attached

\* Every message a client sent is in one place: recorded in the session,
\* waiting in a queue that a run or the next prompt will read, held by the run,
\* or given up.  handleEvent, drainActiveQueuesLocked and Abort move messages
\* under different locks while clients add to the queues.
MessagesKept ==
  /\ QueuesAreRead
  /\ 1..sent = Recorded \cup gone \cup Range(run.pending)
                 \cup Range(steering) \cup Range(followUp) \cup Range(nextTurn)
  /\ Cardinality(Recorded) + Cardinality(gone) + Len(run.pending) + Len(steering)
       + Len(followUp) + Len(nextTurn) = sent
  /\ Cardinality({i \in DOMAIN entries : entries[i].msg # 0}) = Cardinality(Recorded)

\* What the loop gives to the model is what the session has recorded on its
\* branch, and every tool call in it is answered, although the loop builds it
\* on its own between two readings of the session.
ModelSeesTheSession ==
  run.at = "stream" =>
    /\ BuildContext(entries, run.from) \o run.added = ContextOf(entries, leaf)
    /\ Complete(entries, ContextOf(entries, leaf))

\* The file can always be loaded and gives the conversation that the process
\* had in memory.
RestartTransparent ==
  /\ ValidHistory(entries)
  /\ BuildContext(entries, LoadedLeaf(entries)) = BuildContext(entries, leaf)

\* The loop, the session in memory and its file tell one conversation.
MemoryMatchesSession == TypeOK /\ ModelSeesTheSession /\ RestartTransparent

\* The session can be branched and compacted.
Editable == run.at = "idle" /\ phase = "idle"

\* Choosing any message that did not fail leads to a place from which the
\* conversation can go on (ResolveNavigationTarget).
NavigationIsExecutable ==
  Editable =>
    \A t \in DOMAIN entries :
      (entries[t].kind \in MessageKinds /\ entries[t].kind # "failed")
        => Complete(entries, ContextOf(entries, NavigationTarget(entries, leaf, t)))

\* A compaction never cuts between a tool call and its results, wherever the
\* budget of tokens runs out (FindCutPoint).
CompactionFits ==
  (Editable /\ MayCompact(entries, leaf) /\ Complete(entries, ContextOf(entries, leaf)))
    => \A kept \in FirstKept(entries, leaf) :
         /\ Admits(entries, leaf, CompactionEntry(kept))
         /\ LET h == Stored(entries, leaf, CompactionEntry(kept))
            IN  Complete(h, ContextOf(h, Len(h)))

\* Branching and compacting leave a conversation that can go on.
EditsFit == NavigationIsExecutable /\ CompactionFits

\* A session that nothing runs on takes the next message.
InterruptedGoesOn ==
  Editable => Admits(entries, leaf, UserEntry(0))

\* A run ends, and whoever aborted it is told: SettleRun clears runDone on every
\* path, failed storage and cancelled tools included.
RunsEnd ==
  /\ run.at # "idle" ~> run.at = "idle"
  /\ aborting ~> ~aborting
=============================================================================
