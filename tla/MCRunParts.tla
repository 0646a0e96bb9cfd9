----------------------------- MODULE MCRunParts -----------------------------
(***************************************************************************)
(* Small instances for TLC of what an execution of the agent goes through,   *)
(* the answer of a model, a batch of tools, their output and the files they  *)
(* change, of the shutdown that waits for it and of the page that follows     *)
(* it.  They share no state in these models: each behaviour exercises one of *)
(* them, its subject.                                                        *)
(***************************************************************************)
EXTENDS ToolOutput, ToolBatch, WorkspaceFiles, ProviderStream, TLC

CONSTANTS Subjects,
          Request, Closer, Main,
          Project, Session, Run, NoId, MaxClicks, MaxMessages

VARIABLES subject,
  ownsHub, boot, open, listening, quiesced, handler, streams, run, main,
  at, expired, phase, passed, step, closeErr,
  selectedProjectID, sessionId, sessionLoaded, agentSession, localStorage, sessionLoad,
  chatLoading, chatRunning, chatRunningRef, activeRunId, chatEventSource, opened, awaiting, clicks,
  messagesOf, projectOf, runOf, numbered, strayed

Server == INSTANCE ServerLifecycle
Page   == INSTANCE ChatPage

serverVars == <<ownsHub, boot, open, listening, quiesced, handler, streams, run, main,
                at, expired, phase, passed, step, closeErr>>
pageVars == <<selectedProjectID, sessionId, sessionLoaded, agentSession, localStorage, sessionLoad,
              chatLoading, chatRunning, chatRunningRef, activeRunId, chatEventSource, opened, awaiting, clicks,
              messagesOf, projectOf, runOf, numbered, strayed>>

\* Texts, and calls told in one chunk or in several: with an index, without one,
\* with one id under two keys and two ids under one.
P(index, id, named, args) == [index |-> index, id |-> id, named |-> named, args |-> args]
C(th, tx, ps) == [thinking |-> th, text |-> tx, pieces |-> ps]
SomeChunks ==
  {C(TRUE, FALSE, <<>>), C(TRUE, TRUE, <<>>),
   C(FALSE, TRUE, <<P(NoIndex, "a", TRUE, TRUE)>>), C(FALSE, FALSE, <<P(NoIndex, "b", TRUE, FALSE)>>)}
  \cup {C(FALSE, FALSE, ps) : ps \in
    {<<P(0, "a", TRUE, FALSE)>>, <<P(1, "a", TRUE, TRUE)>>, <<P(0, "b", FALSE, FALSE)>>,
     <<P(0, "none", TRUE, TRUE)>>, <<P(NoIndex, "none", FALSE, TRUE)>>,
     <<P(1, "a", TRUE, FALSE), P(0, "b", TRUE, TRUE)>>, <<P(0, "b", TRUE, FALSE), P(1, "b", TRUE, FALSE)>>,
     <<P(NoIndex, "a", TRUE, TRUE), P(NoIndex, "b", TRUE, FALSE)>>}}

\* What the start leaves open is left open for the subject only.
Init ==
  /\ subject \in Subjects
  /\ StreamInit
  /\ Server!ServerInit
  /\ BatchInit
  /\ OutputInit
  /\ FilesInit
  /\ Page!PageInit
  /\ subject # "server" => ownsHub
  /\ subject # "page" => localStorage = NoId /\ selectedProjectID = CHOOSE p \in Project : TRUE
  /\ subject # "tools" =>
       /\ runnerMode = "parallel" /\ tool = [c \in Batch |-> "parallel"]
       /\ callId = [c \in Batch |-> CHOOSE i \in CallId : TRUE]

vars == <<subject, streamVars, serverVars, batchVars, outputVars, fileVars, pageVars>>

StreamStep ==
  /\ subject = "stream" /\ StreamNext
  /\ UNCHANGED <<subject, serverVars, batchVars, outputVars, fileVars, pageVars>>
ServerStep ==
  /\ subject = "server" /\ Server!ServerNext
  /\ UNCHANGED <<subject, streamVars, batchVars, outputVars, fileVars, pageVars>>
ToolStep ==
  /\ subject = "tools" /\ BatchNext
  /\ UNCHANGED <<subject, streamVars, serverVars, outputVars, fileVars, pageVars>>
OutputStep ==
  /\ subject = "output" /\ OutputNext
  /\ UNCHANGED <<subject, streamVars, serverVars, batchVars, fileVars, pageVars>>
FileStep ==
  /\ subject = "files" /\ FilesNext
  /\ UNCHANGED <<subject, streamVars, serverVars, batchVars, outputVars, pageVars>>
PageStep ==
  /\ subject = "page" /\ Page!PageNext
  /\ UNCHANGED <<subject, streamVars, serverVars, batchVars, outputVars, fileVars>>

Next ==
  \/ StreamStep \/ ServerStep \/ ToolStep \/ OutputStep \/ FileStep \/ PageStep

Spec == Init /\ [][Next]_vars

-----------------------------------------------------------------------------
(* Fairness, where an end is asked for. *)

\* A provider ends its stream some time, and the goroutines run; nothing says
\* that a run is cancelled.
StreamFair ==
  /\ WF_streamVars(subject = "stream" /\ Drain)
  /\ WF_streamVars(subject = "stream" /\ (Pump \/ Send))
  /\ WF_streamVars(subject = "stream" /\ Read)

\* The goroutine of a call goes on while nothing it waits for holds it; that
\* handlers, runs and the closing of resources end is not assumed. The gate is a
\* channel, which serves those who wait in their order (SF).
ServerFair ==
  /\ WF_serverVars(subject = "server" /\ Server!QuiesceRuns)
  /\ WF_serverVars(subject = "server" /\ Server!HTTPDrained)
  /\ WF_serverVars(subject = "server" /\ Server!MainReturns)
  /\ \A c \in Closer : /\ WF_serverVars(subject = "server" /\ Server!CloseStep(c))
                       /\ SF_serverVars(subject = "server" /\ Server!TakeGate(c))

\* Requests are answered, runs end (they have a timeout), and what is sent on a
\* stream arrives or breaks it.
PageFair ==
  /\ \A n \in 0 .. MaxClicks : WF_pageVars(subject = "page" /\ \E c \in awaiting : c.n = n /\ Page!CallNext(c))
  /\ \A r \in Run : /\ WF_pageVars(subject = "page" /\ Page!Finish(r))
                    /\ WF_pageVars(subject = "page" /\ Page!StreamNext(r))

FairSpec == Spec /\ StreamFair /\ ServerFair /\ PageFair

-----------------------------------------------------------------------------
(* Of the parts, StreamWhole, CallsAccounted, TextsKept and FilesKept are checked as their modules state *)
(* them.                                                                                                *)

\* ai, api, web: a stream that is read to its end, or cancelled, ends, a call of
\* Close returns, and a page that is busy becomes free again.
WaitsEnd ==
  /\ subject = "stream" => StreamEnds
  /\ subject = "server" => Server!CloseReturns
  /\ subject = "page" => Page!BusyEnds
=============================================================================
