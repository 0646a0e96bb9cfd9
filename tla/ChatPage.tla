------------------------------- MODULE ChatPage -------------------------------
(***************************************************************************)
(* The chat of one browser tab (App, web/src/App.tsx): the state that React *)
(* renders, the references that handlers share, and the handlers, which stop *)
(* at each await while the user, the server and other handlers go on.  The    *)
(* server is what its answers make it: sessions with messages and owners, and *)
(* runs whose streams replay from their first event.  A message is a number.  *)
(***************************************************************************)
EXTENDS Naturals, Sequences, SequencesExt, FiniteSets

CONSTANTS Project, Session, Run,
          NoId,                    \* the empty id: no session, no run
          MaxClicks, MaxMessages      \* bounds: what the user does, messages of the runs

ASSUME PageConstants ==
  /\ Session # {} /\ Project # {} /\ NoId \notin Session \cup Run \cup Project
  /\ MaxClicks \in Nat /\ MaxMessages \in Nat \ {0}

VARIABLES
  selectedProjectID,        \* by the route
  sessionId, sessionLoaded, agentSession,     \* the session of the page, and what is shown of it
  localStorage,             \* the session that a reload finds
  sessionLoad,              \* the effect that loads a session, unless its clean-up has cancelled it
  chatLoading, chatRunning, chatRunningRef,
  activeRunId, chatEventSource,               \* references: the run that a stop aborts, and its stream
  opened,                   \* event sources that are open, each with the number of events it has handled
  awaiting,                 \* handlers that wait for an answer
  clicks,                   \* of the user, so far
  messagesOf, projectOf,    \* of each session: its messages, and its project if it exists
  runOf, numbered,          \* of each run: its record; the number of messages
  strayed                   \* history: an answer was used after the user had turned away from its question

sessionVars == <<sessionId, sessionLoaded, agentSession, localStorage, sessionLoad>>
busyVars == <<chatLoading, chatRunning, chatRunningRef>>
followVars == <<activeRunId, chatEventSource, opened>>
serverSide == <<messagesOf, projectOf, runOf, numbered>>
pageVars == <<selectedProjectID, sessionVars, busyVars, followVars, awaiting, clicks, serverSide, strayed>>

EMPTY_AGENT_SESSION == [id |-> NoId, messages |-> <<>>]
NoLoad == [of |-> NoId, stale |-> FALSE]
NoRun == [session |-> NoId, state |-> "none", log |-> <<>>, snapshot |-> <<>>]

Live(s) == \E r \in Run : runOf[r].session = s /\ runOf[r].state = "live"
Exists(s) == s # NoId /\ projectOf[s] # NoId
Busy == chatLoading \/ chatRunning
Sending == \E c \in awaiting : c.kind = "send" /\ ~c.stale

\* The tab is opened: a session may be stored, also one of another project.
PageInit ==
  LET there == CHOOSE s \in Session : TRUE
      its   == CHOOSE p \in Project : TRUE
  IN  /\ selectedProjectID \in Project
      /\ messagesOf = [s \in Session |-> IF s = there THEN <<1>> ELSE <<>>] /\ numbered = 1
      /\ projectOf = [s \in Session |-> IF s = there THEN its ELSE NoId]
      /\ localStorage \in {there, NoId} /\ sessionId = localStorage
      /\ sessionLoaded = FALSE /\ agentSession = EMPTY_AGENT_SESSION
      /\ sessionLoad = [of |-> localStorage, stale |-> FALSE]
      /\ chatLoading = FALSE /\ chatRunning = FALSE /\ chatRunningRef = FALSE
      /\ activeRunId = NoId /\ chatEventSource = NoId /\ opened = << >>
      /\ awaiting = {} /\ clicks = 0 /\ runOf = [r \in Run |-> NoRun]
      /\ strayed = (localStorage = there /\ its # selectedProjectID)

-----------------------------------------------------------------------------
(* Parts of handlers. *)

LoadEffectUncancelled ==
  sessionLoad' =
    IF sessionLoad # NoLoad \/ sessionId' = NoId \/ sessionLoaded' THEN sessionLoad
    ELSE [of |-> sessionId', stale |-> FALSE]

\* React runs the clean-up of the load and the effect again when what it depends on has changed.
LoadEffect ==
  sessionLoad' =
    IF sessionId' = sessionId /\ sessionLoaded' = sessionLoaded THEN sessionLoad
    ELSE IF sessionId' # NoId /\ ~sessionLoaded' THEN [of |-> sessionId', stale |-> FALSE]
    ELSE NoLoad

Idle == chatLoading' = FALSE /\ chatRunning' = FALSE /\ chatRunningRef' = FALSE
Closed(open, r) == [q \in DOMAIN open \ {r} |-> open[q]]
CloseRunStream(r) ==
  opened' = Closed(opened, r) /\ chatEventSource' = (IF chatEventSource = r THEN NoId ELSE chatEventSource)

\* abortRun, up to its request; the run ends on the server, at some time.
AbortRun == CloseRunStream(chatEventSource) /\ activeRunId' = NoId /\ Idle

Show(session) ==
  /\ agentSession' = session /\ sessionId' = session.id /\ localStorage' = session.id
ShowNothing == Show(EMPTY_AGENT_SESSION) /\ sessionLoaded' = FALSE

\* Answers to what was asked before are out of place from now on.
Turned(c) == [c EXCEPT !.stale = TRUE]
Click == clicks < MaxClicks /\ clicks' = clicks + 1
Asked(kind, session) ==
  [n |-> clicks, kind |-> kind, session |-> session, project |-> selectedProjectID,
   current |-> session = sessionId, aborting |-> activeRunId # NoId, stale |-> FALSE]
Answered(c) == awaiting' = awaiting \ {c} /\ strayed' = (strayed \/ c.stale)

-----------------------------------------------------------------------------
(* What the user does. *)

\* sendChat up to its request: the button and the text are disabled while the page is busy.
SendChat ==
  /\ Click /\ ~Busy
  /\ CloseRunStream(chatEventSource)
  /\ chatLoading' = TRUE /\ chatRunningRef' = TRUE
  /\ awaiting' = {Turned(c) : c \in awaiting} \cup {Asked("send", sessionId)}
  /\ UNCHANGED <<selectedProjectID, sessionVars, chatRunning, activeRunId, serverSide, strayed>>

StopRun ==
  /\ Click /\ chatRunning
  /\ AbortRun
  /\ UNCHANGED <<selectedProjectID, sessionVars, awaiting, serverSide, strayed>>

StartNewChat ==
  /\ Click
  /\ AbortRun /\ ShowNothing /\ LoadEffect
  /\ awaiting' = {Turned(c) : c \in awaiting}
  /\ UNCHANGED <<selectedProjectID, serverSide, strayed>>

\* The effect on a change of project; a session that is being loaded is not reset.
SelectProject(p) ==
  /\ Click /\ p # selectedProjectID
  /\ selectedProjectID' = p
  /\ AbortRun
  /\ IF sessionId # NoId /\ sessionLoaded
       THEN ShowNothing /\ LoadEffect
       ELSE /\ sessionLoad' = (IF sessionLoad = NoLoad THEN NoLoad ELSE Turned(sessionLoad))
            /\ UNCHANGED <<sessionId, sessionLoaded, agentSession, localStorage>>
  /\ awaiting' = {Turned(c) : c \in awaiting}
  /\ UNCHANGED <<serverSide, strayed>>

\* switchSession up to its request: the tabs are those of the project, without the one that is shown.
SwitchSession(s) ==
  /\ Click /\ ~Busy /\ ~chatRunningRef
  /\ projectOf[s] = selectedProjectID /\ s # agentSession.id
  /\ chatLoading' = TRUE
  /\ awaiting' = awaiting \cup {Asked("switch", s)}
  /\ UNCHANGED <<selectedProjectID, sessionVars, chatRunning, chatRunningRef, followVars, serverSide, strayed>>

\* switchBranch, deleteSession and clearChat first abort the run, and wait for that if there is one.
SwitchBranch ==
  /\ Click /\ ~Busy /\ ~chatRunningRef /\ sessionId # NoId /\ Len(agentSession.messages) > 1
  /\ CloseRunStream(chatEventSource) /\ activeRunId' = NoId
  /\ chatRunning' = FALSE /\ chatRunningRef' = FALSE /\ chatLoading' = (activeRunId = NoId)
  /\ awaiting' = awaiting \cup {Asked("branch", sessionId)}
  /\ UNCHANGED <<selectedProjectID, sessionVars, serverSide, strayed>>

DeleteSession(s) ==
  /\ Click /\ ~Busy /\ projectOf[s] = selectedProjectID
  /\ IF s = sessionId THEN AbortRun ELSE UNCHANGED <<busyVars, followVars>>
  /\ awaiting' = awaiting \cup {[Asked("delete", s) EXCEPT !.aborting = @ /\ s = sessionId]}
  /\ UNCHANGED <<selectedProjectID, sessionVars, serverSide, strayed>>

ClearChat ==
  /\ Click /\ agentSession.messages # <<>>
  /\ AbortRun
  /\ awaiting' = {Turned(c) : c \in awaiting} \cup {Asked("clear", sessionId)}
  /\ UNCHANGED <<selectedProjectID, sessionVars, serverSide, strayed>>

\* The tab is loaded again, maybe by the address of another project: what was not stored is gone.
Reload(p) ==
  /\ Click
  /\ selectedProjectID' = p
  /\ sessionId' = localStorage /\ sessionLoaded' = FALSE /\ agentSession' = EMPTY_AGENT_SESSION
  /\ sessionLoad' = [of |-> localStorage, stale |-> FALSE]
  /\ Idle /\ activeRunId' = NoId /\ chatEventSource' = NoId /\ opened' = << >>
  /\ awaiting' = {}
  /\ strayed' = (strayed \/ (localStorage # NoId /\ projectOf[localStorage] # p))
  /\ UNCHANGED <<localStorage, serverSide>>

-----------------------------------------------------------------------------
(* Answers.  The server handles a request when it is answered, and a request may fail, then without effect. *)

\* The abort that a handler waited for is answered, however: it goes on.
Aborted(c) ==
  /\ c.aborting
  /\ awaiting' = (awaiting \ {c}) \cup {[c EXCEPT !.aborting = FALSE]}
  /\ chatLoading' = (chatLoading \/ c.kind = "branch")
  /\ strayed' = (strayed \/ (c.stale /\ c.kind = "branch"))
  /\ UNCHANGED <<selectedProjectID, sessionVars, chatRunning, chatRunningRef, followVars, clicks, serverSide>>

\* The rest of sendChat, with a run: its session is the one that was named, or a new one.
RunCreated(c, r, s) ==
  /\ c.kind = "send" /\ runOf[r] = NoRun
  /\ IF c.session = NoId THEN projectOf[s] = NoId /\ messagesOf[s] = <<>>
       ELSE s = c.session /\ projectOf[s] = c.project /\ ~Live(s)
  /\ runOf' = [runOf EXCEPT ![r] = [NoRun EXCEPT !.session = s, !.state = "live"]]
  /\ projectOf' = [projectOf EXCEPT ![s] = c.project]
  /\ activeRunId' = r /\ chatLoading' = FALSE /\ chatRunning' = TRUE
  /\ sessionId' = s /\ sessionLoaded' = TRUE /\ localStorage' = s
  /\ agentSession' = [agentSession EXCEPT !.id = s]
  /\ LoadEffect
  /\ chatEventSource' = r /\ opened' = [q \in DOMAIN opened \cup {r} |-> IF q = r THEN 0 ELSE opened[q]]
  /\ Answered(c)
  /\ UNCHANGED <<selectedProjectID, chatRunningRef, clicks, messagesOf, numbered>>

SendFailsQuietly(c) ==
  /\ c.kind = "send"
  /\ Answered(c)
  /\ UNCHANGED <<selectedProjectID, sessionVars, busyVars, followVars, clicks, serverSide>>

\* The catch of sendChat, for a refusal as for a broken connection.
SendFails(c) ==
  /\ c.kind = "send"
  /\ Idle /\ Answered(c)
  /\ UNCHANGED <<selectedProjectID, sessionVars, followVars, clicks, serverSide>>

SwitchAnswered(c) ==
  /\ c.kind = "switch"
  /\ \/ /\ Exists(c.session)
        /\ Show([id |-> c.session, messages |-> messagesOf[c.session]]) /\ sessionLoaded' = TRUE /\ LoadEffect
     \/ UNCHANGED sessionVars
  /\ chatLoading' = FALSE
  /\ Answered(c)
  /\ UNCHANGED <<selectedProjectID, chatRunning, chatRunningRef, followVars, clicks, serverSide>>

\* The branch ends before the last message from now on.
BranchAnswered(c) ==
  /\ c.kind = "branch" /\ ~c.aborting
  /\ \/ /\ Exists(c.session) /\ ~Live(c.session) /\ Len(messagesOf[c.session]) > 1
        /\ messagesOf' = [messagesOf EXCEPT ![c.session] = Front(@)]
        /\ Show([id |-> c.session, messages |-> messagesOf'[c.session]]) /\ sessionLoaded' = TRUE /\ LoadEffect
     \/ UNCHANGED <<messagesOf, sessionVars>>
  /\ Idle
  /\ Answered(c)
  /\ UNCHANGED <<selectedProjectID, followVars, clicks, projectOf, runOf, numbered>>

\* deleteSession resets the page for the session that was current when it was called.
Deleted(c) ==
  /\ c.kind = "delete" /\ ~c.aborting
  /\ \/ /\ ~Live(c.session)
        /\ projectOf' = [projectOf EXCEPT ![c.session] = NoId]
        /\ IF c.current THEN ShowNothing /\ LoadEffect /\ Idle
             ELSE UNCHANGED <<sessionVars, busyVars>>
        /\ Answered(c)
     \/ /\ awaiting' = awaiting \ {c}
        /\ UNCHANGED <<projectOf, sessionVars, busyVars, strayed>>
  /\ UNCHANGED <<selectedProjectID, followVars, clicks, messagesOf, runOf, numbered>>

Cleared(c) ==
  /\ c.kind = "clear" /\ ~c.aborting
  /\ \/ /\ c.session # NoId => ~Live(c.session)
        /\ projectOf' = [s \in Session |-> IF s = c.session THEN NoId ELSE projectOf[s]]
        /\ ShowNothing /\ LoadEffect /\ Idle /\ Answered(c)
     \/ /\ c.session # NoId /\ awaiting' = awaiting \ {c}
        /\ UNCHANGED <<projectOf, sessionVars, busyVars, strayed>>
  /\ UNCHANGED <<selectedProjectID, followVars, clicks, messagesOf, runOf, numbered>>

\* The effect that loads the stored session.
Loaded ==
  /\ sessionLoad # NoLoad
  /\ \/ /\ Exists(sessionLoad.of)
        /\ agentSession' = [id |-> sessionLoad.of, messages |-> messagesOf[sessionLoad.of]]
        /\ sessionLoaded' = TRUE /\ UNCHANGED <<sessionId, localStorage>>
     \/ localStorage' = NoId /\ sessionId' = NoId /\ UNCHANGED <<agentSession, sessionLoaded>>
  /\ sessionLoad' = NoLoad /\ strayed' = (strayed \/ sessionLoad.stale)
  /\ UNCHANGED <<selectedProjectID, busyVars, followVars, awaiting, clicks, serverSide>>

-----------------------------------------------------------------------------
(* The runs, and the events of their streams: each message starts and ends. *)

RunWorks(r) ==
  /\ runOf[r].state = "live" /\ numbered < MaxMessages
  /\ numbered' = numbered + 1
  /\ messagesOf' = [messagesOf EXCEPT ![runOf[r].session] = Append(@, numbered')]
  /\ runOf' = [runOf EXCEPT ![r].log = Append(@, numbered')]
  /\ UNCHANGED <<selectedProjectID, sessionVars, busyVars, followVars, awaiting, clicks, projectOf, strayed>>

Finish(r) ==
  /\ runOf[r].state = "live"
  /\ runOf' = [runOf EXCEPT ![r].state = "over", ![r].snapshot = messagesOf[runOf[r].session]]
  /\ UNCHANGED <<selectedProjectID, sessionVars, busyVars, followVars, awaiting, clicks, messagesOf, projectOf,
                 numbered, strayed>>

AlwaysAppend(messages, m) == Append(messages, m)

\* upsertMessage: an event of the last message replaces it.
Upsert(messages, m) == IF messages # <<>> /\ Last(messages) = m THEN messages ELSE Append(messages, m)

Events(r) == 2 * Len(runOf[r].log)

EventArrives(r) ==
  /\ r \in DOMAIN opened /\ opened[r] < Events(r)
  /\ opened' = [opened EXCEPT ![r] = @ + 1]
  /\ agentSession' = [agentSession EXCEPT !.messages = Upsert(@, runOf[r].log[opened[r] \div 2 + 1])]
  /\ UNCHANGED <<selectedProjectID, sessionId, sessionLoaded, localStorage, sessionLoad, busyVars, activeRunId,
                 chatEventSource, awaiting, clicks, serverSide, strayed>>

\* run_done or run_error: a snapshot that was too large comes without its messages.
RunOver(r) ==
  /\ r \in DOMAIN opened /\ opened[r] = Events(r) /\ runOf[r].state = "over"
  /\ \E messages \in {runOf[r].snapshot, <<>>} :
       Show([id |-> runOf[r].session, messages |-> IF messages # <<>> THEN messages ELSE agentSession.messages])
  /\ Idle /\ activeRunId' = NoId /\ CloseRunStream(r)
  /\ sessionLoaded' = sessionLoaded /\ LoadEffect
  /\ UNCHANGED <<selectedProjectID, awaiting, clicks, serverSide, strayed>>

StreamBreaksSilently(r) ==
  /\ r \in DOMAIN opened
  /\ activeRunId' = NoId /\ CloseRunStream(r)
  /\ UNCHANGED <<busyVars, selectedProjectID, sessionVars, awaiting, clicks, serverSide, strayed>>

\* onerror: the page does not let the source reconnect.
StreamBreaks(r) ==
  /\ r \in DOMAIN opened
  /\ Idle /\ activeRunId' = NoId /\ CloseRunStream(r)
  /\ UNCHANGED <<selectedProjectID, sessionVars, awaiting, clicks, serverSide, strayed>>

-----------------------------------------------------------------------------
UserNext ==
  \/ SendChat \/ StopRun \/ StartNewChat \/ SwitchBranch \/ ClearChat
  \/ \E p \in Project : SelectProject(p) \/ Reload(p)
  \/ \E s \in Session : SwitchSession(s) \/ DeleteSession(s)
CallNext(c) ==
  \/ Aborted(c) \/ SendFails(c) \/ SwitchAnswered(c) \/ BranchAnswered(c) \/ Deleted(c) \/ Cleared(c)
  \/ \E r \in Run, s \in Session : RunCreated(c, r, s)
StreamNext(r) == EventArrives(r) \/ RunOver(r) \/ StreamBreaks(r)

PageNext ==
  \/ UserNext \/ Loaded
  \/ \E c \in awaiting : CallNext(c)
  \/ \E r \in Run : RunWorks(r) \/ Finish(r) \/ StreamNext(r)

PageSpec == PageInit /\ [][PageNext]_pageVars

-----------------------------------------------------------------------------
PageTypeOK ==
  /\ selectedProjectID \in Project
  /\ {sessionId, localStorage, agentSession.id, sessionLoad.of} \subseteq Session \cup {NoId}
  /\ {chatLoading, chatRunning, chatRunningRef, sessionLoaded, strayed} \subseteq BOOLEAN
  /\ {activeRunId, chatEventSource} \subseteq Run \cup {NoId} /\ DOMAIN opened \subseteq Run
  /\ numbered \in 1 .. MaxMessages /\ clicks \in 0 .. MaxClicks

\* The tab, its storage and its view are about one session, whatever answers come in whatever order.
OneSession ==
  /\ localStorage = sessionId
  /\ sessionLoaded => sessionId # NoId /\ agentSession.id = sessionId
  /\ sessionLoad # NoLoad => sessionLoad.of = sessionId /\ ~sessionLoaded

\* What is shown as running is followed by a stream, and the stop button reaches it.
StopReaches ==
  chatRunning => activeRunId # NoId /\ chatEventSource = activeRunId /\ activeRunId \in DOMAIN opened

\* As long as no answer strays, one run is followed at a time, and the reference that handlers ask says so.
OneRunFollowed ==
  ~strayed =>
    /\ DOMAIN opened = (IF chatRunning THEN {activeRunId} ELSE {})
    /\ chatRunningRef <=> (chatRunning \/ Sending)

\* ... and the messages shown are of one session of this project, in their order and each once.
NothingForeign ==
  ~strayed =>
    /\ agentSession.id # NoId => projectOf[agentSession.id] \in {selectedProjectID, NoId}
    /\ agentSession.id = NoId => agentSession.messages = <<>>
    /\ agentSession.id # NoId => ToSet(agentSession.messages) \subseteq ToSet(messagesOf[agentSession.id])
    /\ \A i, j \in DOMAIN agentSession.messages : i < j => agentSession.messages[i] < agentSession.messages[j]

\* App.tsx: the session shown, the one stored, its load, the run that is followed and
\* the one that the stop button reaches belong together after every answer.
PageSound == PageTypeOK /\ OneSession /\ StopReaches /\ OneRunFollowed /\ NothingForeign

\* A page that is busy, and so takes no input, becomes free again.
BusyEnds == Busy ~> ~Busy
=============================================================================
