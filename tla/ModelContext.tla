----------------------------- MODULE ModelContext -----------------------------
(***************************************************************************)
(* What a model is told: the conversation as the agent keeps it, the parts   *)
(* of it that compactions replaced by summaries (compaction.Prepare and      *)
(* Compact), and the request that is made of the rest for the model that is  *)
(* selected (TransformMessages, messagesFromContext and the limit of tokens  *)
(* of BuildBaseOptions).                                                    *)
(*                                                                          *)
(* A text is not looked at: a message is one token, and a summary is the set *)
(* of messages that its text was made from.  Images are left out, and        *)
(* NormalizeToolCallID, which no provider sets.                             *)
(***************************************************************************)
EXTENDS Integers, Sequences, FiniteSets, SequencesExt, FiniteSetsExt

CONSTANTS Model,         \* the models a user can select
          Reporting,     \* those whose provider reports the usage
          ToolCall,      \* ids of tool calls; a provider may use them again
          ContextWindow, \* tokens that a model takes
          MaxTokens,     \* the configured limit of an answer
          SafetyTokens,  \* ContextSafetyTokens
          MaxPath, MaxReplies, MaxCompactions  \* bounds on the conversation

VARIABLES
  path,     \* the entries of the conversation
  model     \* the one that is selected

contextVars == <<path, model>>

\* An assistant message was made by a model, has some of thinking and text, and
\* asks for calls; a result answers one call; a compaction keeps what follows
\* from an entry on, and its summary covers some entries.
Entry(kind) ==
  [kind |-> kind, by |-> "none", thinking |-> "none", text |-> FALSE, calls |-> {},
   usage |-> 0, kept |-> 0, covers |-> {}]
Result(c) == [Entry("result") EXCEPT !.calls = {c}]

Count(kinds) == Cardinality({i \in DOMAIN path : path[i].kind \in kinds})

ContextInit == path = <<>> /\ model \in Model

-----------------------------------------------------------------------------
(* The context: lastCompaction and what it kept. *)

LastCompaction == Max({0} \cup {i \in DOMAIN path : path[i].kind = "compaction"})

Context ==
  LET c    == LastCompaction
      from == IF c = 0 THEN 1 ELSE path[c].kept
  IN  (IF c = 0 THEN <<>> ELSE <<Entry("user")>>)
        \o SelectSeq(SubSeq(path, from, Len(path)), LAMBDA e : e.kind # "compaction")

-----------------------------------------------------------------------------
(* TransformMessages. *)

\* transformAssistantHistory and transformThinking: what only its maker can use
\* is taken out for another model, and thinking becomes text.
ForModel(m) ==
  IF m.kind # "assistant" \/ m.by = model THEN m
  ELSE [m EXCEPT !.text = @ \/ m.thinking = "plain", !.thinking = "none"]

Missing(call) == [Result(call) EXCEPT !.by = "inserted"]

\* insertMissing: a failed result for each call that has none.
InsertMissing(s) ==
  LET missing == SetToSeq(s.pending \ s.existing)
  IN  [out |-> s.out \o [i \in DOMAIN missing |-> Missing(missing[i])],
       pending |-> {}, existing |-> {}]

\* Faulty variant: the results seen so far are not forgotten.
NextMessageKeeping(s, m) ==
  LET filled == [InsertMissing(s) EXCEPT !.existing = s.existing]
  IN  CASE m.kind = "failed"    -> filled
        [] m.kind = "assistant" -> [filled EXCEPT !.out = Append(@, m), !.pending = m.calls]
        [] m.kind = "result"    -> [s EXCEPT !.out = Append(@, m), !.existing = @ \cup m.calls]
        [] m.kind = "user"      -> [filled EXCEPT !.out = Append(@, m)]

\* completeToolResultHistory: one message.
NextMessage(s, m) ==
  CASE m.kind = "failed"    -> InsertMissing(s)
    [] m.kind = "assistant" -> [InsertMissing(s) EXCEPT !.out = Append(@, m), !.pending = m.calls]
    [] m.kind = "result"    -> [s EXCEPT !.out = Append(@, m), !.existing = @ \cup m.calls]
    [] m.kind = "user"      -> [InsertMissing(s) EXCEPT !.out = Append(@, m)]

TransformMessages(messages) ==
  InsertMissing(FoldLeft(NextMessage, [out |-> <<>>, pending |-> {}, existing |-> {}],
                         [i \in DOMAIN messages |-> ForModel(messages[i])])).out

\* isEmptyAssistantForProvider: thinking alone is no message.
EmptyForProvider(m) == m.kind = "assistant" /\ ~m.text /\ m.calls = {}

Transformed == TransformMessages(Context)
RequestMessages == SelectSeq(Transformed, LAMBDA m : ~EmptyForProvider(m))

-----------------------------------------------------------------------------
(* The limit of tokens. *)

\* latestAssistantUsage, or 0.
LastUsage(messages) == Max({0} \cup {i \in DOMAIN messages : messages[i].usage > 0})

\* Faulty variant: what came after the last usage is not counted.
EstimateOfUsage(messages) ==
  LET i == LastUsage(messages) IN IF i = 0 THEN Len(messages) ELSE messages[i].usage

EstimateContextTokens(messages) ==
  LET i == LastUsage(messages)
  IN  IF i = 0 THEN Len(messages) ELSE messages[i].usage + Len(messages) - i

\* ClampMaxTokensToContext.
TokenLimit ==
  Min({MaxTokens, Max({1, ContextWindow - EstimateContextTokens(Transformed) - SafetyTokens})})

-----------------------------------------------------------------------------
(* The conversation. *)

\* The calls of the last assistant message that are not answered yet.
Open ==
  LET a == Max({0} \cup {i \in DOMAIN path : path[i].kind \notin {"result", "compaction"}})
  IN  IF a = 0 THEN {}
      ELSE path[a].calls \ UNION {path[i].calls : i \in (a + 1)..Len(path)}

Add(entry) == Len(path) < MaxPath /\ path' = Append(path, entry) /\ UNCHANGED model

\* The user speaks: at first, between two turns, or after a run was aborted.
Ask == Add(Entry("user"))

\* The model answers a request, with the size of both, if its provider reports that.
Reply ==
  /\ path # <<>> /\ Last(path).kind \in {"user", "result"} /\ Open = {}
  /\ Count({"assistant"}) < MaxReplies
  /\ \E thinking \in {"none", "plain", "redacted"}, text \in BOOLEAN, calls \in SUBSET ToolCall :
       Add([Entry("assistant") EXCEPT !.by = model, !.thinking = thinking, !.text = text,
                                      !.calls = calls,
                                      !.usage = IF model \in Reporting THEN Len(RequestMessages) + 1 ELSE 0])

\* The tools end in any order.
RunTool == \E c \in Open : Last(path).kind # "failed" /\ Add(Result(c))

\* The request fails or the run is aborted, also between two results.
Fail ==
  /\ path # <<>> /\ Last(path).kind \in {"user", "assistant", "result"}
  /\ Add(Entry("failed"))

Select ==
  /\ \E m \in Model \ {model} : model' = m
  /\ UNCHANGED path

-----------------------------------------------------------------------------
(* Compaction. *)

\* Where the part begins that the last compaction left.
Boundary == IF LastCompaction = 0 THEN 1 ELSE path[LastCompaction].kept

\* FindCutPoint: any, as the sizes decide, but never a result.
CutPoints == {i \in Boundary..Len(path) : path[i].kind \notin {"result", "compaction"}}

\* FindTurnStartIndex, when the cut is within a turn, or 0.
TurnStart(cut) ==
  IF path[cut].kind = "user" THEN 0
  ELSE Max({0} \cup {i \in Boundary..cut : path[i].kind = "user"})

Messages(from, to) == {i \in from..(to - 1) : path[i].kind # "compaction"}

\* Faulty variant: the previous summary is not carried on.
CoveredAnew(cut) == Messages(Boundary, cut)

\* Prepare and Compact: the history before a turn that is cut and the first part
\* of the turn are summarized on their own.  The previous summary goes into that
\* of the history, unless there is no history.
Covered(cut) ==
  LET start    == TurnStart(cut)
      history  == Messages(Boundary, IF start = 0 THEN cut ELSE start)
      prefix   == IF start = 0 THEN {} ELSE Messages(start, cut)
      previous == IF LastCompaction = 0 THEN {} ELSE path[LastCompaction].covers
  IN  history \cup prefix \cup (IF prefix # {} /\ history = {} THEN {} ELSE previous)

Compact ==
  /\ path # <<>> /\ Last(path).kind # "compaction"
  /\ Count({"compaction"}) < MaxCompactions
  /\ \E cut \in CutPoints : Add([Entry("compaction") EXCEPT !.kept = cut, !.covers = Covered(cut)])

ContextNext == Ask \/ Reply \/ RunTool \/ Fail \/ Select \/ Compact

-----------------------------------------------------------------------------
ContextTypeOK ==
  /\ model \in Model /\ Len(path) <= MaxPath
  /\ \A i \in DOMAIN path :
       /\ path[i].kind \in {"user", "assistant", "failed", "result", "compaction"}
       /\ path[i].by \in Model \cup {"none"} /\ path[i].calls \subseteq ToolCall
       /\ path[i].kept \in 0..(i - 1) /\ path[i].covers \subseteq 1..(i - 1)

\* The last message up to i that is no result.
Owner(messages, i) == Max({0} \cup {j \in 1..i : messages[j].kind # "result"})

Of(messages, kinds) == SelectSeq(messages, LAMBDA m : m.kind \in kinds)

\* Any model takes the request, wherever runs were interrupted, models changed
\* and histories cut: what the user said is there and in order, an answer that
\* failed is not; each call is answered once, right after the message that asks,
\* with its own result when there is one; and nothing is left of another model
\* that only that model can read.
RequestExecutable ==
  LET request == RequestMessages  context == Context
  IN  /\ Of(request, {"user"}) = Of(context, {"user"})
      /\ Of(request, {"assistant"}) =
           SelectSeq(Of([i \in DOMAIN context |-> ForModel(context[i])], {"assistant"}),
                     LAMBDA m : ~EmptyForProvider(m))
      /\ \A i \in DOMAIN request : request[i].kind \in {"user", "assistant", "result"}
      /\ \A i \in DOMAIN request : request[i].kind = "assistant" =>
           \A c \in request[i].calls :
             Cardinality({j \in DOMAIN request : request[j].calls = {c}
                            /\ request[j].kind = "result" /\ Owner(request, j) = i}) = 1
      /\ \A j \in DOMAIN request : request[j].kind = "result" =>
           LET i == Owner(request, j) IN i # 0 /\ request[j].calls \subseteq request[i].calls
      /\ Len(SelectSeq(request, LAMBDA m : m.kind = "result" /\ m.by = "none"))
           = Len(Of(context, {"result"}))
      /\ \A i \in DOMAIN request : request[i].by \notin {"none", "inserted", model} => request[i].thinking = "none"

\* What a request contains that was not in the one whose usage is reused: a
\* summary that was written since, and thinking that only became text because
\* another model was selected.
Unseen ==
  LET u == Max({0} \cup {i \in DOMAIN path : path[i].usage > 0})
  IN  (IF LastCompaction > u THEN 1 ELSE 0)
        + Cardinality({i \in 1..(u - 1) : EmptyForProvider(path[i]) /\ ~EmptyForProvider(ForModel(path[i]))})

\* The answer that is asked for fits in the window with the request, and at
\* least one token is asked for, as long as the margin covers what the usage
\* that a provider reported knows nothing of.
AnswerFits ==
  LET limit == TokenLimit
  IN  /\ limit \in 1..MaxTokens
      /\ limit > 1 /\ Unseen <= SafetyTokens => Len(RequestMessages) + limit <= ContextWindow

\* The summary before a compaction is lost in it when the cut falls into the turn
\* at whose beginning the last cut was: there is no history then.
Forgets(c) ==
  LET last == Max({0} \cup {i \in 1..(c - 1) : path[i].kind = "compaction"})
  IN  /\ last # 0 /\ path[path[last].kept].kind = "user"
      /\ path[c].kept > path[last].kept
      /\ \A i \in (path[last].kept + 1)..path[c].kept : path[i].kind # "user"

\* What compactions drop is in the last summary, also when a turn is cut in two,
\* except for what one that forgot was to carry on.
DroppedIsSummarized ==
  LET compactions == {i \in DOMAIN path : path[i].kind = "compaction"}
  IN  \A c \in compactions :
        \/ Messages(1, path[c].kept) \subseteq path[c].covers
        \/ \E d \in compactions : d <= c /\ Forgets(d)
===============================================================================
