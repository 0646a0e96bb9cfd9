---------------------------- MODULE SessionTree ----------------------------
(***************************************************************************)
(* The history of one chat session (internal/agent/runtime/session): a    *)
(* tree of entries of which one path, the one that ends in the leaf, is    *)
(* the conversation.  The module holds the functions of the package; the   *)
(* state is in AgentSession.                                               *)
(*                                                                         *)
(* An entry is named by its place in the history, as entries are only      *)
(* ever added and an entry is stored after its parent (loadEntryLocked     *)
(* rejects any other file).  0 is the empty id "".  The text of messages   *)
(* and summaries is left out: msg numbers the user messages, and a tool    *)
(* call is known by its place in the message that asks for it.             *)
(***************************************************************************)
EXTENDS Integers, Sequences, FiniteSets, FiniteSetsExt, Functions

CONSTANT Calls       \* the tool calls one assistant message can hold

ASSUME CallsAssumption == Calls \subseteq Nat /\ IsFiniteSet(Calls)

(***************************************************************************)
(* "assistant" and "failed" are the assistant messages that ended well and *)
(* those with the stop reason error or aborted.  "state" stands for the    *)
(* model, thinking level and tool changes, which lie on a path and carry   *)
(* no message; "leaf" moves the leaf to ref; "compaction" keeps the        *)
(* entries from ref on.                                                    *)
(***************************************************************************)
MessageKinds == {"user", "assistant", "failed", "result", "summary"}
Kinds        == MessageKinds \cup {"state", "leaf", "compaction"}

NewEntry(kind)       == [kind |-> kind, parent |-> 0, ref |-> 0, msg |-> 0, calls |-> {}]
UserEntry(m)         == [NewEntry("user") EXCEPT !.msg = m]
AssistantEntry(asks) == [NewEntry("assistant") EXCEPT !.calls = asks]
FailedEntry(asks)    == [NewEntry("failed") EXCEPT !.calls = asks]
ResultEntry(c)       == [NewEntry("result") EXCEPT !.calls = {c}]
StateEntry           == NewEntry("state")
LeafEntry(i)         == [NewEntry("leaf") EXCEPT !.ref = i]
CompactionEntry(i)   == [NewEntry("compaction") EXCEPT !.ref = i]
SummaryEntry         == NewEntry("summary")

-----------------------------------------------------------------------------
(* Paths and contexts *)

\* The entries from the root to leaf.
Path(h, leaf) ==
  LET path[i \in 0..Len(h)] == IF i = 0 THEN <<>> ELSE Append(path[h[i].parent], i)
  IN  path[leaf]

OnPath(h, leaf) == Range(Path(h, leaf))

\* The place of the last compaction on path p, or 0.
LastCompaction(h, p) ==
  LET last[k \in 0..Len(p)] ==
        IF k # 0 /\ h[p[k]].kind # "compaction" THEN last[k - 1] ELSE k
  IN  last[Len(p)]

\* The entries whose messages the model is given: the whole path, or after a
\* compaction its summary, the entries it kept and those that followed.
ContextOf(h, leaf) ==
  LET p       == Path(h, leaf)
      c       == LastCompaction(h, p)
      kept    == {k \in DOMAIN p : p[k] >= h[p[c]].ref /\ k # c}
      said(i) == h[i].kind \in MessageKinds
  IN  IF c = 0 THEN SelectSeq(p, said)
      ELSE <<p[c]>> \o SelectSeq(SubSeq(p, Min(kept \cup {c}), Len(p)), said)

-----------------------------------------------------------------------------
(* Message sequences: every tool call is answered before anything else is   *)
(* said, once, and nothing is answered that was not asked.                  *)

\* The messages the analysis looks at.
Items(h, context) == LET counts(i) == h[i].kind # "failed" IN SelectSeq(context, counts)

IsResult(h, s, j) == h[s[j]].kind = "result"
AsksFor(h, i)     == IF h[i].kind = "assistant" THEN h[i].calls ELSE {}

\* The last message up to j that is no tool result, or 0.
Owner(h, s, j) ==
  LET owner[k \in 0..j] == IF k # 0 /\ IsResult(h, s, k) THEN owner[k - 1] ELSE k
  IN  owner[j]

Answered(h, s, i) ==
  UNION {h[s[j]].calls : j \in {k \in (i + 1)..Len(s) : Owner(h, s, k) = i}}

\* A result that nobody asked for, or that was given before.
StrayResult(h, s, j) ==
  /\ IsResult(h, s, j)
  /\ LET o == Owner(h, s, j)
     IN  \/ o = 0
         \/ ~ (h[s[j]].calls \subseteq AsksFor(h, s[o]))
         \/ \E k \in (o + 1)..(j - 1) : h[s[k]].calls = h[s[j]].calls

Unanswered(h, s, i) == AsksFor(h, s[i]) # Answered(h, s, i) /\ ~IsResult(h, s, i)

Invalid(h, context) ==
  \E s \in {Items(h, context)} : \E j \in DOMAIN s :
    \/ StrayResult(h, s, j)
    \/ Unanswered(h, s, j) /\ Owner(h, s, Len(s)) # j

\* The assistant message at the end whose calls are not all answered, or 0.
PendingAssistant(h, context) ==
  LET s == Items(h, context)
      o == Owner(h, s, Len(s))
  IN  IF o # 0 /\ ~Invalid(h, context) /\ Unanswered(h, s, o) THEN s[o] ELSE 0

Complete(h, context) == ~Invalid(h, context) /\ PendingAssistant(h, context) = 0

\* The leaf a conversation goes on from: before the calls left unanswered.
ExecutableLeaf(h, leaf) ==
  LET a == PendingAssistant(h, ContextOf(h, leaf))
  IN  IF a = 0 THEN leaf ELSE h[a].parent

BuildContext(h, leaf) == ContextOf(h, ExecutableLeaf(h, leaf))

-----------------------------------------------------------------------------
(* Adding entries *)

\* The ends of all branches and the entries a leaf entry went to.
Tips(h) ==
  {i \in DOMAIN h : \A j \in DOMAIN h : h[j].parent # i}
    \cup {h[i].ref : i \in {j \in DOMAIN h : h[j].kind = "leaf" /\ h[j].ref # 0}}

ValidHistory(h) == \A t \in Tips(h) : ~Invalid(h, ContextOf(h, t))

Prepared(leaf, e) == IF e.kind = "leaf" THEN e ELSE [e EXCEPT !.parent = leaf]

Stored(h, leaf, e) == Append(h, Prepared(leaf, e))

\* What adding e makes of the leaf.
LeafAfter(h, e) == IF e.kind = "leaf" THEN e.ref ELSE Len(h) + 1

Admits(h, leaf, e) ==
  /\ e.kind = "compaction" => e.ref \in OnPath(h, leaf)
  /\ \A next \in {Stored(h, leaf, e)} : ValidHistory(next)

\* Faulty variant: leaf entries are passed over.
LoadedLeafLastAdded(h) == ExecutableLeaf(h, Len(h))

\* The leaf after the file is read again.
LoadedLeaf(h) ==
  LET last == Len(h)
      raw  == IF last = 0 THEN 0 ELSE LeafAfter(SubSeq(h, 1, last - 1), h[last])
  IN  ExecutableLeaf(h, raw)

-----------------------------------------------------------------------------
(* Navigation *)

AsksTools(h, i) == h[i].kind \in {"assistant", "failed"} /\ h[i].calls # {}

\* The nearest entry on the path of leaf with a complete conversation.
SafeBoundary(h, leaf) ==
  Max({0} \cup {i \in OnPath(h, leaf) : Complete(h, ContextOf(h, i))})

\* The last results of the chains that answer every call of assistant a once.
ToolUnits(h, a) ==
  {x \in DOMAIN h :
     LET p     == Path(h, x)
         chain == {i \in OnPath(h, x) : i > a}
     IN  /\ a \in OnPath(h, x)
         /\ \A i \in chain : h[i].kind = "result" /\ h[i].calls \subseteq h[a].calls
         /\ UNION {h[i].calls : i \in chain} = h[a].calls
         /\ Cardinality(chain) = Cardinality(h[a].calls)}

\* The order in which the walk over the children meets two entries.
MetBefore(h, x, y) ==
  LET p == Path(h, x)
      q == Path(h, y)
  IN  \E k \in DOMAIN p \cap DOMAIN q : p[k] < q[k] /\ \A l \in 1..(k - 1) : p[l] = q[l]

FirstMet(h, units) == CHOOSE x \in units : \A y \in units \ {x} : MetBefore(h, x, y)

\* The assistant whose calls entry r answers.
Asker(h, r) ==
  LET asks == {i \in OnPath(h, h[r].parent) : AsksTools(h, i)}
      a    == Max({0} \cup asks)
  IN  IF \A i \in OnPath(h, h[r].parent) : i > a => h[i].kind = "result" THEN a ELSE 0

\* Where choosing the assistant message a leads.
FromAssistant(h, leaf, a) ==
  LET units  == ToolUnits(h, a)
      active == units \cap OnPath(h, leaf)
  IN  CASE active # {}              -> FirstMet(h, active)
        [] active = {} /\ Cardinality(units) = 1 -> CHOOSE x \in units : TRUE
        [] OTHER                    -> SafeBoundary(h, h[a].parent)

\* Where choosing the tool result r leads.
FromResult(h, r) ==
  LET a     == Asker(h, r)
      units == IF a = 0 THEN {} ELSE {x \in ToolUnits(h, a) : r \in OnPath(h, x)}
  IN  CASE a = 0                  -> SafeBoundary(h, h[r].parent)
        [] a # 0 /\ units # {}    -> FirstMet(h, units)
        [] OTHER                  -> SafeBoundary(h, h[a].parent)

\* The leaf to go to when a user chooses entry t; a chosen user message is
\* edited, so the conversation goes back to before it.
NavigationTarget(h, leaf, t) ==
  IF t = 0 THEN 0
  ELSE CASE h[t].kind = "user"   -> h[t].parent
         [] AsksTools(h, t)      -> FromAssistant(h, leaf, t)
         [] h[t].kind = "result" -> FromResult(h, t)
         [] OTHER                -> t

-----------------------------------------------------------------------------
(* Compaction *)

\* The part of the path a compaction can keep from: after what the previous
\* one dropped.
Compactable(h, leaf) ==
  LET c == Max({0} \cup {i \in OnPath(h, leaf) : h[i].kind = "compaction"})
  IN  {i \in OnPath(h, leaf) : c # 0 => i >= h[c].ref}

\* Faulty variant: tool results are cut points.
CutPointsAnywhere(h, leaf) == {i \in Compactable(h, leaf) : h[i].kind \in MessageKinds}

CutPoints(h, leaf) ==
  {i \in Compactable(h, leaf) : h[i].kind \in MessageKinds \ {"result"}}

\* The state entries right before a cut stay with what is kept.
WithStateBefore(h, leaf, cut) ==
  LET before == {i \in Compactable(h, leaf) : i < cut}
      stops  == {i \in before : h[i].kind \in (MessageKinds \cup {"compaction"}) \ {"summary"}}
  IN  Min({cut} \cup {i \in before : \A j \in stops : i > j})

\* The entries FindCutPoint can settle on: for every place at which the
\* tokens to keep may run out, the first cut point from there on.
FirstKept(h, leaf) ==
  LET cuts    == CutPoints(h, leaf)
      runsOut == {i \in Compactable(h, leaf) : h[i].kind \in MessageKinds \ {"summary"}}
      cutAt(i) == IF \E c \in cuts : c >= i THEN Min({c \in cuts : c >= i}) ELSE Min(cuts)
  IN  IF cuts = {} THEN {Min(Compactable(h, leaf))}
      ELSE {WithStateBefore(h, leaf, c) : c \in {Min(cuts)} \cup {cutAt(i) : i \in runsOut}}

MayCompact(h, leaf) == leaf # 0 /\ h[leaf].kind # "compaction"
=============================================================================
