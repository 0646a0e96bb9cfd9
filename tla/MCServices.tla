----------------------------- MODULE MCServices -----------------------------
(***************************************************************************)
(* Small instances for TLC of services that share no state in these models: *)
(* each behaviour exercises one of them, its subject, and leaves the         *)
(* variables of the others where they start.                                *)
(***************************************************************************)
EXTENDS RateLimits, Accounts, ServerLifecycle, ChatPage, SkillStore, LogHub, FiniteSets, TLC

CONSTANTS Subjects,
          Model, Reporting, ToolCall, ContextWindow, MaxTokens, SafetyTokens,
          MaxPath, MaxReplies, MaxCompactions,
          Requester, ProjectName, Ref, MaxNodeletId, NodeletLists, NoName, Keep,
          Ids, Host, HostId, HostName, Config, NativeNames, WorkspaceNames, MaxConnections, MaxDisabled

VARIABLES subject,
  path, model,
  db, stored, lastId, requests, mu, meant, loose,
  connections, disabled

Context == INSTANCE ModelContext
Fleet   == INSTANCE Fleet
Names   == INSTANCE ToolNames

\* A list that names a nodelet twice is refused.
SomeLists == {<<1>>, <<1, 1>>}

\* Connections of one type whose names, tools and servers meet in many ways: a
\* tool that is named like one of another server in full, a name that is the type.
SomeIds == <<<<"a">>, <<"r", "b">>, <<"c">>>>
SomeHostId == [h \in Host |-> <<h>>]
SomeHostName == [h \in Host |-> IF h = "h1" THEN <<"x">> ELSE <<>>]
SomeConfig ==
  LET Of(name, host, tools, resources) ==
        [type |-> <<"r">>, name |-> name, host |-> host, tools |-> tools, resources |-> resources]
  IN  {Of(<<"main">>, "h1", <<<<"get">>, <<"put">>>>, TRUE), Of(<<"r">>, "h1", <<<<"r", "get">>>>, FALSE),
       Of(<<>>, "h2", <<<<"server", "x", "get">>, <<"get">>>>, TRUE)}
SomeNativeNames == {<<"r", "put">>, <<"skill">>}
SomeWorkspaceNames == {<<"read">>}

contextVars == <<path, model>>
fleetVars == <<db, stored, lastId, requests, mu, meant, loose>>
nameVars == <<connections, disabled>>

\* What the start leaves open is left open for the subject only.
Init ==
  /\ subject \in Subjects
  /\ HubInit
  /\ SkillInit
  /\ Context!ContextInit
  /\ Fleet!FleetInit
  /\ AccountInit
  /\ LimitInit
  /\ ServerInit
  /\ Names!NamesInit
  /\ PageInit
  /\ subject # "server" => ownsHub
  /\ subject # "page" => localStorage = NoId /\ selectedProjectID = CHOOSE p \in Project : TRUE
  /\ subject # "context" => model = CHOOSE m \in Model : TRUE

vars == <<subject, hubVars, skillVars, contextVars, fleetVars, accountVars, limitVars, serverVars, nameVars,
          pageVars>>

HubStep ==
  /\ subject = "hub" /\ HubNext
  /\ UNCHANGED <<subject, skillVars, contextVars, fleetVars, accountVars, limitVars, serverVars, nameVars, pageVars>>
SkillStep ==
  /\ subject = "skills" /\ SkillNext
  /\ UNCHANGED <<subject, hubVars, contextVars, fleetVars, accountVars, limitVars, serverVars, nameVars, pageVars>>
ContextStep ==
  /\ subject = "context" /\ Context!ContextNext
  /\ UNCHANGED <<subject, hubVars, skillVars, fleetVars, accountVars, limitVars, serverVars, nameVars, pageVars>>
FleetStep ==
  /\ subject = "fleet" /\ Fleet!FleetNext
  /\ UNCHANGED <<subject, hubVars, skillVars, contextVars, accountVars, limitVars, serverVars, nameVars, pageVars>>
AccountStep ==
  /\ subject = "accounts" /\ AccountNext
  /\ UNCHANGED <<subject, hubVars, skillVars, contextVars, fleetVars, limitVars, serverVars, nameVars, pageVars>>
LimitStep ==
  /\ subject = "limits" /\ LimitNext
  /\ UNCHANGED <<subject, hubVars, skillVars, contextVars, fleetVars, accountVars, serverVars, nameVars, pageVars>>
ServerStep ==
  /\ subject = "server" /\ ServerNext
  /\ UNCHANGED <<subject, hubVars, skillVars, contextVars, fleetVars, accountVars, limitVars, nameVars, pageVars>>
NameStep ==
  /\ subject = "names" /\ Names!NamesNext
  /\ UNCHANGED <<subject, hubVars, skillVars, contextVars, fleetVars, accountVars, limitVars, serverVars, pageVars>>
PageStep ==
  /\ subject = "page" /\ PageNext
  /\ UNCHANGED <<subject, hubVars, skillVars, contextVars, fleetVars, accountVars, limitVars, serverVars, nameVars>>

Next ==
  \/ HubStep \/ SkillStep \/ ContextStep \/ FleetStep \/ AccountStep \/ LimitStep
  \/ ServerStep \/ NameStep \/ PageStep

Spec == Init /\ [][Next]_vars

-----------------------------------------------------------------------------
(* The properties of the instantiated modules, with the types of their state; the others are theirs: *)
(* LinesExact, TailSpec, HotReload, AccountLasts, LimitsHold, NoUseAfterClose and PageSound.         *)

\* model, compaction: a provider accepts the request, it fits, and what it lacks is in a summary.
ContextSound ==
  Context!ContextTypeOK /\ Context!RequestExecutable /\ Context!AnswerFits /\ Context!DroppedIsSummarized
\* api, runtime: each tool has a name of its own, which keeps its meaning.
ToolsReached == Names!NamesTypeOK /\ Names!ToolsReached /\ Names!MeaningKept
=============================================================================
