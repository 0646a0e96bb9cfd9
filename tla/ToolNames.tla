------------------------------ MODULE ToolNames ------------------------------
(***************************************************************************)
(* The names under which the tools of the connections are offered to the     *)
(* model: namespaceMCPTools makes them from the type of a connection, its    *)
(* server and its name, among the tools that run at the time; the tools that *)
(* read resources are named after them (chatToolsAndInventory), and          *)
(* BuildRunTools leaves out what is disabled, by name.                       *)
(*                                                                          *)
(* toolNamePart makes words of a text, joined with one underscore each: a    *)
(* name is the sequence of its words.                                        *)
(***************************************************************************)
EXTENDS Integers, Sequences, SequencesExt, FiniteSets, FiniteSetsExt

CONSTANTS
  Ids,            \* the ids of connections, as names, in their order
  Host, HostId, HostName,  \* nodelets; the name each id makes, and each name
  Config,         \* [type, name, host, tools, resources] of a connection
  NativeNames, WorkspaceNames,
  MaxConnections, MaxDisabled  \* bounds

VARIABLES
  connections,    \* the running ones as the manager lists them: [id, config]
  disabled        \* Client.disabled

nameVars == <<connections, disabled>>

NamesInit == connections = <<>> /\ disabled = {}

OrElse(name, other) == IF name = <<>> THEN other ELSE name
TrimPrefix(name, prefix) ==
  IF IsStrictPrefix(prefix, name) THEN SubSeq(name, Len(prefix) + 1, Len(name)) ELSE name

-----------------------------------------------------------------------------
(* An entry is a tool of a connection: [id, config, server, original]. *)

Prefix(e) == OrElse(e.config.type, <<"mcp">>)
Original(e) == TrimPrefix(OrElse(e.original, <<"tool">>), Prefix(e))

BaseName(e) ==
  LET original == OrElse(e.original, <<"tool">>)
  IN  IF IsStrictPrefix(Prefix(e), original) THEN original ELSE Prefix(e) \o original

ServerSlug(e) == OrElse(e.server, HostId[e.config.host])

ConnectionSlug(e) ==
  LET Own(name) == TrimPrefix(name, Prefix(e))
      Says(name) == name \notin {<<>>, Prefix(e)}
      byName == Own(OrElse(e.config.name, Ids[e.id]))
      byId == Own(Ids[e.id])
  IN  IF Says(byName) THEN byName ELSE IF Says(byId) THEN byId ELSE <<"connection">>

ConnectionScoped(e) == Prefix(e) \o ConnectionSlug(e) \o Original(e)
ServerScoped(e) == Prefix(e) \o <<"server">> \o ServerSlug(e) \o Original(e)
FullyScopedName(e) ==
  IF ServerSlug(e) = <<>> THEN ConnectionScoped(e)
  ELSE Prefix(e) \o <<"server">> \o ServerSlug(e) \o ConnectionSlug(e) \o Original(e)
ScopedName(e) == IF ServerSlug(e) = <<>> THEN ConnectionScoped(e) ELSE ServerScoped(e)

ReserveUnique(candidate, id, used) ==
  LET base == candidate \o OrElse(Ids[id], <<"connection">>)
      Numbered(i) == Append(base, ToString(i))
  IN  IF candidate \notin used THEN candidate
      ELSE IF base \notin used THEN base
      ELSE Numbered(Min({i \in 2..(Cardinality(used) + 2) : Numbered(i) \notin used}))

\* A tool that shares its name with another, or with a native one, says its server;
Candidates(entries, reserved) ==
  LET base == [i \in DOMAIN entries |-> BaseName(entries[i])]
  IN  [i \in DOMAIN entries |->
         IF base[i] \in reserved \/ \E j \in DOMAIN entries \ {i} : base[j] = base[i]
           THEN ScopedName(entries[i]) ELSE base[i]]

\* Faulty variant: what two tools still share goes to the first of them.
FirstTakes(entries, reserved) == Candidates(entries, reserved)

\* two that still share one are named in full, both.
Proposals(entries, reserved) ==
  LET own == Candidates(entries, reserved)
  IN  [i \in DOMAIN entries |->
         IF \E j \in DOMAIN entries \ {i} : own[j] = own[i] THEN FullyScopedName(entries[i]) ELSE own[i]]

\* namespaceMCPTools: the names of some entries.
Namespaced(entries, reserved) ==
  LET proposals == Proposals(entries, reserved)
      Take(names, i) ==
        Append(names, ReserveUnique(proposals[i], entries[i].id, reserved \cup ToSet(names)))
  IN  FoldLeft(Take, <<>>, [i \in DOMAIN entries |-> i])

-----------------------------------------------------------------------------
\* buildVisibleToolsLocked: the tools by the order of the ids; withMCPToolServerNames.
Visible(conns) ==
  FlattenSeq([k \in 1..Len(conns) |->
    LET c == SetToSortSeq(ToSet(conns), LAMBDA a, b : a.id < b.id)[k]
    IN  [t \in DOMAIN c.config.tools |->
           [id |-> c.id, config |-> c.config, server |-> HostName[c.config.host], original |-> c.config.tools[t]]]])

\* buildSyntheticAccessorEntries, as listed; nobody looks up the server of these.
Accessors(conns) ==
  FlattenSeq([k \in DOMAIN conns |->
    IF conns[k].config.resources
      THEN [t \in 1..2 |-> [id |-> conns[k].id, config |-> conns[k].config, server |-> <<>>,
                            original |-> <<<<"list", "resources">>, <<"read", "resource">>>>[t]]]
      ELSE <<>>])

\* filterMCPToolEntriesForProject.
OfProject(entries, hosts) == SelectSeq(entries, LAMBDA e : e.config.host \in hosts)

Named(entries, reserved) ==
  LET names == Namespaced(entries, reserved)
  IN  [i \in DOMAIN entries |-> [name |-> names[i], tool |-> entries[i]]]

\* chatToolsAndInventory, but for the native tools.
ChatTools(conns, hosts) ==
  LET own == Named(OfProject(Visible(conns), hosts), NativeNames)
  IN  own \o Named(OfProject(Accessors(conns), hosts), NativeNames \cup {own[i].name : i \in DOMAIN own})

NativeTools == {[name |-> n, tool |-> [of |-> "platform"]] : n \in NativeNames}
WorkspaceTools == {[name |-> n, tool |-> [of |-> "workspace"]] : n \in WorkspaceNames}

\* BuildRunTools: the tools of a run that has such chat tools; a platform tool never
\* takes the name of a workspace tool, and NewRunner refuses two of one name.
Offered(chatTools) ==
  LET platform == NativeTools \cup ToSet(chatTools)
  IN  {t \in platform : t.name \notin WorkspaceNames \cup disabled} \cup {t \in WorkspaceTools : t.name \notin disabled}

\* handleTools: what the settings list of the connections, and whether it is enabled.
Shown == LET all == Named(Visible(connections), NativeNames)
         IN  {[name |-> all[i].name, tool |-> all[i].tool] : i \in DOMAIN all} \cup NativeTools

-----------------------------------------------------------------------------
Connect(i, config) ==
  /\ Len(connections) < MaxConnections /\ \A k \in DOMAIN connections : connections[k].id # i
  /\ connections' = Append(connections, [id |-> i, config |-> config])
  /\ UNCHANGED disabled

Disconnect(k) == connections' = RemoveAt(connections, k) /\ UNCHANGED disabled

\* handleToolToggle.
Disable(name) ==
  /\ name \notin disabled /\ Cardinality(disabled) < MaxDisabled
  /\ disabled' = disabled \cup {name} /\ UNCHANGED connections
Enable(name) == disabled' = disabled \ {name} /\ UNCHANGED connections

NamesNext ==
  \/ \E i \in DOMAIN Ids, config \in Config : Connect(i, config)
  \/ \E k \in DOMAIN connections : Disconnect(k)
  \/ \E t \in Shown : Disable(t.name)
  \/ \E name \in disabled : Enable(name)

-----------------------------------------------------------------------------
NamesTypeOK == Len(connections) <= MaxConnections /\ \A k \in DOMAIN connections : connections[k].config \in Config

\* A run of a project offers the model each tool that the servers of the project
\* have, under a name of its own, unless the name is disabled; what the settings
\* show as enabled is what a run without a project has of it.
ToolsReached ==
  /\ \A hosts \in SUBSET Host \ {{}} :
       LET all == ChatTools(connections, hosts)
           entries == OfProject(Visible(connections) \o Accessors(connections), hosts)
           offered == Offered(all)
       IN  /\ Len(all) = Len(entries) /\ {all[i].tool : i \in DOMAIN all} = ToSet(entries)
           /\ \A i, j \in DOMAIN all : i # j => all[i].name # all[j].name
           /\ \A t \in offered, u \in offered : t.name = u.name => t = u
           /\ {t \in ToSet(all) : t.name \notin disabled} \subseteq offered
           /\ hosts = Host => {t \in Shown : t.name \notin disabled} \subseteq offered

\* A connection that comes or goes never hands the name of one tool to another
\* one that stays, when no two connections have the type, server and name in
\* common: the calls of a session keep their meaning.
MeaningKept ==
  (\A j, k \in DOMAIN connections :
     LET At(i) == [id |-> connections[i].id, config |-> connections[i].config,
                   server |-> HostName[connections[i].config.host], original |-> <<>>]
     IN  j # k => <<Prefix(At(j)), ServerSlug(At(j)), ConnectionSlug(At(j))>>
                    # <<Prefix(At(k)), ServerSlug(At(k)), ConnectionSlug(At(k))>>) =>
    \A k \in DOMAIN connections :
      LET with == ToSet(Named(Visible(connections), NativeNames))
          without == ToSet(Named(Visible(RemoveAt(connections, k)), NativeNames))
      IN  \A t \in with, u \in without : t.name = u.name => t.tool = u.tool
===============================================================================
