------------------------------ MODULE SkillStore ------------------------------
(***************************************************************************)
(* skills.Store: the skills that are found in a directory tree, kept in     *)
(* memory, watched for changes made by others, and changed by the handlers  *)
(* of PUT and DELETE /api/skills/{name}.  A reload discovers the tree twice, *)
(* with the watches brought up to date in between, because directories can  *)
(* appear while it looks.                                                   *)
(*                                                                          *)
(* The tree has a skill file in its root and one in a sub directory, which  *)
(* comes later in the order of discovery.  Front matter, ignore rules and    *)
(* links are left out.                                                      *)
(***************************************************************************)
EXTENDS Integers, FiniteSets

CONSTANTS SkillName,   \* the names that skills have
          DefaultSkill, \* the one that may not be deleted
          SkillClient, \* the requests that change skills
          MaxEdits     \* bound: changes made to the tree by others

ASSUME EditsBounded == MaxEdits \in Nat

VARIABLES
  disk,      \* the skill in each file, or NoSkill
  subdir,    \* the sub directory exists
  edits,     \* how often others have changed the tree
  watched,   \* the directories the watcher has been given
  event,     \* watcher.Events or Errors is not empty
  blind,     \* the sub directory appeared while the root was not watched
  stage,     \* where loadAll is, which holds reloadMu
  found,     \* what the discovery under way has found in each file
  listed,    \* ... and whether it has seen the sub directory
  loaded,    \* Store.skills
  store,     \* "starting", "open", "closing" or "closed"
  copy       \* what a request has read and is about to change

treeVars == <<disk, subdir, edits, blind>>
loadVars == <<watched, event, stage, found, listed>>
skillVars == <<treeVars, loadVars, loaded, store, copy>>

File == {"top", "sub"}
DirOf(f) == IF f = "top" THEN "root" ELSE "sub"

\* A skill is enabled, disabled, or without a description and never loaded.
Skill == [name : SkillName, kind : {"on", "off", "blank"}]
NoSkill == [name |-> "none", kind |-> "none"]
LoadedSkill == [file : File, kind : {"on", "off", "blank"}]
NotLoaded == [file |-> "none", kind |-> "none"]

Usable(skill) == skill.kind \in {"on", "off"}

\* addLoadedSkill: of two skills with one name the first that is found wins.
SkillsOf(tree) ==
  [n \in SkillName |->
     IF Usable(tree["top"]) /\ tree["top"].name = n THEN [file |-> "top", kind |-> tree["top"].kind]
     ELSE IF Usable(tree["sub"]) /\ tree["sub"].name = n THEN [file |-> "sub", kind |-> tree["sub"].kind]
     ELSE NotLoaded]

\* A request before it has read a skill.
NotAsked == [op |-> "none", name |-> "none", was |-> NotLoaded]

Nothing == [f \in File |-> NoSkill]

SkillInit ==
  /\ disk = Nothing /\ subdir = FALSE /\ edits = 0
  /\ watched = {} /\ event = FALSE /\ blind = FALSE
  /\ stage = "root1" /\ found = Nothing /\ listed = FALSE
  /\ loaded = SkillsOf(Nothing) /\ store = "starting"
  /\ copy = [c \in SkillClient |-> NotAsked]

\* The kernel tells the watcher of a change in one of dirs.
Notify(dirs) == event' = (event \/ dirs \cap watched # {})

-----------------------------------------------------------------------------
(* Others change the tree. *)

Edited == edits < MaxEdits /\ edits' = edits + 1

WriteSkill(f) ==
  /\ Edited
  /\ f = "sub" => subdir
  /\ \E skill \in Skill \cup {NoSkill} :
       skill # disk[f] /\ disk' = [disk EXCEPT ![f] = skill]
  /\ Notify({DirOf(f)})
  /\ UNCHANGED <<subdir, blind, watched, stage, found, listed, loaded, store, copy>>

MakeSubdir ==
  /\ Edited /\ ~subdir
  /\ subdir' = TRUE /\ blind' = (blind \/ "root" \notin watched)
  /\ Notify({"root"})
  /\ UNCHANGED <<disk, watched, stage, found, listed, loaded, store, copy>>

\* A watch goes with its directory.
RemoveSubdir ==
  /\ Edited /\ subdir
  /\ subdir' = FALSE /\ disk' = [disk EXCEPT !["sub"] = NoSkill]
  /\ Notify({"root", "sub"}) /\ watched' = watched \ {"sub"}
  /\ UNCHANGED <<blind, stage, found, listed, loaded, store, copy>>

-----------------------------------------------------------------------------
(* loadAll: two rounds of root, sub and sync. *)

\* watchLoop takes an event, or the error of a queue that overflowed; with
\* events that are left over there is one more reload.
StartReload ==
  /\ stage = "idle" /\ event /\ store = "open"
  /\ stage' = "root1" /\ event' = FALSE
  /\ found' = Nothing /\ listed' = FALSE
  /\ UNCHANGED <<treeVars, watched, loaded, store, copy>>

\* loadSkillsFromDir in the root ...
VisitRoot ==
  /\ stage \in {"root1", "root2"}
  /\ stage' = IF stage = "root1" THEN "sub1" ELSE "sub2"
  /\ found' = [Nothing EXCEPT !["top"] = disk["top"]] /\ listed' = subdir
  /\ UNCHANGED <<treeVars, watched, event, loaded, store, copy>>

\* ... and in the sub directory, when it was listed and is still there.
VisitSub ==
  /\ stage \in {"sub1", "sub2"}
  /\ stage' = IF stage = "sub1" THEN "sync1" ELSE "sync2"
  /\ listed' = (listed /\ subdir)
  /\ found' = [found EXCEPT !["sub"] = IF listed THEN disk["sub"] ELSE NoSkill]
  /\ UNCHANGED <<treeVars, watched, event, loaded, store, copy>>

\* syncWatchDirs: what was found is watched, and nothing else.
Watched == {"root"} \cup (IF listed /\ subdir THEN {"sub"} ELSE {})

\* Faulty variant: what the first discovery found is published.
SyncFirstOnly ==
  /\ stage = "sync1"
  /\ stage' = "publish" /\ watched' = Watched
  /\ UNCHANGED <<treeVars, event, found, listed, loaded, store, copy>>

SyncFirst ==
  /\ stage = "sync1"
  /\ stage' = "root2" /\ watched' = Watched
  /\ UNCHANGED <<treeVars, event, found, listed, loaded, store, copy>>

SyncSecond ==
  /\ stage = "sync2"
  /\ stage' = "publish" /\ watched' = Watched
  /\ UNCHANGED <<treeVars, event, found, listed, loaded, store, copy>>

Publish ==
  /\ stage = "publish"
  /\ stage' = "idle" /\ loaded' = SkillsOf(found)
  /\ found' = Nothing /\ listed' = FALSE
  /\ store' = IF store = "starting" THEN "open" ELSE store
  /\ UNCHANGED <<treeVars, watched, event, copy>>

-----------------------------------------------------------------------------
(* The handlers.  They read the skill with Get, and change it under reloadMu. *)

Enabled == {n \in SkillName : loaded[n].kind = "on"}

\* A request that was refused or answered is over.
Done(c) == copy' = [copy EXCEPT ![c] = [NotAsked EXCEPT !.op = "over"]]

GetSkill(c) ==
  /\ copy[c].op = "none"
  /\ \E n \in SkillName, op \in {"update", "delete"} :
       /\ loaded[n] # NotLoaded
       /\ copy' = [copy EXCEPT ![c] = [op |-> op, name |-> n, was |-> loaded[n]]]
  /\ UNCHANGED <<treeVars, loadVars, loaded, store>>

AskedTo(c, op) == copy[c].op = op

\* openFileParent: the directory is there, under a root that Close has not closed.
Reachable(f) == store # "closed" /\ (f = "sub" => subdir)

\* Save goes on when the skill still comes from the file that the request saw;
\* the file itself may have been changed meanwhile.
StillThere(c) == loaded[copy[c].name].file = copy[c].was.file

\* writeFile renames a complete file over the old one.
Replace(f, skill) == disk' = [disk EXCEPT ![f] = skill] /\ Notify({DirOf(f)})

\* Save of a body with any description: the file is replaced and the same skill
\* is published.
UpdateSkill(c) ==
  /\ AskedTo(c, "update") /\ stage = "idle"
  /\ LET n == copy[c].name  f == copy[c].was.file
     IN  \/ /\ StillThere(c) /\ Reachable(f)
            /\ \E kind \in {"on", "off", "blank"} :
                 /\ Replace(f, [name |-> n, kind |-> kind])
                 /\ loaded' = [loaded EXCEPT ![n] = [file |-> f, kind |-> kind]]
         \/ UNCHANGED <<disk, event, loaded>>    \* changed meanwhile, or the write fails
  /\ Done(c)
  /\ UNCHANGED <<subdir, edits, blind, watched, stage, found, listed, store>>

\* The default skill is kept, and the last that is enabled as far as the handler
\* can see: others may disable or delete one before it goes on (RemoveSkill).
Protected(c) ==
  copy[c].name = DefaultSkill \/ (copy[c].was.kind = "on" /\ Cardinality(Enabled) <= 1)

RefuseDelete(c) ==
  /\ AskedTo(c, "delete") /\ Protected(c)
  /\ Done(c)
  /\ UNCHANGED <<treeVars, loadVars, loaded, store>>

MayDelete(c) ==
  /\ AskedTo(c, "delete") /\ ~Protected(c)
  /\ copy' = [copy EXCEPT ![c].op = "remove"]
  /\ UNCHANGED <<treeVars, loadVars, loaded, store>>

\* Remove finds the skill by its name; the file may have been deleted already.
RemoveSkill(c) ==
  /\ AskedTo(c, "remove") /\ stage = "idle"
  /\ LET n == copy[c].name  f == loaded[n].file
     IN  IF f \in File /\ Reachable(f) /\ disk[f] # NoSkill
         THEN Replace(f, NoSkill) /\ loaded' = [loaded EXCEPT ![n] = NotLoaded]
         ELSE UNCHANGED <<disk, event, loaded>>
  /\ Done(c)
  /\ UNCHANGED <<subdir, edits, blind, watched, stage, found, listed, store>>

-----------------------------------------------------------------------------
(* Close: the watcher is closed, and its loop is waited for. *)

CloseStore ==
  /\ store = "open"
  /\ store' = "closing"
  /\ UNCHANGED <<treeVars, loadVars, loaded, copy>>

StoreClosed ==
  /\ store = "closing" /\ stage = "idle"
  /\ store' = "closed"
  /\ UNCHANGED <<treeVars, loadVars, loaded, copy>>

SkillNext ==
  \/ \E f \in File : WriteSkill(f)
  \/ MakeSubdir \/ RemoveSubdir
  \/ StartReload \/ VisitRoot \/ VisitSub \/ SyncFirst \/ SyncSecond \/ Publish
  \/ \E c \in SkillClient : GetSkill(c) \/ UpdateSkill(c) \/ RefuseDelete(c) \/ MayDelete(c) \/ RemoveSkill(c)
  \/ CloseStore \/ StoreClosed

SkillSpec == SkillInit /\ [][SkillNext]_skillVars

-----------------------------------------------------------------------------
SkillTypeOK ==
  /\ disk \in [File -> Skill \cup {NoSkill}] /\ subdir \in BOOLEAN /\ edits \in 0..MaxEdits
  /\ watched \subseteq {"root", "sub"} /\ event \in BOOLEAN /\ blind \in BOOLEAN
  /\ stage \in {"idle", "root1", "sub1", "sync1", "root2", "sub2", "sync2", "publish"}
  /\ found \in [File -> Skill \cup {NoSkill}] /\ listed \in BOOLEAN
  /\ loaded \in [SkillName -> LoadedSkill \cup {NotLoaded}] /\ store \in {"starting", "open", "closing", "closed"}

\* Hot reload misses nothing: when no event is left and no reload is under way,
\* the skills in memory are those of the tree, whatever others, updates and
\* deletions did to it while it was being looked at.  Excepted is a sub directory
\* that appeared before its parent was watched, which is while the store starts.
ReloadMissesNothing ==
  stage = "idle" /\ ~event /\ store = "open" /\ ~blind => loaded = SkillsOf(disk)

\* skills/store.go: the types, and memory follows the files.
HotReload == SkillTypeOK /\ ReloadMissesNothing

===============================================================================
