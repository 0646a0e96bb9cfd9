-------------------------- MODULE SessionRepository --------------------------
(***************************************************************************)
(* The session repository (internal/agent/runtime/session/repository.go)    *)
(* over its file storage (jsonl_storage.go in the same package): the cache   *)
(* of loaded sessions, the marks of creations and deletions under way, the   *)
(* directory of session files, and a crash of the machine between any two    *)
(* steps.                                                                    *)
(*                                                                           *)
(* The n-th entry of a session is the number n; its parent is n - 1.  A file *)
(* is the sequence of the entries on its lines, the empty sequence when      *)
(* there is no file: every file the storage makes has at least one line.  A  *)
(* loaded session is the number of its entries, 0 when it is not cached.     *)
(*                                                                           *)
(* Writers hold the session lease of the runtime, as the handlers that run,  *)
(* rename, branch and delete do; readers (GET of a session, of the list)     *)
(* hold nothing.  Each action is one critical section of Repository.mu or    *)
(* one file operation.                                                       *)
(***************************************************************************)
EXTENDS Integers, Sequences, FiniteSets

CONSTANTS Session, Reader, Writer, Nobody,
          MaxEntries,   \* bound of the model on the entries of a session
          MaxCrashes    \* bound of the model on the crashes of the machine

ASSUME RepositoryAssumption ==
  /\ Reader \cap Writer = {} /\ Nobody \notin Writer
  /\ MaxEntries \in Nat \ {0} /\ MaxCrashes \in Nat

Process == Reader \cup Writer

VARIABLES
  sessions,  \* Repository.sessions
  creating,  \* Repository.creating
  deleting,  \* Repository.deleting
  file,      \* the session files, as the running system sees them
  disk,      \* what each file may be after a crash
  lease,     \* Runtime.leases
  at,        \* where each process stands
  on,        \* the session it works on
  read,      \* what it has read of each session: Load's and List's candidates
  todo,      \* List: the sessions it still has to read
  result,    \* List: the sessions it has returned
  temp,      \* Append: the temporary file
  was,       \* Delete: the cached session it has taken out
  acked,     \* the entries of each session that were acknowledged
  removed,   \* the sessions whose file a Delete has removed
  gone,      \* the sessions a Delete has reported as deleted
  unsure,    \* the sessions with a change whose directory sync failed
  since,     \* the sessions that were there when each process began
  crashes

cacheVars == <<sessions, creating, deleting>>
fileVars  == <<file, disk, unsure>>
localVars == <<read, todo, result, temp, was>>
ghostVars == <<acked, removed, gone, since>>
vars == <<cacheVars, fileVars, lease, at, on, localVars, ghostVars, crashes>>

Answers == {"found", "missing", "unavailable", "corrupt", "failed", "listed", "acknowledged"}

WriterStages ==
  {"marking creation", "linking", "syncing creation", "ending creation", "unmarking creation",
   "copying", "renaming", "syncing append", "publishing",
   "marking deletion", "removing", "syncing deletion", "ending deletion", "restoring"}

Stages == {"idle", "checking", "reading", "inserting", "listing", "scanning"}
            \cup WriterStages \cup Answers

Intact(f) == \A i \in 1..Len(f) : f[i] = i

TypeOK ==
  /\ sessions \in [Session -> 0..MaxEntries]
  /\ creating \subseteq Session /\ deleting \subseteq Session
  /\ \A s \in Session : Len(file[s]) <= MaxEntries /\ file[s] \in disk[s]
  /\ lease \in [Session -> Writer \cup {Nobody}]
  /\ at \in [Process -> Stages]
  /\ on \in [Process -> Session]
  /\ read \in [Process -> [Session -> 0..MaxEntries]]
  /\ todo \in [Process -> SUBSET Session] /\ result \in [Process -> SUBSET Session]
  /\ was \in [Writer -> 0..MaxEntries]
  /\ acked \in [Session -> 0..MaxEntries]
  /\ removed \subseteq Session /\ gone \subseteq Session /\ unsure \subseteq Session
  /\ since \in [Process -> SUBSET Session]
  /\ crashes \in 0..MaxCrashes

NothingRead == [s \in Session |-> 0]

Init ==
  /\ sessions = NothingRead /\ creating = {} /\ deleting = {}
  /\ lease = [s \in Session |-> Nobody]
  /\ at = [p \in Process |-> "idle"]
  /\ read = [p \in Process |-> NothingRead]
  /\ todo = [p \in Process |-> {}] /\ result = [p \in Process |-> {}]
  /\ temp = [w \in Writer |-> <<>>] /\ was = [w \in Writer |-> 0]
  /\ since = [p \in Process |-> {}]
  /\ file = [s \in Session |-> <<>>] /\ disk = [s \in Session |-> {<<>>}]
  /\ on \in [Process -> Session]
  /\ acked = [s \in Session |-> 0]
  /\ removed = {} /\ gone = {} /\ unsure = {} /\ crashes = 0

Goto(p, stage) == at' = [at EXCEPT ![p] = stage]

\* A process begins an operation on session s, which goes on at the given stage.
Begin(p, s, stage) ==
  /\ at[p] = "idle"
  /\ Goto(p, stage)
  /\ on' = [on EXCEPT ![p] = s]
  /\ since' = [since EXCEPT ![p] = {k \in Session : acked[k] > 0} \ (removed \cup deleting)]

TakeLease(w, s) == lease[s] = Nobody /\ lease' = [lease EXCEPT ![s] = w]

-----------------------------------------------------------------------------
(* Load: check the cache, read the file without the lock, check again.      *)

BeginGet(p, s) ==
  /\ Begin(p, s, "checking")
  /\ UNCHANGED <<cacheVars, fileVars, lease, localVars, acked, removed, gone, crashes>>

\* Where a process goes that has its session: AppendEntry goes on to write.
Loaded(p) == IF p \in Writer THEN "copying" ELSE "found"

Check(p) ==
  /\ at[p] = "checking"
  /\ LET s == on[p]
     IN Goto(p, CASE s \in deleting     -> "unavailable"
                  [] s \notin deleting /\ sessions[s] # 0 -> Loaded(p)
                  [] s \notin deleting /\ sessions[s] = 0 /\ s \in creating -> "unavailable"
                  [] OTHER -> "reading")
  /\ UNCHANGED <<cacheVars, fileVars, lease, on, localVars, ghostVars, crashes>>

ReadFile(p) ==
  /\ at[p] = "reading"
  /\ LET f == file[on[p]]
     IN \/ Goto(p, "failed") /\ UNCHANGED read
        \/ f = <<>> /\ Goto(p, "missing") /\ UNCHANGED read
        \/ ~Intact(f) /\ Goto(p, "corrupt") /\ UNCHANGED read
        \/ /\ f # <<>> /\ Intact(f)
           /\ Goto(p, "inserting")
           /\ read' = [read EXCEPT ![p][on[p]] = Len(f)]
  /\ UNCHANGED <<cacheVars, fileVars, lease, on, todo, result, temp, was, ghostVars, crashes>>

Insert(p) ==
  /\ at[p] = "inserting"
  /\ LET s == on[p]
     IN IF sessions[s] = 0 /\ s \in creating \cup deleting
        THEN Goto(p, "unavailable") /\ UNCHANGED sessions
        ELSE /\ Goto(p, Loaded(p))
             /\ sessions' = IF sessions[s] # 0 THEN sessions
                            ELSE [sessions EXCEPT ![s] = read[p][s]]
  /\ UNCHANGED <<creating, deleting, fileVars, lease, on, localVars, ghostVars, crashes>>

-----------------------------------------------------------------------------
(* List: what is cached or marked is not read; the rest is read file by      *)
(* file and merged into the cache, which is the answer.                      *)

BeginList(p) ==
  /\ Begin(p, on[p], "listing")
  /\ todo' = [todo EXCEPT ![p] =
       {s \in Session : sessions[s] = 0} \ (creating \cup deleting)]
  /\ UNCHANGED <<cacheVars, fileVars, lease, read, result, temp, was, acked, removed, gone, crashes>>

ReadDirectory(p) ==
  /\ at[p] = "listing"
  /\ \/ Goto(p, "failed") /\ UNCHANGED todo
     \/ /\ Goto(p, "scanning")
        /\ todo' = [todo EXCEPT ![p] = {s \in @ : file[s] # <<>>}]
  /\ UNCHANGED <<cacheVars, fileVars, lease, on, read, result, temp, was, ghostVars, crashes>>

\* A file that has gone meanwhile and a corrupt one are left out.
ScanFile(p, s) ==
  /\ at[p] = "scanning" /\ s \in todo[p]
  /\ todo' = [todo EXCEPT ![p] = @ \ {s}]
  /\ \/ Goto(p, "failed") /\ UNCHANGED read
     \/ /\ read' = [read EXCEPT ![p][s] = IF Intact(file[s]) THEN Len(file[s]) ELSE 0]
        /\ UNCHANGED at
  /\ UNCHANGED <<cacheVars, fileVars, lease, on, result, temp, was, ghostVars, crashes>>

\* Faulty variant: the answer is what was read, without what was cached.
ListedFromFiles(p, cached) == {s \in Session : read[p][s] # 0}

\* The answer is the whole cache after the merge.
Listed(p, cached) == {s \in Session : cached[s] # 0}

Merge(p) ==
  /\ at[p] = "scanning" /\ todo[p] = {}
  /\ Goto(p, "listed")
  /\ sessions' = [s \in Session |->
       IF sessions[s] # 0 \/ s \in creating \cup deleting THEN sessions[s] ELSE read[p][s]]
  /\ result' = [result EXCEPT ![p] = Listed(p, sessions')]
  /\ UNCHANGED <<creating, deleting, fileVars, lease, on, read, todo, temp, was, ghostVars, crashes>>

-----------------------------------------------------------------------------
(* The storage: a new version of a file appears in the directory at once,    *)
(* and survives a crash for certain after the directory is synced.           *)

\* Faulty variant: the content is not synced before its file takes the name.
PutUnsynced(s, content) ==
  /\ file' = [file EXCEPT ![s] = content]
  /\ disk' = [disk EXCEPT ![s] = @ \cup {content, <<>>}]
  /\ UNCHANGED unsure

\* A synced temporary file takes the name of the session file, or it is removed.
Put(s, content) ==
  /\ file' = [file EXCEPT ![s] = content]
  /\ disk' = [disk EXCEPT ![s] = @ \cup {content}]
  /\ UNCHANGED unsure

\* syncRootDir; a StorageCommitError with Committed set is logged and ignored.
SyncDirectory(s) ==
  \/ /\ disk' = [k \in Session |-> {file[k]}]
     /\ unsure' = {}
     /\ UNCHANGED file
  \/ /\ unsure' = unsure \cup {s}
     /\ UNCHANGED <<file, disk>>

Sync(w) ==
  /\ \/ at[w] = "syncing creation" /\ Goto(w, "ending creation")
     \/ at[w] = "syncing append" /\ Goto(w, "publishing")
     \/ at[w] = "syncing deletion" /\ Goto(w, "ending deletion")
  /\ SyncDirectory(on[w])
  /\ UNCHANGED <<cacheVars, lease, on, localVars, ghostVars, crashes>>

-----------------------------------------------------------------------------
(* CreateSession: mark, link the new file, sync, cache and unmark. *)

\* The handlers name a new session with a UUID, so its id is one that nothing
\* has used.
BeginCreate(w, s) ==
  /\ file[s] = <<>> /\ sessions[s] = 0 /\ s \notin removed
  /\ TakeLease(w, s)
  /\ Begin(w, s, "marking creation")
  /\ UNCHANGED <<cacheVars, fileVars, localVars, acked, removed, gone, crashes>>

MarkCreation(w) ==
  /\ at[w] = "marking creation"
  /\ IF on[w] \in deleting \cup creating \/ sessions[on[w]] # 0
     THEN Goto(w, "failed") /\ UNCHANGED creating
     ELSE Goto(w, "linking") /\ creating' = creating \cup {on[w]}
  /\ UNCHANGED <<sessions, deleting, fileVars, lease, on, localVars, ghostVars, crashes>>

\* The link fails when the file exists, and may fail anyway.
Link(w) ==
  /\ at[w] = "linking"
  /\ \/ Goto(w, "unmarking creation") /\ UNCHANGED fileVars
     \/ /\ file[on[w]] = <<>>
        /\ Put(on[w], <<1>>)
        /\ Goto(w, "syncing creation")
  /\ UNCHANGED <<cacheVars, lease, on, localVars, ghostVars, crashes>>

EndCreation(w) ==
  /\ at[w] = "ending creation"
  /\ Goto(w, "acknowledged")
  /\ creating' = creating \ {on[w]}
  /\ sessions' = [sessions EXCEPT ![on[w]] = 1]
  /\ acked' = [acked EXCEPT ![on[w]] = 1]
  /\ UNCHANGED <<deleting, fileVars, lease, on, localVars, removed, gone, since, crashes>>

UnmarkCreation(w) ==
  /\ at[w] = "unmarking creation"
  /\ Goto(w, "failed")
  /\ creating' = creating \ {on[w]}
  /\ UNCHANGED <<sessions, deleting, fileVars, lease, on, localVars, ghostVars, crashes>>

-----------------------------------------------------------------------------
(* AppendEntry: Load, then copy, rename, sync and publish under session.mu. *)

BeginAppend(w, s) ==
  /\ TakeLease(w, s)
  /\ Begin(w, s, "checking")
  /\ UNCHANGED <<cacheVars, fileVars, localVars, acked, removed, gone, crashes>>

\* copyExistingSession copies nothing when there is no file.
Copied(s) == file[s]

Copy(w) ==
  /\ at[w] = "copying"
  /\ \/ Goto(w, "failed") /\ UNCHANGED temp
     \/ /\ sessions[on[w]] < MaxEntries
        /\ Goto(w, "renaming")
        /\ temp' = [temp EXCEPT ![w] = Copied(on[w])]
  /\ UNCHANGED <<cacheVars, fileVars, lease, on, read, todo, result, was, ghostVars, crashes>>

\* Faulty variant: the new version is appended to the live file.
RenameOnto(w) ==
  /\ at[w] = "renaming"
  /\ \/ Goto(w, "failed") /\ UNCHANGED fileVars
     \/ /\ Put(on[w], file[on[w]] \o Append(temp[w], sessions[on[w]] + 1))
        /\ Goto(w, "syncing append")
  /\ UNCHANGED <<cacheVars, lease, on, localVars, ghostVars, crashes>>

\* The entry is written after the copy; the rename replaces the file at once.
Rename(w) ==
  /\ at[w] = "renaming"
  /\ \/ Goto(w, "failed") /\ UNCHANGED fileVars
     \/ /\ Put(on[w], Append(temp[w], sessions[on[w]] + 1))
        /\ Goto(w, "syncing append")
  /\ UNCHANGED <<cacheVars, lease, on, localVars, ghostVars, crashes>>

PublishEntry(w) ==
  /\ at[w] = "publishing"
  /\ Goto(w, "acknowledged")
  /\ sessions' = [sessions EXCEPT ![on[w]] = @ + 1]
  /\ acked' = [acked EXCEPT ![on[w]] = sessions[on[w]] + 1]
  /\ UNCHANGED <<creating, deleting, fileVars, lease, on, localVars, removed, gone, since, crashes>>

-----------------------------------------------------------------------------
(* Delete: mark and take out of the cache, remove the file, sync, unmark.   *)

BeginDelete(w, s) ==
  /\ TakeLease(w, s)
  /\ Begin(w, s, "marking deletion")
  /\ UNCHANGED <<cacheVars, fileVars, localVars, acked, removed, gone, crashes>>

MarkDeletion(w) ==
  LET s == on[w]
  IN /\ at[w] = "marking deletion"
     /\ IF s \in creating \cup deleting
        THEN Goto(w, "failed") /\ UNCHANGED <<sessions, deleting, was, since>>
        ELSE /\ Goto(w, "removing")
             /\ was' = [was EXCEPT ![w] = sessions[s]]
             /\ deleting' = deleting \cup {s}
             /\ sessions' = [sessions EXCEPT ![s] = 0]
             /\ since' = [p \in Process |-> since[p] \ {s}]
     /\ UNCHANGED <<creating, fileVars, lease, on, read, todo, result, temp, acked, removed, gone, crashes>>

\* Without a file there is nothing to sync.
Remove(w) ==
  LET s == on[w]
  IN /\ at[w] = "removing"
     /\ \/ Goto(w, "restoring") /\ UNCHANGED <<fileVars, removed>>
        \/ file[s] = <<>> /\ Goto(w, "ending deletion") /\ UNCHANGED <<fileVars, removed>>
        \/ /\ file[s] # <<>>
           /\ Put(s, <<>>)
           /\ removed' = removed \cup {s}
           /\ Goto(w, "syncing deletion")
     /\ UNCHANGED <<cacheVars, lease, on, localVars, acked, gone, since, crashes>>

\* A session that was neither cached nor on disk was not there to delete.
EndDeletion(w) ==
  LET s == on[w]
  IN /\ at[w] = "ending deletion"
     /\ deleting' = deleting \ {s}
     /\ IF was[w] # 0 \/ s \in removed
        THEN /\ Goto(w, "acknowledged")
             /\ gone' = gone \cup {s}
             /\ acked' = [acked EXCEPT ![s] = 0]
        ELSE Goto(w, "missing") /\ UNCHANGED <<gone, acked>>
     /\ UNCHANGED <<sessions, creating, fileVars, lease, on, localVars, removed, since, crashes>>

Restore(w) ==
  LET s == on[w]
  IN /\ at[w] = "restoring"
     /\ Goto(w, "failed")
     /\ deleting' = deleting \ {s}
     /\ sessions' = IF sessions[s] = 0 THEN [sessions EXCEPT ![s] = was[w]] ELSE sessions
     /\ UNCHANGED <<creating, fileVars, lease, on, localVars, ghostVars, crashes>>

-----------------------------------------------------------------------------
\* The operation answers; the handler of a writer releases its lease.
Return(p) ==
  /\ at[p] \in Answers
  /\ Goto(p, "idle")
  /\ lease' = [s \in Session |-> IF lease[s] = p THEN Nobody ELSE lease[s]]
  /\ read' = [read EXCEPT ![p] = NothingRead]
  /\ todo' = [todo EXCEPT ![p] = {}] /\ result' = [result EXCEPT ![p] = {}]
  /\ temp' = [w \in Writer |-> IF w = p THEN <<>> ELSE temp[w]]
  /\ was' = [w \in Writer |-> IF w = p THEN 0 ELSE was[w]]
  /\ since' = [since EXCEPT ![p] = {}]
  /\ UNCHANGED <<cacheVars, fileVars, on, acked, removed, gone, crashes>>

\* The machine stops and the server starts again with an empty cache and no
\* leases; what a failed sync left unsure may be lost, and the restarted server
\* goes on from what the directory has.
Crash ==
  /\ crashes < MaxCrashes
  /\ crashes' = crashes + 1
  /\ file' \in [Session -> UNION {disk[s] : s \in Session}]
  /\ \A s \in Session : file'[s] \in disk[s]
  /\ disk' = [s \in Session |-> {file'[s]}]
  /\ acked' = [s \in Session |-> IF s \in unsure THEN Len(file'[s]) ELSE acked[s]]
  /\ unsure' = {}
  /\ sessions' = NothingRead /\ creating' = {} /\ deleting' = {}
  /\ lease' = [s \in Session |-> Nobody]
  /\ at' = [p \in Process |-> "idle"]
  /\ read' = [p \in Process |-> NothingRead]
  /\ todo' = [p \in Process |-> {}] /\ result' = [p \in Process |-> {}]
  /\ temp' = [w \in Writer |-> <<>>] /\ was' = [w \in Writer |-> 0]
  /\ since' = [p \in Process |-> {}]
  /\ UNCHANGED <<on, removed, gone>>

Read(p) ==
  \/ Check(p) \/ ReadFile(p) \/ Insert(p)
  \/ ReadDirectory(p) \/ Merge(p) \/ (\E s \in Session : ScanFile(p, s))
  \/ Return(p)

Write(w) ==
  \/ MarkCreation(w) \/ Link(w) \/ EndCreation(w) \/ UnmarkCreation(w)
  \/ Copy(w) \/ Rename(w) \/ PublishEntry(w)
  \/ MarkDeletion(w) \/ Remove(w) \/ EndDeletion(w) \/ Restore(w)
  \/ Sync(w)

Next ==
  \/ \E p \in Process : Read(p)
  \/ \E p \in Reader : BeginList(p) \/ \E s \in Session : BeginGet(p, s)
  \/ \E w \in Writer : \/ Write(w)
                       \/ \E s \in Session : BeginCreate(w, s) \/ BeginAppend(w, s) \/ BeginDelete(w, s)
  \/ Crash

Spec == Init /\ [][Next]_vars

-----------------------------------------------------------------------------
(* Properties. *)

\* What was acknowledged is in every version of the file a crash can leave, and
\* that version can be loaded, unless a directory sync failed or the session
\* has been deleted.
Durable ==
  \A s \in Session :
    acked[s] > 0 /\ s \notin removed \cup unsure =>
      \A f \in disk[s] : Intact(f) /\ Len(f) >= acked[s]

\* The cached session of a file that nobody has removed is what the file says:
\* it never runs ahead, and it is behind only while its writer is about to
\* publish what it has renamed into place.
CacheMatchesFile ==
  \A s \in Session :
    sessions[s] # 0 /\ s \notin removed =>
      /\ Intact(file[s])
      /\ \/ Len(file[s]) = sessions[s]
         \/ /\ Len(file[s]) = sessions[s] + 1
            /\ \E w \in Writer : on[w] = s /\ at[w] \in {"syncing append", "publishing"}

\* A session that was acknowledged before a read began and that nobody has
\* started to delete since is found by it: neither the marks nor the two looks
\* at the cache with the unlocked file read in between can hide it.
ReadsFind ==
  \A p \in Reader :
    /\ at[p] \in {"missing", "unavailable", "corrupt"} => on[p] \notin since[p]
    /\ at[p] = "listed" => since[p] \subseteq result[p]

\* The cache is right about what it holds and hides nothing (Load, List, Get).
CacheServesReads == TypeOK /\ CacheMatchesFile /\ ReadsFind

\* A session that was reported as deleted is not in the repository any more.
\* The tests say so: session_test.go:929 expects Get to fail after Delete,
\* repository_test.go:157 that no deleted session "remained in repository".
DeletedStaysGone == \A s \in gone : sessions[s] = 0
==============================================================================
