-------------------------------- MODULE Fleet --------------------------------
(***************************************************************************)
(* The projects and the nodelets that they refer to: the tables and         *)
(* transactions of the runtime store, the project store and its mutex, and  *)
(* the requests that read one and write the other without a common lock.    *)
(*                                                                          *)
(* The rows of project_nodelets are a sequence per project id, in the order *)
(* of their positions.  The driver, modernc.org/sqlite, ignores the          *)
(* parameter _foreign_keys that the store is opened with (store.go:103), so *)
(* that rows may be there without their project.  Descriptions and times     *)
(* are left out.                                                            *)
(***************************************************************************)
EXTENDS Integers, Sequences, FiniteSets, SequencesExt, FiniteSetsExt

CONSTANTS Requester, Project, ProjectName, Ref,
          MaxNodeletId,  \* bound on the ids that are given to nodelets
          NodeletLists,  \* lists of nodelets that a request may give a project
          NoName, Keep   \* no project; a field that a request leaves out

NodeletId == 1..MaxNodeletId

VARIABLES
  db,        \* the tables of projects
  stored,    \* the nodelets that the manager has, in memory and stored
  lastId,    \* the id it gave last
  requests,  \* requests that are under way
  mu,        \* who holds the mutex of the project store
  meant,     \* history: the nodelets and refs under the id of a project, by the
             \* accepted requests; to delete the project says nothing of them
  loose      \* history: references made when there was no such nodelet, or kept by
             \* a removal that a restart interrupted, or by a deleted project

fleetVars == <<db, stored, lastId, requests, mu, meant, loose>>

Idle == [op |-> "idle"]

FleetInit ==
  /\ db = [name |-> [p \in Project |-> NoName], nodelets |-> [p \in Project |-> <<>>],
           excluded |-> [p \in Project |-> {}]]
  /\ stored = {} /\ lastId = 0
  /\ requests = [c \in Requester |-> Idle] /\ mu = Idle
  /\ meant = [nodelets |-> [p \in Project |-> {}], excluded |-> [p \in Project |-> {}]]
  /\ loose = {}

-----------------------------------------------------------------------------
(* Statements of a transaction.  One whose constraint fails ends it. *)

Begin == [ok |-> TRUE, db |-> db]

Statement(s, constraint, tables) ==
  IF s.ok /\ constraint THEN [s EXCEPT !.db = tables] ELSE [s EXCEPT !.ok = FALSE]

\* The unique index on the names.
NameFree(tables, p, name) == \A q \in Project \ {p} : tables.name[q] # name

InsertProject(s, p, name) ==
  Statement(s, s.db.name[p] = NoName /\ NameFree(s.db, p, name), [s.db EXCEPT !.name[p] = name])

UpdateProjectRow(s, p, name) ==
  Statement(s, s.db.name[p] # NoName /\ NameFree(s.db, p, name), [s.db EXCEPT !.name[p] = name])

\* updateProjectTimestamp: only that there is such a project matters.
TouchProject(s, p) == Statement(s, s.db.name[p] # NoName, s.db)

DeleteProjectRow(s, p) == Statement(s, s.db.name[p] # NoName, [s.db EXCEPT !.name[p] = NoName])

DeleteProjectNodelets(s, p) == Statement(s, TRUE, [s.db EXCEPT !.nodelets[p] = <<>>])

DeleteProjectExclusions(s, p) == Statement(s, TRUE, [s.db EXCEPT !.excluded[p] = {}])

InsertProjectNodelet(s, p, n) ==
  Statement(s, ~Contains(s.db.nodelets[p], n), [s.db EXCEPT !.nodelets[p] = Append(@, n)])

InsertProjectExclusion(s, p, ref) ==
  Statement(s, ref \notin s.db.excluded[p], [s.db EXCEPT !.excluded[p] = @ \cup {ref}])

RemoveProjectNodeletRow(s, p, n) ==
  Statement(s, Contains(s.db.nodelets[p], n), [s.db EXCEPT !.nodelets[p] = Remove(@, n)])

RemoveProjectExclusionRow(s, p, ref) ==
  Statement(s, ref \in s.db.excluded[p], [s.db EXCEPT !.excluded[p] = @ \ {ref}])

WriteCollections(s, p, ids, refs) ==
  FoldSet(LAMBDA ref, t : InsertProjectExclusion(t, p, ref),
          FoldLeft(LAMBDA t, n : InsertProjectNodelet(t, p, n), s, ids), refs)


\* tx: all of it or nothing.
Commit(s) == db' = IF s.ok THEN s.db ELSE db

\* What the accepted requests mean, and which references are loose.
Means(s, p, ids, refs) ==
  IF s.ok
    THEN /\ meant' = [nodelets |-> [meant.nodelets EXCEPT ![p] = ids],
                      excluded |-> [meant.excluded EXCEPT ![p] = refs]]
         /\ loose' = {r \in loose : r[1] # p \/ r[2] \in ids}
                       \cup {<<p, n>> : n \in ids \ (meant.nodelets[p] \cup stored)}
    ELSE UNCHANGED <<meant, loose>>

Free == mu = Idle

-----------------------------------------------------------------------------
(* Requests on projects that hold the mutex for one transaction. *)

\* handleProjectCreate and Add, with an id that the client may choose: what was
\* left under that id is the new project's, or refuses it.
ProjectCreate(p, name, ids, refs) ==
  LET s == WriteCollections(InsertProject(Begin, p, name), p, ids, refs)
  IN  /\ Free /\ Commit(s)
      /\ Means(s, p, meant.nodelets[p] \cup ToSet(ids), meant.excluded[p] \cup refs)
      /\ UNCHANGED <<stored, lastId, requests, mu>>

\* handleProjectDelete: the rows of its collections stay.
ProjectDelete(p) ==
  /\ Free /\ Commit(DeleteProjectRow(Begin, p))
  /\ loose' = loose \cup IF db.name[p] = NoName THEN {} ELSE {<<p, n>> : n \in ToSet(db.nodelets[p])}
  /\ UNCHANGED <<stored, lastId, requests, mu, meant>>

\* handleProjectExcludeContainer and handleProjectIncludeContainer.
ExcludeContainer(p, ref) ==
  LET s == InsertProjectExclusion(TouchProject(Begin, p), p, ref)
  IN  /\ Free /\ Commit(s) /\ Means(s, p, meant.nodelets[p], meant.excluded[p] \cup {ref})
      /\ UNCHANGED <<stored, lastId, requests, mu>>

IncludeContainer(p, ref) ==
  LET s == RemoveProjectExclusionRow(TouchProject(Begin, p), p, ref)
  IN  /\ Free /\ Commit(s) /\ Means(s, p, meant.nodelets[p], meant.excluded[p] \ {ref})
      /\ UNCHANGED <<stored, lastId, requests, mu>>

\* RemoveNodelet of the project store.
Removal(p, n) == RemoveProjectNodeletRow(TouchProject(Begin, p), p, n)

\* handleProjectServersRemove.
ServersRemove(p, n) ==
  /\ Free /\ Commit(Removal(p, n))
  /\ Means(Removal(p, n), p, meant.nodelets[p] \ {n}, meant.excluded[p])
  /\ UNCHANGED <<stored, lastId, requests, mu>>

-----------------------------------------------------------------------------
(* handleProjectUpdate: Update reads and writes with the mutex held. *)

\* Faulty variant: the mutex is released between the two.
LockWriteOnly(c, request) == mu' = mu /\ requests' = [requests EXCEPT ![c] = request]

Lock(c, request) == mu' = request /\ requests' = [requests EXCEPT ![c] = request]

UpdateReads(c, p, name, ids, refs) ==
  /\ requests[c] = Idle /\ Free
  /\ db.name[p] # NoName /\ NameFree(db, p, name)
  /\ Lock(c, [op |-> "update", project |-> p, name |-> name,
              kept |-> ids = Keep, ids |-> IF ids = Keep THEN db.nodelets[p] ELSE ids,
              refs |-> IF refs = Keep THEN db.excluded[p] ELSE refs, keptRefs |-> refs = Keep])
  /\ UNCHANGED <<db, stored, lastId, meant, loose>>

UpdateWrites(c) ==
  LET r == requests[c]
      s == WriteCollections(
             DeleteProjectExclusions(
               DeleteProjectNodelets(UpdateProjectRow(Begin, r.project, r.name), r.project), r.project),
             r.project, r.ids, r.refs)
  IN  /\ r.op = "update" /\ mu \in {r, Idle}
      /\ Commit(s)
      /\ Means(s, r.project, IF r.kept THEN meant.nodelets[r.project] ELSE ToSet(r.ids),
               IF r.keptRefs THEN meant.excluded[r.project] ELSE r.refs)
      /\ requests' = [requests EXCEPT ![c] = Idle] /\ mu' = Idle
      /\ UNCHANGED <<stored, lastId>>

-----------------------------------------------------------------------------
(* addProjectServer: that the nodelet exists is checked before, without a lock. *)

FindNodelet(c, p, n) ==
  /\ requests[c] = Idle /\ n \in stored
  /\ requests' = [requests EXCEPT ![c] = [op |-> "add", project |-> p, nodelet |-> n]]
  /\ UNCHANGED <<db, stored, lastId, mu, meant, loose>>

AddNodelet(c) ==
  LET r == requests[c]
      s == InsertProjectNodelet(TouchProject(Begin, r.project), r.project, r.nodelet)
  IN  /\ r.op = "add" /\ Free
      /\ Commit(s)
      /\ Means(s, r.project, meant.nodelets[r.project] \cup {r.nodelet}, meant.excluded[r.project])
      /\ requests' = [requests EXCEPT ![c] = Idle]
      /\ UNCHANGED <<stored, lastId, mu>>

-----------------------------------------------------------------------------
(* Nodelets. *)

\* handleNodeletAdd.
NodeletAdd ==
  /\ lastId < MaxNodeletId
  /\ lastId' = lastId + 1 /\ stored' = stored \cup {lastId + 1}
  /\ UNCHANGED <<db, requests, mu, meant, loose>>

\* handleNodeletRemove: the manager's Remove, which saves the list,
NodeletRemove(c, n) ==
  /\ requests[c] = Idle /\ n \in stored
  /\ stored' = stored \ {n}
  /\ requests' = [requests EXCEPT ![c] = [op |-> "remove", nodelet |-> n]]
  /\ UNCHANGED <<db, lastId, mu, meant, loose>>

\* the list of the projects,
ListProjects(c) ==
  LET r == requests[c]
  IN  /\ r.op = "remove" /\ Free
      /\ requests' = [requests EXCEPT ![c] =
           [op |-> "cascade", nodelet |-> r.nodelet,
            left |-> {p \in Project : db.name[p] # NoName /\ Contains(db.nodelets[p], r.nodelet)}]]
      /\ UNCHANGED <<db, stored, lastId, mu, meant, loose>>

\* Faulty variant: the first error ends the cascade.
LeftAfterError(left, p, s) == IF s.ok THEN left \ {p} ELSE {}

\* Errors are ignored.
LeftAfter(left, p, s) == left \ {p}

\* and one transaction for each that refers to it, in any order.
CascadeRemove(c, p) ==
  LET r == requests[c]
      s == Removal(p, r.nodelet)
  IN  /\ r.op = "cascade" /\ p \in r.left /\ Free
      /\ Commit(s)
      /\ Means(s, p, meant.nodelets[p] \ {r.nodelet}, meant.excluded[p])
      /\ requests' = [requests EXCEPT ![c].left = LeftAfter(@, p, s)]
      /\ UNCHANGED <<stored, lastId, mu>>

Cascaded(c) ==
  /\ requests[c].op = "cascade" /\ requests[c].left = {}
  /\ requests' = [requests EXCEPT ![c] = Idle]
  /\ UNCHANGED <<db, stored, lastId, mu, meant, loose>>

\* References to nodelets that are not there.
Dangling == {r \in Project \X NodeletId : Contains(db.nodelets[r[1]], r[2]) /\ r[2] \notin stored}

\* The process ends and starts again: requests are gone, a transaction that was
\* not committed too, and load takes the highest stored id as the last one.
Restart ==
  /\ requests' = [c \in Requester |-> Idle] /\ mu' = Idle
  /\ lastId' = Max(stored \cup {0})
  /\ loose' = loose \cup Dangling
  /\ UNCHANGED <<db, stored, meant>>

FleetNext ==
  \/ \E p \in Project, name \in ProjectName, ids \in NodeletLists, refs \in SUBSET Ref :
       ProjectCreate(p, name, ids, refs)
  \/ \E p \in Project : ProjectDelete(p)
  \/ \E p \in Project, ref \in Ref : ExcludeContainer(p, ref) \/ IncludeContainer(p, ref)
  \/ \E p \in Project, n \in NodeletId : ServersRemove(p, n)
  \/ \E c \in Requester, p \in Project, name \in ProjectName, ids \in NodeletLists \cup {Keep},
        refs \in SUBSET Ref \cup {Keep} : UpdateReads(c, p, name, ids, refs)
  \/ \E c \in Requester : UpdateWrites(c) \/ AddNodelet(c) \/ ListProjects(c) \/ Cascaded(c)
  \/ \E c \in Requester, p \in Project : CascadeRemove(c, p)
  \/ \E c \in Requester, p \in Project, n \in NodeletId : FindNodelet(c, p, n)
  \/ NodeletAdd
  \/ \E c \in Requester, n \in NodeletId : NodeletRemove(c, n)
  \/ Restart

-----------------------------------------------------------------------------
FleetTypeOK ==
  /\ stored \subseteq NodeletId /\ lastId \in 0..MaxNodeletId
  /\ \A n \in stored : n <= lastId
  /\ \A p \in Project :
       /\ db.name[p] \in ProjectName \cup {NoName}
       /\ db.nodelets[p] \in Seq(NodeletId) /\ db.excluded[p] \subseteq Ref
  /\ loose \subseteq Project \X NodeletId

\* The tables say what the accepted requests say, whatever failed in between: a
\* request that leaves a collection out undoes no other request, and one that is
\* refused changes nothing, also when what stops it are rows of a project that was
\* deleted.
ProjectsAsMeant ==
  \A p \in Project :
    /\ ToSet(db.nodelets[p]) = meant.nodelets[p] /\ IsInjective(db.nodelets[p])
    /\ db.excluded[p] = meant.excluded[p]
    /\ db.name[p] # NoName => NameFree(db, p, db.name[p])

\* The removal of a nodelet takes it out of every project that had it.  What may
\* stay is what a request wrote that looked before the removal, or that did not
\* look, what a restart left of the cascade, and what a deleted project left.
RemovalCascades ==
  \A r \in Dangling : r \in loose \/ \E c \in Requester :
    \/ requests[c].op = "remove" /\ requests[c].nodelet = r[2]
    \/ requests[c].op = "cascade" /\ requests[c].nodelet = r[2] /\ r[1] \in requests[c].left
===============================================================================
