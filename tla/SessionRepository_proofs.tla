----------------------- MODULE SessionRepository_proofs -----------------------
(***************************************************************************)
(* Proofs about SessionRepository for every set of sessions, readers and    *)
(* writers and every bound: what was acknowledged survives a crash, and the *)
(* cache is right about the files.  The inductive invariant says who may    *)
(* change a session (the holder of its lease, whose stage tells what it has *)
(* done so far) and how the cache, the files, what unlocked readers have    *)
(* read and what a crash may leave are related meanwhile.                   *)
(***************************************************************************)
EXTENDS SessionRepository, SequenceTheorems, TLAPS

Looking == {"checking", "reading", "inserting", "listing", "scanning"}
Creation == {"linking", "syncing creation", "ending creation", "unmarking creation"}
Deletion == {"removing", "syncing deletion", "ending deletion", "restoring"}
Appending == {"renaming", "syncing append", "publishing"}

\* The contents are sequences of bounded length.
FilesTyped ==
  /\ file \in [Session -> Seq(Nat)] /\ disk \in [Session -> SUBSET Seq(Nat)]
  /\ temp \in [Writer -> Seq(Nat)]
  /\ \A s \in Session : \A f \in disk[s] : Len(f) <= MaxEntries

\* A writer holds the lease of the session it works on, and of no other; a
\* reader is never at a stage of a writer.
Leases ==
  /\ \A w \in Writer : at[w] # "idle" => lease[on[w]] = w
  /\ \A s \in Session, w \in Writer : lease[s] = w => on[w] = s /\ at[w] # "idle"
  /\ \A r \in Reader : at[r] \notin WriterStages

\* The marks are those of the holder of the lease.
Marked(s) ==
  /\ s \in creating => lease[s] \in Writer /\ at[lease[s]] \in Creation
  /\ s \in deleting => lease[s] \in Writer /\ at[lease[s]] \in Deletion /\ sessions[s] = 0

\* What a writer at a stage knows of its session.
WriterKnows(w, s) ==
  /\ at[w] \in Creation => s \in creating
  /\ at[w] \in Deletion => s \in deleting
  /\ at[w] \in Creation \cup {"marking creation"} => s \notin removed /\ acked[s] = 0
  /\ at[w] \in {"marking creation", "linking", "unmarking creation"} => file[s] = <<>>
  /\ at[w] \in {"syncing creation", "ending creation"} => file[s] = <<1>>
  /\ at[w] = "copying" => sessions[s] # 0
  /\ at[w] \in Appending => sessions[s] # 0 /\ sessions[s] < MaxEntries
  /\ at[w] = "renaming" => temp[w] = file[s]
  /\ at[w] \in {"syncing deletion", "ending deletion"} => file[s] = <<>>
  /\ at[w] \in {"ending creation", "publishing"} /\ s \notin unsure => disk[s] = {file[s]}

Stagewise == \A w \in Writer : WriterKnows(w, on[w])

\* The cached session, or the one that its deletion would put back.
Kept(s) == IF s \in deleting THEN was[lease[s]] ELSE sessions[s]

\* The writer of s has renamed an entry into place that is not in the cache yet.
Ahead(s) == lease[s] \in Writer /\ at[lease[s]] \in {"syncing append", "publishing"}

\* The cache against the file.  A session that was removed may come back from a
\* reader that had read it, with a file that lacks its first entries.
CacheAndFile(s) ==
  Kept(s) # 0 =>
    /\ Len(file[s]) <= Kept(s) + (IF Ahead(s) THEN 1 ELSE 0)
    /\ s \notin removed => Len(file[s]) = Kept(s) + (IF Ahead(s) THEN 1 ELSE 0)

\* What was read without the lock is what the file says as long as the session
\* is not in the cache.
ReadAndFile(s) ==
  \A p \in Process :
    /\ s \notin removed => read[p][s] <= Len(file[s])
    /\ Kept(s) = 0 /\ read[p][s] # 0 => Len(file[s]) <= read[p][s]

\* Every version that a crash may leave can be loaded, and has what was
\* acknowledged unless its sync has failed.
Versions(s) ==
  s \notin removed =>
    /\ \A f \in disk[s] : Intact(f)
    /\ acked[s] <= Len(file[s])
    /\ s \notin unsure => \A f \in disk[s] : acked[s] <= Len(f)

SessionOK(s) == Marked(s) /\ CacheAndFile(s) /\ ReadAndFile(s) /\ Versions(s)

\* A session that was there when a process began is there, and is not lost
\* between the cache and the directory.
Found ==
  /\ \A p \in Process : at[p] = "inserting" => read[p][on[p]] # 0
  /\ \A p \in Process : \A s \in since[p] : s \notin removed \cup deleting /\ acked[s] > 0
  /\ \A p \in Process : at[p] \in {"listing", "scanning"} =>
       \A s \in since[p] :
         sessions[s] # 0 \/ s \in todo[p] \/ (at[p] = "scanning" /\ read[p][s] # 0)
  /\ ReadsFind

RepositoryInv ==
  /\ TypeOK /\ FilesTyped /\ Leases /\ Stagewise
  /\ \A s \in Session : SessionOK(s)
  /\ Found

-----------------------------------------------------------------------------
LEMMA Initially == Init => RepositoryInv
<1>. SUFFICES ASSUME Init PROVE RepositoryInv
  OBVIOUS
<1>. USE RepositoryAssumption DEF Init, NothingRead, Process
<1>1. TypeOK
  BY DEF TypeOK, Stages
<1>2. FilesTyped /\ Leases /\ Stagewise
  BY DEF FilesTyped, Leases, Stagewise, WriterKnows, Creation, Deletion, Appending, WriterStages
<1>3. \A s \in Session : SessionOK(s)
  BY DEF SessionOK, Marked, CacheAndFile, ReadAndFile, Versions, Kept, Intact
<1>4. Found
  BY DEF Found, ReadsFind
<1>. QED BY <1>1, <1>2, <1>3, <1>4 DEF RepositoryInv

\* No two writers work on one session.
LEMMA OneWriter ==
  ASSUME RepositoryInv, NEW w \in Writer, at[w] # "idle"
  PROVE  /\ on[w] \in Session /\ lease[on[w]] = w
         /\ \A v \in Writer \ {w} : at[v] = "idle" \/ on[v] # on[w]
         /\ \A s \in Session \ {on[w]} : lease[s] # w
BY DEF RepositoryInv, Leases, TypeOK, Process

\* What a writer does to its session leaves the other sessions and the writers
\* that work on them alone.
LEMMA OthersKeep ==
  ASSUME RepositoryInv, NEW w \in Writer, at[w] # "idle",
         UNCHANGED <<on, lease, read>>,
         \A v \in Writer \ {w} : at'[v] = at[v] /\ temp'[v] = temp[v] /\ was'[v] = was[v],
         \A s \in Session \ {on[w]} :
           /\ sessions'[s] = sessions[s] /\ file'[s] = file[s] /\ acked'[s] = acked[s]
           /\ s \in creating' <=> s \in creating
           /\ s \in deleting' <=> s \in deleting
           /\ s \in removed' <=> s \in removed
           /\ \/ disk'[s] = disk[s] /\ (s \in unsure' <=> s \in unsure)
              \/ disk'[s] = {file[s]}
  PROVE  /\ \A v \in Writer \ {w} : WriterKnows(v, on[v])'
         /\ \A s \in Session \ {on[w]} : SessionOK(s)'
<1>1. ASSUME NEW v \in Writer \ {w} PROVE WriterKnows(v, on[v])'
  <2>1. on[v] \in Session /\ (at[v] # "idle" => on[v] # on[w])
    BY OneWriter DEF RepositoryInv, TypeOK, Process
  <2>2. at'[v] = at[v] /\ temp'[v] = temp[v] /\ on'[v] = on[v] /\ WriterKnows(v, on[v])
    BY DEF RepositoryInv, Stagewise
  <2>3. CASE at[v] = "idle"
    BY <2>2, <2>3 DEF WriterKnows, Creation, Deletion, Appending
  <2>4. CASE at[v] # "idle"
    <3>. DEFINE s == on[v]
    <3>1. /\ s \in Session \ {on[w]} /\ sessions'[s] = sessions[s] /\ file'[s] = file[s] /\ acked'[s] = acked[s]
          /\ s \in creating' <=> s \in creating
          /\ s \in deleting' <=> s \in deleting
          /\ s \in removed' <=> s \in removed
          /\ \/ disk'[s] = disk[s] /\ (s \in unsure' <=> s \in unsure)
             \/ disk'[s] = {file[s]}
      BY <2>1, <2>4
    <3>. QED BY <2>2, <3>1 DEF WriterKnows
  <2>. QED BY <2>3, <2>4
<1>2. ASSUME NEW s \in Session \ {on[w]} PROVE SessionOK(s)'
  <2>1. lease[s] # w /\ (lease[s] \in Writer => at'[lease[s]] = at[lease[s]] /\ was'[lease[s]] = was[lease[s]])
    BY OneWriter
  <2>2. SessionOK(s)
    BY DEF RepositoryInv
  <2>3. Marked(s)' /\ Kept(s)' = Kept(s) /\ (Ahead(s)' <=> Ahead(s))
    BY <2>1, <2>2 DEF SessionOK, Marked, Kept, Ahead
  <2>4. CacheAndFile(s)' /\ ReadAndFile(s)'
    BY <2>2, <2>3 DEF SessionOK, CacheAndFile, ReadAndFile
  <2>5. Versions(s)'
    <3>1. file[s] \in disk[s] /\ file'[s] = file[s] /\ (s \in removed' <=> s \in removed) /\ acked'[s] = acked[s]
      BY DEF RepositoryInv, TypeOK
    <3>2. disk'[s] = {file[s]} \/ (disk'[s] = disk[s] /\ (s \in unsure' <=> s \in unsure))
      OBVIOUS
    <3>. QED BY <2>2, <3>1, <3>2 DEF SessionOK, Versions, Intact
  <2>. QED BY <2>3, <2>4, <2>5 DEF SessionOK
<1>. QED BY <1>1, <1>2

-----------------------------------------------------------------------------
\* A process that looks for a session, and a writer that has found its own,
\* has no mark and no file of its own yet.
LEMMA LookersHoldNothing ==
  ASSUME RepositoryInv, NEW p \in Process, at[p] \in Looking,
         NEW st \in Looking \cup Answers \cup {"copying"}, st = "copying" => p \in Writer,
         at' = [at EXCEPT ![p] = st], UNCHANGED <<creating, deleting, lease, on, was>>
  PROVE  /\ Leases' /\ at' \in [Process -> Stages]
         /\ \A s \in Session : /\ Ahead(s)' <=> Ahead(s)
                               /\ s \in creating => lease[s] \in Writer /\ at'[lease[s]] \in Creation
                               /\ s \in deleting => lease[s] \in Writer /\ at'[lease[s]] \in Deletion
<1>. USE RepositoryAssumption DEF RepositoryInv, TypeOK, Process
<1>1. at' \in [Process -> Stages]
  BY DEF Stages, Looking, WriterStages
<1>2. Leases'
  <2>1. st # "idle" /\ (st \in WriterStages => p \in Writer) /\ at[p] # "idle"
    BY DEF Looking, Answers, WriterStages
  <2>. QED BY <2>1 DEF Leases
<1>3. ASSUME NEW s \in Session
      PROVE  /\ Ahead(s)' <=> Ahead(s)
             /\ s \in creating => lease[s] \in Writer /\ at'[lease[s]] \in Creation
             /\ s \in deleting => lease[s] \in Writer /\ at'[lease[s]] \in Deletion
  <2>1. SessionOK(s)
    OBVIOUS
  <2>2. at[p] \notin Creation \cup Deletion \cup Appending
    BY DEF Looking, Creation, Deletion, Appending
  <2>3. st \notin Appending
    BY DEF Looking, Answers, Appending
  <2>. QED BY <2>1, <2>2, <2>3 DEF SessionOK, Marked, Ahead, Appending
<1>. QED BY <1>1, <1>2, <1>3

\* Looking at the cache and the files, without a change of them.
LEMMA LookKeeps ==
  ASSUME RepositoryInv, NEW p \in Process, at[p] \in Looking,
         NEW st \in Looking \cup Answers \cup {"copying"},
         st = "copying" => p \in Writer /\ sessions[on[p]] # 0,
         at' = [at EXCEPT ![p] = st],
         UNCHANGED <<cacheVars, fileVars, lease, on, result, temp, was, ghostVars, crashes>>,
         todo' \in [Process -> SUBSET Session],
         read' \in [Process -> [Session -> Nat]],
         \A q \in Process \ {p} : read'[q] = read[q] /\ todo'[q] = todo[q],
         \A s \in Session : \/ read'[p][s] = read[p][s]
                            \/ read'[p][s] = 0
                            \/ read'[p][s] = Len(file[s])
  PROVE  TypeOK' /\ FilesTyped' /\ Leases' /\ Stagewise' /\ \A s \in Session : SessionOK(s)'
<1>. USE DEF cacheVars, fileVars, ghostVars
<1>1. /\ Leases' /\ at' \in [Process -> Stages]
      /\ \A s \in Session : /\ Ahead(s)' <=> Ahead(s)
                            /\ s \in creating => lease[s] \in Writer /\ at'[lease[s]] \in Creation
                            /\ s \in deleting => lease[s] \in Writer /\ at'[lease[s]] \in Deletion
  BY LookersHoldNothing
<1>2. \A s \in Session : file[s] \in Seq(Nat) /\ Len(file[s]) \in 0 .. MaxEntries
  BY DEF RepositoryInv, TypeOK, FilesTyped
<1>3. TypeOK' /\ FilesTyped'
  <2>1. read' \in [Process -> [Session -> 0 .. MaxEntries]]
    <3>1. ASSUME NEW q \in Process, NEW s \in Session PROVE read'[q][s] \in 0 .. MaxEntries
      <4>1. read[q][s] \in 0 .. MaxEntries /\ 0 \in 0 .. MaxEntries
        BY RepositoryAssumption DEF RepositoryInv, TypeOK
      <4>2. read'[q][s] = read[q][s] \/ read'[q][s] = 0 \/ read'[q][s] = Len(file[s])
        OBVIOUS
      <4>. QED BY <1>2, <4>1, <4>2
    <3>. QED BY <3>1
  <2>. QED BY <1>1, <2>1 DEF RepositoryInv, TypeOK, FilesTyped
<1>4. Stagewise'
  <2>. SUFFICES ASSUME NEW w \in Writer PROVE WriterKnows(w, on[w])'
    BY DEF Stagewise
  <2>1. WriterKnows(w, on[w]) /\ (at'[w] = at[w] \/ (w = p /\ at'[w] = st))
    BY DEF RepositoryInv, Stagewise, TypeOK, Process
  <2>2. CASE at'[w] = at[w]
    BY <2>1, <2>2 DEF WriterKnows
  <2>3. CASE w = p /\ at'[w] = st
    BY <2>3 DEF WriterKnows, Looking, Answers, Creation, Deletion, Appending
  <2>. QED BY <2>1, <2>2, <2>3
<1>5. ASSUME NEW s \in Session PROVE SessionOK(s)'
  <2>1. SessionOK(s) /\ (Ahead(s)' <=> Ahead(s)) /\ Kept(s)' = Kept(s)
    BY <1>1 DEF RepositoryInv, Kept
  <2>2. Marked(s)'
    BY <1>1, <2>1 DEF SessionOK, Marked
  <2>3. CacheAndFile(s)' /\ Versions(s)'
    BY <2>1 DEF SessionOK, CacheAndFile, Versions, Intact
  <2>4. ReadAndFile(s)'
    <3>. SUFFICES ASSUME NEW q \in Process
                  PROVE  /\ s \notin removed => read'[q][s] <= Len(file[s])
                         /\ Kept(s) = 0 /\ read'[q][s] # 0 => Len(file[s]) <= read'[q][s]
      BY <2>1 DEF ReadAndFile
    <3>1. read'[q][s] = read[q][s] \/ read'[q][s] = 0 \/ read'[q][s] = Len(file[s])
      OBVIOUS
    <3>. QED BY <1>2, <2>1, <3>1 DEF SessionOK, ReadAndFile
  <2>. QED BY <2>2, <2>3, <2>4 DEF SessionOK
<1>. QED BY <1>1, <1>3, <1>4, <1>5

\* What has no file or is being created was not acknowledged.
LEMMA NotYetAcknowledged ==
  ASSUME RepositoryInv, NEW s \in Session
  PROVE  /\ acked[s] \in Nat
         /\ s \notin removed /\ file[s] = <<>> => acked[s] = 0
         /\ s \in creating => ~(acked[s] > 0)
<1>1. acked[s] \in Nat /\ SessionOK(s)
  BY RepositoryAssumption DEF RepositoryInv, TypeOK
<1>2. s \notin removed /\ file[s] = <<>> => acked[s] = 0
  BY <1>1 DEF SessionOK, Versions
<1>3. s \in creating => acked[s] = 0
  <2>1. s \in creating => lease[s] \in Writer /\ at[lease[s]] \in Creation
    BY <1>1 DEF SessionOK, Marked
  <2>2. ASSUME NEW w \in Writer, lease[s] = w, at[w] \in Creation PROVE acked[s] = 0
    <3>1. on[w] = s /\ WriterKnows(w, on[w])
      BY <2>2 DEF RepositoryInv, Leases, Stagewise
    <3>. QED BY <2>2, <3>1 DEF WriterKnows
  <2>. QED BY <2>1, <2>2
<1>4. acked[s] = 0 => ~(acked[s] > 0)
  OBVIOUS
<1>. QED BY <1>1, <1>2, <1>3, <1>4

\* A session that was there when a process began is there still.
LEMMA StillThere ==
  ASSUME RepositoryInv, NEW p \in Process, NEW s \in since[p]
  PROVE  /\ s \in Session /\ s \notin removed \cup deleting \cup creating
         /\ file[s] \in Seq(Nat) /\ file[s] # <<>> /\ Len(file[s]) # 0 /\ Intact(file[s])
<1>1. s \in Session /\ s \notin removed \cup deleting /\ acked[s] > 0 /\ acked[s] \in Nat /\ SessionOK(s)
  BY RepositoryAssumption DEF RepositoryInv, Found, TypeOK
<1>2. s \notin creating
  BY <1>1, NotYetAcknowledged
<1>3. file[s] \in Seq(Nat) /\ file[s] \in disk[s]
  BY <1>1 DEF RepositoryInv, TypeOK, FilesTyped
<1>4. acked[s] <= Len(file[s]) /\ Intact(file[s])
  BY <1>1, <1>3 DEF SessionOK, Versions
<1>. QED BY <1>1, <1>2, <1>3, <1>4

\* A step of one process that takes nothing out of the cache hides nothing from
\* the others.
LEMMA FoundKeeps ==
  ASSUME RepositoryInv, NEW p \in Process,
         UNCHANGED <<on, since>>,
         \A s \in Session : s \in removed' \cup deleting' => s \in removed \cup deleting,
         \A s \in Session \ (removed \cup deleting) :
           /\ sessions[s] # 0 => sessions'[s] # 0
           /\ acked[s] > 0 => acked'[s] > 0,
         \A q \in Process \ {p} : /\ at'[q] = at[q] /\ read'[q] = read[q]
                                  /\ todo'[q] = todo[q] /\ result'[q] = result[q],
         at'[p] = "inserting" => read'[p][on[p]] # 0,
         at'[p] \in {"listing", "scanning"} =>
           \A s \in since[p] :
             sessions'[s] # 0 \/ s \in todo'[p] \/ (at'[p] = "scanning" /\ read'[p][s] # 0),
         p \in Reader =>
           /\ at'[p] \in {"missing", "unavailable", "corrupt"} => on[p] \notin since[p]
           /\ at'[p] = "listed" => since[p] \subseteq result'[p]
  PROVE  Found'
<1>1. \A q \in Process : since[q] \subseteq Session \ (removed \cup deleting)
  BY DEF RepositoryInv, TypeOK, Found
<1>2. ASSUME NEW q \in Process
      PROVE  /\ at'[q] = "inserting" => read'[q][on[q]] # 0
             /\ at'[q] \in {"listing", "scanning"} =>
                  \A s \in since[q] :
                    sessions'[s] # 0 \/ s \in todo'[q] \/ (at'[q] = "scanning" /\ read'[q][s] # 0)
  BY <1>1 DEF RepositoryInv, Found
<1>3. ReadsFind'
  BY DEF RepositoryInv, Found, ReadsFind, Process
<1>4. \A q \in Process : \A s \in since[q] : s \notin removed' \cup deleting' /\ acked'[s] > 0
  BY <1>1 DEF RepositoryInv, Found
<1>. QED BY <1>2, <1>3, <1>4 DEF Found

\* What is read of a session is a number of entries again.
LEMMA ReadAgain ==
  ASSUME NEW f \in [Process -> [Session -> Nat]], NEW p \in Process, NEW s \in Session, NEW n \in Nat
  PROVE  [f EXCEPT ![p][s] = n] \in [Process -> [Session -> Nat]]
<1>. DEFINE row == [f[p] EXCEPT ![s] = n]
<1>1. row \in [Session -> Nat]
  OBVIOUS
<1>2. [f EXCEPT ![p] = row] \in [Process -> [Session -> Nat]]
  BY <1>1
<1>. QED BY <1>2

\* The steps of Load and List that change neither the cache nor a file.
LEMMA ReadStepsKeep ==
  ASSUME RepositoryInv, NEW p \in Process,
         Check(p) \/ ReadFile(p) \/ ReadDirectory(p) \/ (\E s \in Session : ScanFile(p, s))
  PROVE  RepositoryInv'
<1>. USE DEF Goto
<1>1. on[p] \in Session /\ at \in [Process -> Stages] /\ read \in [Process -> [Session -> Nat]]
      /\ todo \in [Process -> SUBSET Session] /\ \A s \in Session : Len(file[s]) \in Nat
  BY RepositoryAssumption DEF RepositoryInv, TypeOK, FilesTyped
<1>2. CASE Check(p)
  <2>. DEFINE s == on[p]
  <2>1. PICK st \in {"unavailable", "copying", "found", "reading"} :
          /\ at' = [at EXCEPT ![p] = st]
          /\ st = "unavailable" => s \in deleting \cup creating
          /\ st = "copying" => p \in Writer /\ sessions[s] # 0
    BY <1>2 DEF Check, Loaded
  <2>2. at[p] \in Looking /\ st \in Looking \cup Answers \cup {"copying"}
    BY <1>2 DEF Check, Looking, Answers
  <2>3. TypeOK' /\ FilesTyped' /\ Leases' /\ Stagewise' /\ \A k \in Session : SessionOK(k)'
    BY <1>1, <1>2, <2>1, <2>2, LookKeeps DEF Check, localVars
  <2>4. Found'
    BY <1>1, <1>2, <2>1, StillThere, FoundKeeps DEF Check, localVars, ghostVars, cacheVars
  <2>. QED BY <2>3, <2>4 DEF RepositoryInv
<1>3. CASE ReadFile(p)
  <2>. DEFINE s == on[p]
  <2>1. PICK st \in {"failed", "missing", "corrupt", "inserting"} :
          /\ at' = [at EXCEPT ![p] = st]
          /\ st = "missing" => file[s] = <<>>
          /\ st = "corrupt" => ~Intact(file[s])
          /\ st = "inserting" => file[s] # <<>> /\ read' = [read EXCEPT ![p][s] = Len(file[s])]
          /\ st # "inserting" => read' = read
    BY <1>3 DEF ReadFile
  <2>2. at[p] \in Looking /\ st \in Looking \cup Answers \cup {"copying"} /\ st # "copying"
    BY <1>3 DEF ReadFile, Looking, Answers
  <2>3. /\ \A q \in Process \ {p} : read'[q] = read[q]
        /\ \A k \in Session : read'[p][k] = read[p][k] \/ read'[p][k] = Len(file[k])
        /\ read' \in [Process -> [Session -> Nat]]
        /\ st = "inserting" => read'[p][s] # 0
    <3>1. file[s] # <<>> => Len(file[s]) # 0
      BY <1>1 DEF RepositoryInv, FilesTyped
    <3>2. CASE st = "inserting"
      <4>1. \A q \in Process \ {p} : read'[q] = read[q]
        BY <1>1, <2>1, <3>2
      <4>2. \A k \in Session : read'[p][k] = read[p][k] \/ read'[p][k] = Len(file[k])
        BY <1>1, <2>1, <3>2
      <4>3. read' \in [Process -> [Session -> Nat]]
        <5>1. Len(file[s]) \in Nat
          BY <1>1
        <5>2. [read EXCEPT ![p][s] = Len(file[s])] \in [Process -> [Session -> Nat]]
          BY <1>1, <5>1, ReadAgain
        <5>. QED BY <2>1, <3>2, <5>2
      <4>4. read'[p][s] # 0
        BY <1>1, <2>1, <3>1, <3>2
      <4>. QED BY <4>1, <4>2, <4>3, <4>4
    <3>3. CASE st # "inserting"
      BY <1>1, <2>1, <3>3
    <3>. QED BY <3>2, <3>3
  <2>4. TypeOK' /\ FilesTyped' /\ Leases' /\ Stagewise' /\ \A k \in Session : SessionOK(k)'
    BY <1>1, <1>3, <2>1, <2>2, <2>3, LookKeeps DEF ReadFile
  <2>5. Found'
    BY <1>1, <1>3, <2>1, <2>3, StillThere, FoundKeeps, ZenonT(40) DEF ReadFile, ghostVars, cacheVars
  <2>. QED BY <2>4, <2>5 DEF RepositoryInv
<1>4. CASE ReadDirectory(p)
  <2>1. PICK st \in {"failed", "scanning"} :
          /\ at' = [at EXCEPT ![p] = st]
          /\ st = "failed" => todo' = todo
          /\ st = "scanning" => todo' = [todo EXCEPT ![p] = {s \in todo[p] : file[s] # <<>>}]
    BY <1>4 DEF ReadDirectory
  <2>2. at[p] \in Looking /\ st \in Looking \cup Answers \cup {"copying"} /\ st # "copying"
    BY <1>4 DEF ReadDirectory, Looking, Answers
  <2>3. /\ \A q \in Process \ {p} : todo'[q] = todo[q]
        /\ todo' \in [Process -> SUBSET Session]
    BY <1>1, <2>1
  <2>4. TypeOK' /\ FilesTyped' /\ Leases' /\ Stagewise' /\ \A k \in Session : SessionOK(k)'
    BY <1>1, <1>4, <2>1, <2>2, <2>3, LookKeeps DEF ReadDirectory
  <2>5. st = "scanning" => \A s \in since[p] : sessions[s] # 0 \/ s \in todo'[p]
    <3>1. \A s \in since[p] : sessions[s] # 0 \/ s \in todo[p]
      BY <1>4 DEF ReadDirectory, RepositoryInv, Found
    <3>. QED BY <1>1, <2>1, <3>1, StillThere
  <2>6. Found'
    BY <1>1, <1>4, <2>1, <2>3, <2>5, FoundKeeps DEF ReadDirectory, ghostVars, cacheVars
  <2>. QED BY <2>4, <2>6 DEF RepositoryInv
<1>5. ASSUME NEW s \in Session, ScanFile(p, s) PROVE RepositoryInv'
  <2>1. PICK st \in {"failed", "scanning"} :
          /\ at' = [at EXCEPT ![p] = st]
          /\ st = "failed" => read' = read
          /\ st = "scanning" =>
               read' = [read EXCEPT ![p][s] = IF Intact(file[s]) THEN Len(file[s]) ELSE 0]
    <3>1. at[p] = "scanning" /\ (at' = at => at' = [at EXCEPT ![p] = "scanning"])
      BY <1>1, <1>5 DEF ScanFile
    <3>. QED BY <1>5, <3>1 DEF ScanFile
  <2>2. at[p] \in Looking /\ st \in Looking \cup Answers \cup {"copying"} /\ st # "copying"
    BY <1>5 DEF ScanFile, Looking, Answers
  <2>3. /\ \A q \in Process \ {p} : read'[q] = read[q] /\ todo'[q] = todo[q]
        /\ \A k \in Session : read'[p][k] = read[p][k] \/ read'[p][k] = 0 \/ read'[p][k] = Len(file[k])
        /\ read' \in [Process -> [Session -> Nat]] /\ todo' \in [Process -> SUBSET Session]
        /\ todo'[p] = todo[p] \ {s}
    <3>1. todo' = [todo EXCEPT ![p] = todo[p] \ {s}]
      BY <1>5 DEF ScanFile
    <3>2. CASE st = "failed"
      BY <1>1, <2>1, <3>1, <3>2
    <3>3. CASE st = "scanning"
      <4>1. \A q \in Process \ {p} : read'[q] = read[q] /\ todo'[q] = todo[q]
        BY <1>1, <2>1, <3>1, <3>3
      <4>2. \A k \in Session : read'[p][k] = read[p][k] \/ read'[p][k] = 0 \/ read'[p][k] = Len(file[k])
        BY <1>1, <2>1, <3>3
      <4>3. read' \in [Process -> [Session -> Nat]]
        <5>1. (IF Intact(file[s]) THEN Len(file[s]) ELSE 0) \in Nat
          BY <1>1
        <5>2. [read EXCEPT ![p][s] = IF Intact(file[s]) THEN Len(file[s]) ELSE 0]
                \in [Process -> [Session -> Nat]]
          BY <1>1, <5>1, ReadAgain
        <5>. QED BY <2>1, <3>3, <5>2
      <4>. QED BY <1>1, <3>1, <4>1, <4>2, <4>3
    <3>. QED BY <2>1, <3>2, <3>3
  <2>4. TypeOK' /\ FilesTyped' /\ Leases' /\ Stagewise' /\ \A k \in Session : SessionOK(k)'
    BY <1>1, <1>5, <2>1, <2>2, <2>3, LookKeeps, ZenonT(40) DEF ScanFile
  <2>5. st = "scanning" =>
          \A k \in since[p] : sessions[k] # 0 \/ k \in todo'[p] \/ read'[p][k] # 0
    <3>1. \A k \in since[p] : k \in Session /\ (sessions[k] # 0 \/ k \in todo[p] \/ read[p][k] # 0)
      BY <1>5, StillThere DEF ScanFile, RepositoryInv, Found
    <3>2. st = "scanning" /\ s \in since[p] => read'[p][s] # 0
      BY <1>1, <2>1, StillThere
    <3>. QED BY <1>1, <2>1, <2>3, <3>1, <3>2
  <2>6. Found'
    BY <1>1, <1>5, <2>1, <2>3, <2>5, FoundKeeps, ZenonT(40) DEF ScanFile, ghostVars, cacheVars
  <2>. QED BY <2>4, <2>6 DEF RepositoryInv
<1>. QED BY <1>2, <1>3, <1>4, <1>5

\* What a process has read comes into the cache, if nobody has put the session
\* there or marked it meanwhile: the file still says the same.
LEMMA ReadsComeIn ==
  ASSUME RepositoryInv, NEW p \in Process, at[p] \in Looking,
         NEW st \in Answers \cup {"copying"}, st = "copying" => p \in Writer /\ sessions'[on[p]] # 0,
         at' = [at EXCEPT ![p] = st],
         UNCHANGED <<creating, deleting, fileVars, lease, on, read, todo, temp, was, ghostVars, crashes>>,
         result' \in [Process -> SUBSET Session],
         sessions' \in [Session -> 0 .. MaxEntries],
         \A s \in Session : \/ sessions'[s] = sessions[s]
                            \/ /\ s \notin creating \cup deleting /\ sessions[s] = 0
                               /\ sessions'[s] = read[p][s] /\ read[p][s] # 0
  PROVE  TypeOK' /\ FilesTyped' /\ Leases' /\ Stagewise' /\ \A s \in Session : SessionOK(s)'
<1>. USE DEF fileVars, ghostVars
<1>1. /\ Leases' /\ at' \in [Process -> Stages]
      /\ \A s \in Session : /\ Ahead(s)' <=> Ahead(s)
                            /\ s \in creating => lease[s] \in Writer /\ at'[lease[s]] \in Creation
                            /\ s \in deleting => lease[s] \in Writer /\ at'[lease[s]] \in Deletion
  BY LookersHoldNothing
<1>2. TypeOK' /\ FilesTyped'
  BY <1>1 DEF RepositoryInv, TypeOK, FilesTyped
<1>3. Stagewise'
  <2>. SUFFICES ASSUME NEW w \in Writer PROVE WriterKnows(w, on[w])'
    BY DEF Stagewise
  <2>1. WriterKnows(w, on[w]) /\ on[w] \in Session /\ (at'[w] = at[w] \/ (w = p /\ at'[w] = st))
    BY DEF RepositoryInv, Stagewise, TypeOK, Process
  <2>2. CASE at'[w] = at[w]
    <3>1. at[w] \in Appending => sessions'[on[w]] = sessions[on[w]]
      BY <2>1 DEF WriterKnows
    <3>2. sessions[on[w]] # 0 => sessions'[on[w]] # 0
      BY <2>1
    <3>. QED BY <2>1, <2>2, <3>1, <3>2 DEF WriterKnows
  <2>3. CASE w = p /\ at'[w] = st
    BY <2>3 DEF WriterKnows, Answers, Creation, Deletion, Appending
  <2>. QED BY <2>1, <2>2, <2>3
<1>4. ASSUME NEW s \in Session PROVE SessionOK(s)'
  <2>1. SessionOK(s) /\ (Ahead(s)' <=> Ahead(s))
    BY <1>1 DEF RepositoryInv
  <2>2. Marked(s)' /\ Versions(s)'
    BY <1>1, <2>1 DEF SessionOK, Marked, Versions, Intact
  <2>3. CASE sessions'[s] = sessions[s]
    <3>1. Kept(s)' = Kept(s)
      BY <2>3 DEF Kept
    <3>. QED BY <2>1, <2>2, <3>1 DEF SessionOK, CacheAndFile, ReadAndFile
  <2>4. CASE sessions'[s] # sessions[s]
    <3>1. Kept(s) = 0 /\ Kept(s)' = read[p][s] /\ read[p][s] # 0
      BY <2>4 DEF Kept
    <3>2. ~Ahead(s)
      <4>1. Ahead(s) => lease[s] \in Writer /\ on[lease[s]] = s /\ at[lease[s]] \in Appending
        BY DEF Ahead, Appending, RepositoryInv, Leases
      <4>2. sessions[s] = 0
        BY <2>4
      <4>. QED BY <4>1, <4>2 DEF RepositoryInv, Stagewise, WriterKnows
    <3>3. /\ s \notin removed => read[p][s] <= Len(file[s])
          /\ Len(file[s]) <= read[p][s]
      BY <2>1, <3>1 DEF SessionOK, ReadAndFile
    <3>4. Len(file[s]) \in Nat /\ read[p][s] \in Nat
      BY RepositoryAssumption DEF RepositoryInv, TypeOK, FilesTyped
    <3>5. CacheAndFile(s)'
      BY <2>1, <3>1, <3>2, <3>3, <3>4 DEF CacheAndFile
    <3>6. ReadAndFile(s)'
      BY <2>1, <3>1 DEF SessionOK, ReadAndFile
    <3>. QED BY <2>2, <3>5, <3>6 DEF SessionOK
  <2>. QED BY <2>3, <2>4
<1>. QED BY <1>1, <1>2, <1>3, <1>4

LEMMA InsertKeeps ==
  ASSUME RepositoryInv, NEW p \in Process, Insert(p) \/ Merge(p)
  PROVE  RepositoryInv'
<1>. USE DEF Goto
<1>1. /\ on[p] \in Session /\ at \in [Process -> Stages] /\ sessions \in [Session -> 0 .. MaxEntries]
      /\ \A s \in Session : read[p][s] \in 0 .. MaxEntries
      /\ result \in [Process -> SUBSET Session]
  BY DEF RepositoryInv, TypeOK
<1>2. CASE Insert(p)
  <2>. DEFINE s == on[p]
  <2>1. at[p] = "inserting" /\ read[p][s] # 0 /\ at[p] \in Looking
    BY <1>2 DEF Insert, RepositoryInv, Found, Looking
  <2>2. CASE sessions[s] = 0 /\ s \in creating \cup deleting
    <3>1. at' = [at EXCEPT ![p] = "unavailable"] /\ sessions' = sessions
      BY <1>2, <2>2 DEF Insert
    <3>2. TypeOK' /\ FilesTyped' /\ Leases' /\ Stagewise' /\ \A k \in Session : SessionOK(k)'
      BY <1>1, <1>2, <2>1, <3>1, ReadsComeIn DEF Insert, localVars, Answers
    <3>3. Found'
      BY <1>1, <1>2, <2>2, <3>1, StillThere, FoundKeeps DEF Insert, localVars, ghostVars
    <3>. QED BY <3>2, <3>3 DEF RepositoryInv
  <2>3. CASE ~(sessions[s] = 0 /\ s \in creating \cup deleting)
    <3>1. PICK st \in {"copying", "found"} : at' = [at EXCEPT ![p] = st] /\ (st = "copying" => p \in Writer)
      BY <1>2, <2>3 DEF Insert, Loaded
    <3>2. /\ sessions' \in [Session -> 0 .. MaxEntries] /\ sessions'[s] # 0
          /\ sessions[s] # 0 => sessions' = sessions
          /\ sessions[s] = 0 => sessions' = [sessions EXCEPT ![s] = read[p][s]]
      BY <1>1, <1>2, <2>1, <2>3 DEF Insert
    <3>3. \A k \in Session : \/ sessions'[k] = sessions[k]
                             \/ /\ k \notin creating \cup deleting /\ sessions[k] = 0
                                /\ sessions'[k] = read[p][k] /\ read[p][k] # 0
      BY <1>1, <2>1, <2>3, <3>2
    <3>4. TypeOK' /\ FilesTyped' /\ Leases' /\ Stagewise' /\ \A k \in Session : SessionOK(k)'
      BY <1>1, <1>2, <2>1, <3>1, <3>2, <3>3, ReadsComeIn DEF Insert, localVars, Answers
    <3>5. Found'
      BY <1>1, <1>2, <3>1, <3>3, FoundKeeps DEF Insert, localVars, ghostVars
    <3>. QED BY <3>4, <3>5 DEF RepositoryInv
  <2>. QED BY <2>2, <2>3
<1>3. CASE Merge(p)
  <2>1. at[p] = "scanning" /\ at[p] \in Looking /\ at' = [at EXCEPT ![p] = "listed"] /\ todo[p] = {}
    BY <1>3 DEF Merge, Looking
  <2>2. \A k \in Session : sessions'[k] = IF sessions[k] # 0 \/ k \in creating \cup deleting
                                          THEN sessions[k] ELSE read[p][k]
    BY <1>3 DEF Merge
  <2>3. sessions' \in [Session -> 0 .. MaxEntries]
    BY <1>1, <1>3 DEF Merge
  <2>4. result' = [result EXCEPT ![p] = {s \in Session : sessions'[s] # 0}]
    BY <1>3 DEF Merge, Listed
  <2>5. result' \in [Process -> SUBSET Session] /\ \A q \in Process \ {p} : result'[q] = result[q]
    BY <1>1, <2>4
  <2>6. TypeOK' /\ FilesTyped' /\ Leases' /\ Stagewise' /\ \A k \in Session : SessionOK(k)'
    BY <1>1, <1>3, <2>1, <2>2, <2>3, <2>5, ReadsComeIn, ZenonT(40) DEF Merge, Answers
  <2>7. since[p] \subseteq result'[p]
    <3>1. \A k \in since[p] : k \in Session /\ k \notin creating \cup deleting
                              /\ (sessions[k] # 0 \/ read[p][k] # 0)
      BY <2>1, StillThere DEF RepositoryInv, Found
    <3>. QED BY <1>1, <2>2, <2>4, <3>1
  <2>8. Found'
    BY <1>1, <1>3, <2>1, <2>2, <2>5, <2>7, FoundKeeps DEF Merge, ghostVars
  <2>. QED BY <2>6, <2>8 DEF RepositoryInv
<1>. QED BY <1>2, <1>3

\* A process begins; a writer takes a lease that nobody holds.
LEMMA BeginKeeps ==
  ASSUME RepositoryInv, NEW p \in Process, NEW s \in Session,
         NEW stage \in {"checking", "listing", "marking creation", "marking deletion"},
         Begin(p, s, stage),
         UNCHANGED <<cacheVars, fileVars, read, result, temp, was, acked, removed, gone, crashes>>,
         todo' \in [Process -> SUBSET Session],
         \A q \in Process \ {p} : todo'[q] = todo[q],
         \/ p \in Reader /\ stage \in {"checking", "listing"} /\ lease' = lease
         \/ p \in Writer /\ stage # "listing" /\ TakeLease(p, s),
         stage = "marking creation" => file[s] = <<>> /\ s \notin removed,
         stage = "listing" =>
           \A k \in Session \ (creating \cup deleting) : sessions[k] # 0 \/ k \in todo'[p]
  PROVE  RepositoryInv'
<1>. USE RepositoryAssumption DEF cacheVars, fileVars, Process
<1>. DEFINE there == {k \in Session : acked[k] > 0} \ (removed \cup deleting)
<1>1. /\ at \in [Process -> Stages] /\ at[p] = "idle" /\ at' = [at EXCEPT ![p] = stage]
      /\ on \in [Process -> Session] /\ on' = [on EXCEPT ![p] = s]
      /\ since \in [Process -> SUBSET Session] /\ lease \in [Session -> Writer \cup {Nobody}]
      /\ since' = [since EXCEPT ![p] = there] /\ there \subseteq Session
  BY DEF RepositoryInv, TypeOK, Begin, Goto
<1>. HIDE DEF there
<1>2. /\ lease' \in [Session -> Writer \cup {Nobody}]
      /\ \A k \in Session : lease'[k] = lease[k] \/ (k = s /\ lease[s] = Nobody /\ lease'[s] = p /\ p \in Writer)
      /\ p \in Writer => lease'[s] = p
  <2>1. CASE p \in Reader /\ lease' = lease
    BY <1>1, <2>1
  <2>2. CASE p \in Writer /\ TakeLease(p, s)
    BY <1>1, <2>2 DEF TakeLease
  <2>. QED BY <2>1, <2>2
<1>3. TypeOK' /\ FilesTyped'
  <2>1. stage \in Stages
    BY DEF Stages, WriterStages
  <2>2. at' \in [Process -> Stages] /\ on' \in [Process -> Session] /\ since' \in [Process -> SUBSET Session]
    BY <1>1, <2>1
  <2>. QED BY <1>2, <2>2 DEF RepositoryInv, TypeOK, FilesTyped
<1>4. Leases'
  <2>1. (stage \in WriterStages => p \in Writer) /\ stage # "idle"
    BY DEF WriterStages
  <2>2. \A k \in Session, w \in Writer : lease[k] = w => on[w] = k /\ at[w] # "idle"
    BY DEF RepositoryInv, Leases
  <2>3. ASSUME NEW w \in Writer, at'[w] # "idle" PROVE lease'[on'[w]] = w
    <3>1. CASE w = p
      BY <1>1, <1>2, <3>1
    <3>2. CASE w # p
      <4>1. on'[w] = on[w] /\ on[w] \in Session /\ lease[on[w]] = w
        BY <1>1, <2>3, <3>2 DEF RepositoryInv, Leases
      <4>. QED BY <1>2, <4>1
    <3>. QED BY <3>1, <3>2
  <2>4. ASSUME NEW k \in Session, NEW w \in Writer, lease'[k] = w PROVE on'[w] = k /\ at'[w] # "idle"
    <3>1. CASE w = p
      BY <1>1, <1>2, <2>1, <2>2, <2>4, <3>1
    <3>2. CASE w # p
      BY <1>1, <1>2, <2>2, <2>4, <3>2
    <3>. QED BY <3>1, <3>2
  <2>5. \A r \in Reader : at'[r] \notin WriterStages
    BY <1>1, <2>1, ZenonT(40) DEF RepositoryInv, Leases
  <2>. QED BY <2>3, <2>4, <2>5 DEF Leases
<1>5. ASSUME NEW k \in Session
      PROVE  /\ SessionOK(k) /\ on'[p] = s
             /\ lease[k] \in Writer =>
                  lease[k] # p /\ lease'[k] = lease[k] /\ at'[lease[k]] = at[lease[k]]
  <2>1. lease[k] \in Writer => at[lease[k]] # "idle"
    BY DEF RepositoryInv, Leases
  <2>. QED BY <1>1, <1>2, <2>1 DEF RepositoryInv
<1>6. ASSUME NEW k \in Session PROVE SessionOK(k)'
  <2>1. Ahead(k)' <=> Ahead(k)
    BY <1>1, <1>2, <1>5 DEF Ahead
  <2>2. Marked(k)' /\ Kept(k)' = Kept(k)
    BY <1>5 DEF SessionOK, Marked, Kept
  <2>3. CacheAndFile(k)' /\ ReadAndFile(k)' /\ Versions(k)'
    BY <1>5, <2>1, <2>2 DEF SessionOK, CacheAndFile, ReadAndFile, Versions, Intact
  <2>. QED BY <2>2, <2>3 DEF SessionOK
<1>7. Stagewise'
  <2>. SUFFICES ASSUME NEW w \in Writer PROVE WriterKnows(w, on[w])'
    BY DEF Stagewise
  <2>1. CASE w # p
    BY <1>1, <2>1 DEF RepositoryInv, Stagewise, WriterKnows
  <2>2. CASE w = p
    <3>1. s \notin removed /\ file[s] = <<>> => acked[s] = 0
      BY NotYetAcknowledged
    <3>. QED BY <1>1, <2>2, <3>1 DEF WriterKnows, Creation, Deletion, Appending
  <2>. QED BY <2>1, <2>2
<1>8. Found'
  <2>1. \A q \in Process \ {p} : on'[q] = on[q] /\ at'[q] = at[q] /\ since'[q] = since[q]
    BY <1>1
  <2>2. since'[p] = there /\ \A k \in there : k \in Session \ (removed \cup deleting) /\ acked[k] > 0
    BY <1>1 DEF there
  <2>3. \A k \in there : k \notin creating
    <3>. SUFFICES ASSUME NEW k \in there, k \in creating PROVE FALSE
      OBVIOUS
    <3>1. k \in Session /\ acked[k] > 0
      BY <2>2
    <3>. QED BY <3>1, NotYetAcknowledged, Zenon
  <2>4. ReadsFind'
    BY <1>1, <2>1 DEF RepositoryInv, Found, ReadsFind
  <2>. QED BY <1>1, <2>1, <2>2, <2>3, <2>4, ZenonT(40) DEF RepositoryInv, Found
<1>. QED BY <1>3, <1>4, <1>6, <1>7, <1>8 DEF RepositoryInv

\* An operation that has answered leaves nothing but its lease, which is given back.
LEMMA ReturnKeeps ==
  ASSUME RepositoryInv, NEW p \in Process, Return(p)
  PROVE  RepositoryInv'
<1>. USE RepositoryAssumption DEF Return, Goto, cacheVars, fileVars, Process
<1>1. /\ at \in [Process -> Stages] /\ at[p] \in Answers /\ at' = [at EXCEPT ![p] = "idle"]
      /\ on \in [Process -> Session] /\ on' = on
      /\ lease \in [Session -> Writer \cup {Nobody}]
      /\ since \in [Process -> SUBSET Session] /\ since' = [since EXCEPT ![p] = {}]
  BY DEF RepositoryInv, TypeOK
<1>2. /\ lease' \in [Session -> Writer \cup {Nobody}]
      /\ \A k \in Session : \/ lease'[k] = lease[k] /\ lease[k] # p
                            \/ lease[k] = p /\ lease'[k] = Nobody
  BY <1>1
<1>3. TypeOK' /\ FilesTyped'
  <2>1. NothingRead \in [Session -> 0 .. MaxEntries] /\ "idle" \in Stages
    BY DEF NothingRead, Stages
  <2>. QED BY <1>1, <1>2, <2>1 DEF RepositoryInv, TypeOK, FilesTyped
<1>4. Leases'
  <2>1. \A r \in Reader : at'[r] \notin WriterStages
    BY <1>1 DEF RepositoryInv, Leases, WriterStages
  <2>2. ASSUME NEW w \in Writer, at'[w] # "idle" PROVE lease'[on'[w]] = w
    BY <1>1, <1>2, <2>2 DEF RepositoryInv, Leases
  <2>3. ASSUME NEW k \in Session, NEW w \in Writer, lease'[k] = w PROVE on'[w] = k /\ at'[w] # "idle"
    <3>1. w # p /\ lease[k] = w
      BY <1>2, <2>3
    <3>. QED BY <1>1, <3>1 DEF RepositoryInv, Leases
  <2>. QED BY <2>1, <2>2, <2>3 DEF Leases
<1>5. \A k \in Session : /\ SessionOK(k)
                         /\ k \in creating \cup deleting => lease[k] \in Writer /\ lease[k] # p
  BY <1>1 DEF RepositoryInv, SessionOK, Marked, Answers, Creation, Deletion
<1>6. ASSUME NEW k \in Session PROVE SessionOK(k)'
  <2>1. Ahead(k)' <=> Ahead(k)
    BY <1>1, <1>2 DEF Ahead, Answers
  <2>2. Marked(k)' /\ Kept(k)' = Kept(k)
    BY <1>1, <1>2, <1>5 DEF SessionOK, Marked, Kept
  <2>3. \A q \in Process : read'[q][k] = read[q][k] \/ read'[q][k] = 0
    BY DEF RepositoryInv, TypeOK, NothingRead
  <2>4. Len(file[k]) \in Nat
    BY DEF RepositoryInv, FilesTyped
  <2>5. CacheAndFile(k)' /\ ReadAndFile(k)' /\ Versions(k)'
    BY <1>5, <2>1, <2>2, <2>3, <2>4 DEF SessionOK, CacheAndFile, ReadAndFile, Versions, Intact
  <2>. QED BY <2>2, <2>5 DEF SessionOK
<1>7. Stagewise'
  <2>. SUFFICES ASSUME NEW w \in Writer PROVE WriterKnows(w, on[w])'
    BY DEF Stagewise
  <2>1. CASE w # p
    BY <1>1, <2>1 DEF RepositoryInv, Stagewise, WriterKnows
  <2>2. CASE w = p
    BY <1>1, <2>2 DEF WriterKnows, Creation, Deletion, Appending
  <2>. QED BY <2>1, <2>2
<1>8. Found'
  <2>1. \A q \in Process \ {p} : /\ at'[q] = at[q] /\ since'[q] = since[q] /\ read'[q] = read[q]
                                 /\ todo'[q] = todo[q] /\ result'[q] = result[q]
    BY <1>1 DEF RepositoryInv, TypeOK
  <2>2. at'[p] = "idle" /\ since'[p] = {}
    BY <1>1
  <2>3. ReadsFind'
    BY <1>1, <2>1, <2>2 DEF RepositoryInv, Found, ReadsFind
  <2>. QED BY <1>1, <2>1, <2>2, <2>3 DEF RepositoryInv, Found
<1>. QED BY <1>3, <1>4, <1>6, <1>7, <1>8 DEF RepositoryInv

-----------------------------------------------------------------------------
\* A step of a writer is right when its own session and its own stage are.
LEMMA WriterStep ==
  ASSUME RepositoryInv, NEW w \in Writer, at[w] # "idle",
         NEW st \in Stages \ {"idle"}, at' = [at EXCEPT ![w] = st],
         UNCHANGED <<on, lease, read>>,
         \A v \in Writer \ {w} : temp'[v] = temp[v] /\ was'[v] = was[v],
         \A s \in Session \ {on[w]} :
           /\ sessions'[s] = sessions[s] /\ file'[s] = file[s] /\ acked'[s] = acked[s]
           /\ s \in creating' <=> s \in creating
           /\ s \in deleting' <=> s \in deleting
           /\ s \in removed' <=> s \in removed
           /\ \/ disk'[s] = disk[s] /\ (s \in unsure' <=> s \in unsure)
              \/ disk'[s] = {file[s]},
         WriterKnows(w, on[w])', SessionOK(on[w])', TypeOK', FilesTyped', Found'
  PROVE  RepositoryInv'
<1>1. at \in [Process -> Stages] /\ w \in Process /\ w \notin Reader
  BY RepositoryAssumption DEF RepositoryInv, TypeOK, Process
<1>2. /\ \A v \in Writer \ {w} : WriterKnows(v, on[v])'
      /\ \A s \in Session \ {on[w]} : SessionOK(s)'
  BY <1>1, OthersKeep DEF Process
<1>3. Leases'
  BY <1>1 DEF RepositoryInv, Leases, Process
<1>4. Stagewise' /\ \A s \in Session : SessionOK(s)'
  BY <1>2 DEF Stagewise
<1>. QED BY <1>3, <1>4 DEF RepositoryInv

\* What is known of the session that a writer works on.
LEMMA Own ==
  ASSUME RepositoryInv, NEW w \in Writer, at[w] # "idle"
  PROVE  LET s == on[w] IN
         /\ s \in Session /\ lease[s] = w /\ w \in Process /\ w \notin Reader
         /\ SessionOK(s) /\ WriterKnows(w, s)
         /\ s \in creating => at[w] \in Creation
         /\ s \in deleting => at[w] \in Deletion /\ sessions[s] = 0
         /\ Ahead(s) <=> at[w] \in {"syncing append", "publishing"}
         /\ file[s] \in Seq(Nat) /\ file[s] \in disk[s] /\ sessions[s] \in 0 .. MaxEntries
         /\ Len(file[s]) \in 0 .. MaxEntries
<1>1. on[w] \in Session /\ lease[on[w]] = w /\ w \in Process /\ w \notin Reader
  BY OneWriter, RepositoryAssumption DEF Process
<1>2. SessionOK(on[w]) /\ WriterKnows(w, on[w])
  BY <1>1 DEF RepositoryInv, Stagewise
<1>3. file[on[w]] \in Seq(Nat) /\ file[on[w]] \in disk[on[w]] /\ sessions[on[w]] \in 0 .. MaxEntries
      /\ Len(file[on[w]]) \in 0 .. MaxEntries
  BY <1>1 DEF RepositoryInv, TypeOK, FilesTyped
<1>. QED BY <1>1, <1>2, <1>3 DEF SessionOK, Marked, Ahead

\* A session keeps its relations when only its mark and its cache change places.
LEMMA SameSession ==
  ASSUME RepositoryInv, NEW s \in Session,
         UNCHANGED <<file, disk, unsure, acked, removed, read>>,
         Marked(s)', Kept(s)' = Kept(s), Ahead(s)' <=> Ahead(s)
  PROVE  SessionOK(s)'
<1>1. SessionOK(s)
  BY DEF RepositoryInv
<1>2. CacheAndFile(s)' /\ ReadAndFile(s)' /\ Versions(s)'
  BY <1>1 DEF SessionOK, CacheAndFile, ReadAndFile, Versions, Intact
<1>. QED BY <1>2 DEF SessionOK

\* A file that takes a name is one more version that a crash may leave.
LEMMA PutKeeps ==
  ASSUME RepositoryInv, NEW s \in Session, NEW f \in Seq(Nat), Len(f) <= MaxEntries, Put(s, f),
         temp' = temp
  PROVE  /\ FilesTyped'
         /\ \A k \in Session : Len(file'[k]) <= MaxEntries /\ file'[k] \in disk'[k]
         /\ file'[s] = f /\ disk'[s] = disk[s] \cup {f} /\ unsure' = unsure
         /\ \A k \in Session \ {s} : file'[k] = file[k] /\ disk'[k] = disk[k]
<1>1. /\ file \in [Session -> Seq(Nat)] /\ disk \in [Session -> SUBSET Seq(Nat)]
      /\ \A k \in Session : Len(file[k]) <= MaxEntries /\ file[k] \in disk[k]
      /\ \A k \in Session : \A g \in disk[k] : Len(g) <= MaxEntries
      /\ temp \in [Writer -> Seq(Nat)]
  BY DEF RepositoryInv, TypeOK, FilesTyped
<1>2. /\ file' = [file EXCEPT ![s] = f] /\ disk' = [disk EXCEPT ![s] = disk[s] \cup {f}]
      /\ unsure' = unsure
  BY DEF Put
<1>3. /\ file' \in [Session -> Seq(Nat)] /\ disk' \in [Session -> SUBSET Seq(Nat)]
      /\ file'[s] = f /\ disk'[s] = disk[s] \cup {f}
      /\ \A k \in Session \ {s} : file'[k] = file[k] /\ disk'[k] = disk[k]
  BY <1>1, <1>2
<1>. QED BY <1>1, <1>2, <1>3 DEF FilesTyped

\* CreateSession.
LEMMA CreationKeeps ==
  ASSUME RepositoryInv, NEW w \in Writer,
         MarkCreation(w) \/ Link(w) \/ EndCreation(w) \/ UnmarkCreation(w)
  PROVE  RepositoryInv'
<1>. DEFINE s == on[w]
<1>. USE DEF Goto, cacheVars, fileVars, localVars, ghostVars
<1>1. at[w] \in {"marking creation", "linking", "ending creation", "unmarking creation"} /\ at[w] # "idle"
  BY DEF MarkCreation, Link, EndCreation, UnmarkCreation
<1>2. /\ s \in Session /\ lease[s] = w /\ w \in Process /\ w \notin Reader
      /\ SessionOK(s) /\ WriterKnows(w, s)
      /\ s \in creating => at[w] \in Creation
      /\ s \notin deleting /\ s \notin removed /\ ~Ahead(s) /\ Kept(s) = sessions[s]
      /\ file[s] \in Seq(Nat) /\ file[s] \in disk[s] /\ sessions[s] \in 0 .. MaxEntries
      /\ Len(file[s]) \in 0 .. MaxEntries /\ acked[s] = 0
  BY <1>1, Own DEF Deletion, Creation, WriterKnows, Kept
<1>3. /\ at \in [Process -> Stages] /\ sessions \in [Session -> 0 .. MaxEntries]
      /\ acked \in [Session -> 0 .. MaxEntries] /\ MaxEntries \in Nat \ {0}
      /\ file[s] = <<>> => sessions[s] = 0
  BY <1>2, RepositoryAssumption DEF RepositoryInv, TypeOK, SessionOK, CacheAndFile
<1>4. CASE MarkCreation(w)
  <2>1. PICK st \in {"failed", "linking"} :
          /\ at' = [at EXCEPT ![w] = st]
          /\ st = "failed" => creating' = creating
          /\ st = "linking" => creating' = creating \cup {s}
    BY <1>4 DEF MarkCreation
  <2>2. at'[w] = st
    BY <1>2, <1>3, <2>1
  <2>3. WriterKnows(w, s)'
    BY <1>1, <1>2, <1>4, <2>1, <2>2 DEF MarkCreation, WriterKnows, Creation, Deletion, Appending
  <2>4. SessionOK(s)'
    <3>1. Marked(s)'
      BY <1>2, <1>4, <2>1, <2>2 DEF MarkCreation, Marked, Creation
    <3>2. Kept(s)' = Kept(s) /\ ~Ahead(s)'
      BY <1>2, <1>4, <2>2 DEF MarkCreation, Kept, Ahead
    <3>. QED BY <1>2, <1>4, <3>1, <3>2, SameSession DEF MarkCreation
  <2>5. st \in Stages \ {"idle"}
    BY DEF Stages, WriterStages, Answers
  <2>6. TypeOK' /\ FilesTyped'
    BY <1>2, <1>4, <2>1, <2>5 DEF MarkCreation, RepositoryInv, TypeOK, FilesTyped
  <2>7. Found'
    BY <1>2, <1>3, <1>4, <2>1, FoundKeeps DEF MarkCreation
  <2>. QED BY <1>1, <1>4, <2>1, <2>3, <2>4, <2>5, <2>6, <2>7, WriterStep DEF MarkCreation
<1>5. CASE UnmarkCreation(w)
  <2>1. at' = [at EXCEPT ![w] = "failed"] /\ at'[w] = "failed" /\ "failed" \in Stages \ {"idle"}
    BY <1>2, <1>3, <1>5 DEF UnmarkCreation, Stages, Answers
  <2>2. WriterKnows(w, s)'
    BY <2>1 DEF WriterKnows, Creation, Deletion, Appending
  <2>3. SessionOK(s)'
    <3>1. Marked(s)' /\ Kept(s)' = Kept(s) /\ ~Ahead(s)'
      BY <1>2, <1>5, <2>1 DEF UnmarkCreation, Marked, Kept, Ahead
    <3>. QED BY <1>2, <1>5, <3>1, SameSession DEF UnmarkCreation
  <2>4. TypeOK' /\ FilesTyped'
    <3>1. at' \in [Process -> Stages] /\ creating' \subseteq Session
      <4>1. creating \subseteq Session /\ creating' = creating \ {s}
        BY <1>5 DEF UnmarkCreation, RepositoryInv, TypeOK
      <4>. QED BY <1>3, <2>1, <4>1
    <3>. QED BY <1>5, <3>1 DEF UnmarkCreation, RepositoryInv, TypeOK, FilesTyped
  <2>5. Found'
    BY <1>2, <1>3, <1>5, <2>1, FoundKeeps DEF UnmarkCreation
  <2>. QED BY <1>1, <1>5, <2>1, <2>2, <2>3, <2>4, <2>5, WriterStep DEF UnmarkCreation
<1>6. CASE EndCreation(w)
  <2>1. /\ at' = [at EXCEPT ![w] = "acknowledged"] /\ at'[w] = "acknowledged"
        /\ "acknowledged" \in Stages \ {"idle"}
    BY <1>2, <1>3, <1>6 DEF EndCreation, Stages, Answers
  <2>2. WriterKnows(w, s)'
    BY <2>1 DEF WriterKnows, Creation, Deletion, Appending
  <2>3. /\ sessions' = [sessions EXCEPT ![s] = 1] /\ sessions'[s] = 1
        /\ acked' = [acked EXCEPT ![s] = 1] /\ acked'[s] = 1
        /\ \A k \in Session \ {s} : sessions'[k] = sessions[k] /\ acked'[k] = acked[k]
        /\ sessions' \in [Session -> 0 .. MaxEntries] /\ acked' \in [Session -> 0 .. MaxEntries]
    <3>1. sessions' = [sessions EXCEPT ![s] = 1] /\ acked' = [acked EXCEPT ![s] = 1]
      BY <1>6 DEF EndCreation
    <3>2. 1 \in 0 .. MaxEntries
      BY <1>3
    <3>. QED BY <1>2, <1>3, <3>1, <3>2
  <2>4. /\ Len(file[s]) = 1 /\ \A f \in disk[s] : Intact(f)
        /\ s \notin unsure => disk[s] = {file[s]}
    BY <1>2, <1>6 DEF EndCreation, WriterKnows, SessionOK, Versions
  <2>5. SessionOK(s)'
    <3>1. Marked(s)' /\ Kept(s)' = 1 /\ ~Ahead(s)'
      BY <1>2, <1>6, <2>1, <2>3 DEF EndCreation, Marked, Kept, Ahead
    <3>2. /\ file' = file /\ disk' = disk /\ unsure' = unsure /\ read' = read /\ removed' = removed
          /\ on' = on /\ ReadAndFile(s)
      BY <1>2, <1>6 DEF EndCreation, SessionOK
    <3>3. s' = s /\ sessions'[s] = 1 /\ acked'[s] = 1
      BY <2>3, <3>2
    <3>4. CacheAndFile(s)'
      <4>1. (IF Ahead(s)' THEN 1 ELSE 0) = 0 /\ Len(file'[s]) = 1
        BY <2>4, <3>1, <3>2
      <4>. QED BY <3>1, <3>3, <4>1 DEF CacheAndFile
    <3>5. ReadAndFile(s)'
      BY <1>2, <3>1, <3>2, <3>3 DEF ReadAndFile
    <3>6. Versions(s)'
      <4>1. s \notin unsure => \A f \in disk[s] : 1 <= Len(f)
        BY <2>4
      <4>. QED BY <2>4, <3>2, <3>3, <4>1 DEF Versions, Intact
    <3>. QED BY <3>1, <3>4, <3>5, <3>6 DEF SessionOK
  <2>6. TypeOK' /\ FilesTyped'
    <3>1. at' \in [Process -> Stages] /\ creating' \subseteq Session
      <4>1. creating \subseteq Session /\ creating' = creating \ {s}
        BY <1>6 DEF EndCreation, RepositoryInv, TypeOK
      <4>. QED BY <1>3, <2>1, <4>1
    <3>. QED BY <1>6, <2>3, <3>1 DEF EndCreation, RepositoryInv, TypeOK, FilesTyped
  <2>7. Found'
    <3>1. \A q \in Process \ {w} : at'[q] = at[q]
      BY <1>3, <2>1
    <3>2. \A k \in Session : /\ sessions[k] # 0 => sessions'[k] # 0
                             /\ acked[k] > 0 => acked'[k] > 0
      BY <2>3
    <3>. QED BY <1>2, <1>6, <2>1, <3>1, <3>2, FoundKeeps DEF EndCreation
  <2>. QED BY <1>1, <1>6, <2>1, <2>2, <2>3, <2>5, <2>6, <2>7, WriterStep DEF EndCreation
<1>7. CASE Link(w)
  <2>1. file[s] = <<>> /\ sessions[s] = 0 /\ s \in creating
    BY <1>2, <1>3, <1>7 DEF Link, WriterKnows, Creation
  <2>2. CASE at' = [at EXCEPT ![w] = "unmarking creation"] /\ UNCHANGED fileVars
    <3>1. at'[w] = "unmarking creation" /\ "unmarking creation" \in Stages \ {"idle"}
      BY <1>2, <1>3, <2>2 DEF Stages, WriterStages
    <3>2. WriterKnows(w, s)'
      BY <1>2, <1>7, <2>1, <2>2, <3>1 DEF Link, WriterKnows, Creation, Deletion, Appending
    <3>3. SessionOK(s)'
      <4>1. Marked(s)' /\ Kept(s)' = Kept(s) /\ ~Ahead(s)'
        BY <1>2, <1>7, <3>1 DEF Link, Marked, Kept, Ahead, Creation
      <4>. QED BY <1>2, <1>7, <2>2, <4>1, SameSession DEF Link
    <3>4. TypeOK' /\ FilesTyped'
      BY <1>2, <1>7, <2>2, <3>1 DEF Link, RepositoryInv, TypeOK, FilesTyped
    <3>5. Found'
      BY <1>2, <1>3, <1>7, <2>2, <3>1, FoundKeeps DEF Link
    <3>. QED BY <1>1, <1>7, <2>2, <3>1, <3>2, <3>3, <3>4, <3>5, WriterStep DEF Link
  <2>3. CASE at' = [at EXCEPT ![w] = "syncing creation"] /\ Put(s, <<1>>)
    <3>1. at'[w] = "syncing creation" /\ "syncing creation" \in Stages \ {"idle"}
      BY <1>2, <1>3, <2>3 DEF Stages, WriterStages
    <3>2. /\ FilesTyped'
          /\ \A k \in Session : Len(file'[k]) <= MaxEntries /\ file'[k] \in disk'[k]
          /\ file'[s] = <<1>> /\ disk'[s] = disk[s] \cup {<<1>>} /\ unsure' = unsure
          /\ \A k \in Session \ {s} : file'[k] = file[k] /\ disk'[k] = disk[k]
      <4>1. <<1>> \in Seq(Nat) /\ Len(<<1>>) <= MaxEntries
        BY <1>3
      <4>. QED BY <1>2, <1>7, <2>3, <4>1, PutKeeps DEF Link
    <3>3. WriterKnows(w, s)'
      BY <1>2, <1>7, <2>1, <3>1, <3>2 DEF Link, WriterKnows, Creation, Deletion, Appending
    <3>4. SessionOK(s)'
      <4>1. Marked(s)' /\ Kept(s)' = 0 /\ ~Ahead(s)'
        BY <1>2, <1>7, <2>1, <3>1 DEF Link, Marked, Kept, Ahead, Creation
      <4>2. CacheAndFile(s)'
        BY <4>1 DEF CacheAndFile
      <4>3. ReadAndFile(s)'
        <5>1. \A q \in Process : read[q][s] \in Nat /\ read[q][s] <= 0
          BY <1>2, <1>3, <2>1 DEF SessionOK, ReadAndFile, RepositoryInv, TypeOK
        <5>2. read' = read /\ on' = on /\ Len(file'[s]) = 1
          BY <1>7, <3>2 DEF Link
        <5>3. Kept(s)' = 0 /\ \A q \in Process : read[q][s] <= 1 /\ ~(read[q][s] # 0)
          BY <4>1, <5>1
        <5>. QED BY <5>2, <5>3 DEF ReadAndFile
      <4>4. Versions(s)'
        <5>1. \A f \in disk[s] : Intact(f) /\ f \in Seq(Nat)
          BY <1>2 DEF SessionOK, Versions, FilesTyped, RepositoryInv
        <5>2. Intact(<<1>>) /\ <<1>> \in Seq(Nat)
          BY DEF Intact
        <5>3. \A f \in disk'[s] : Intact(f) /\ 0 <= Len(f)
          BY <3>2, <5>1, <5>2
        <5>4. acked'[s] = 0 /\ file'[s] \in disk'[s] /\ on' = on
          BY <1>2, <1>7, <3>2 DEF Link
        <5>. QED BY <5>3, <5>4 DEF Versions, Intact
      <4>. QED BY <4>1, <4>2, <4>3, <4>4 DEF SessionOK
    <3>5. TypeOK'
      BY <1>2, <1>7, <2>3, <3>1, <3>2 DEF Link, RepositoryInv, TypeOK
    <3>6. Found'
      BY <1>2, <1>3, <1>7, <2>3, <3>1, FoundKeeps DEF Link
    <3>. QED BY <1>1, <1>7, <2>3, <3>1, <3>2, <3>3, <3>4, <3>5, <3>6, WriterStep DEF Link
  <2>. QED BY <1>7, <2>2, <2>3 DEF Link
<1>. QED BY <1>4, <1>5, <1>6, <1>7

\* One more entry on a file that can be loaded.
LEMMA OneMoreEntry ==
  ASSUME NEW f \in Seq(Nat), NEW n \in Nat
  PROVE  /\ Append(f, n) \in Seq(Nat) /\ Len(Append(f, n)) = Len(f) + 1
         /\ Intact(f) /\ n = Len(f) + 1 => Intact(Append(f, n))
<1>1. /\ Append(f, n) \in Seq(Nat) /\ Len(Append(f, n)) = Len(f) + 1 /\ Len(f) \in Nat
      /\ \A i \in 1 .. Len(f) + 1 : Append(f, n)[i] = IF i <= Len(f) THEN f[i] ELSE n
  BY AppendProperties
<1>2. Intact(f) /\ n = Len(f) + 1 => Intact(Append(f, n))
  <2>. SUFFICES ASSUME Intact(f), n = Len(f) + 1, NEW i \in 1 .. Len(f) + 1
                PROVE  Append(f, n)[i] = i
    BY <1>1 DEF Intact
  <2>1. CASE i <= Len(f)
    <3>1. i \in 1 .. Len(f)
      BY <1>1, <2>1
    <3>. QED BY <1>1, <2>1, <3>1 DEF Intact
  <2>2. CASE ~(i <= Len(f))
    BY <1>1, <2>2
  <2>. QED BY <2>1, <2>2
<1>. QED BY <1>1, <1>2

\* AppendEntry, after it has loaded its session.
LEMMA AppendKeeps ==
  ASSUME RepositoryInv, NEW w \in Writer, Copy(w) \/ Rename(w) \/ PublishEntry(w)
  PROVE  RepositoryInv'
<1>. DEFINE s == on[w]
            n == sessions[s]
<1>. USE DEF Goto, cacheVars, fileVars, localVars, ghostVars
<1>1. at[w] \in {"copying", "renaming", "publishing"} /\ at[w] # "idle"
  BY DEF Copy, Rename, PublishEntry
<1>2. /\ s \in Session /\ lease[s] = w /\ w \in Process /\ w \notin Reader
      /\ SessionOK(s) /\ WriterKnows(w, s)
      /\ s \notin creating /\ s \notin deleting /\ Kept(s) = n
      /\ Ahead(s) <=> at[w] = "publishing"
      /\ file[s] \in Seq(Nat) /\ file[s] \in disk[s] /\ n \in 0 .. MaxEntries
      /\ Len(file[s]) \in 0 .. MaxEntries
  BY <1>1, Own DEF Deletion, Creation, Kept
<1>3. /\ at \in [Process -> Stages] /\ sessions \in [Session -> 0 .. MaxEntries]
      /\ acked \in [Session -> 0 .. MaxEntries] /\ MaxEntries \in Nat \ {0}
      /\ temp \in [Writer -> Seq(Nat)] /\ n # 0 /\ n \in Nat
      /\ \A q \in Process : read[q][s] \in Nat
      /\ \A f \in disk[s] : f \in Seq(Nat) /\ Len(f) \in Nat
  <2>1. n # 0
    BY <1>1, <1>2 DEF WriterKnows, Appending
  <2>2. \A f \in disk[s] : f \in Seq(Nat) /\ Len(f) \in Nat
    BY <1>2 DEF RepositoryInv, FilesTyped
  <2>3. \A q \in Process : read[q][s] \in Nat
    BY <1>2, RepositoryAssumption DEF RepositoryInv, TypeOK
  <2>. QED BY <1>2, <2>1, <2>2, <2>3, RepositoryAssumption DEF RepositoryInv, TypeOK, FilesTyped
<1>4. CASE Copy(w)
  <2>1. CASE at' = [at EXCEPT ![w] = "failed"] /\ UNCHANGED temp
    <3>1. at'[w] = "failed" /\ "failed" \in Stages \ {"idle"}
      BY <1>2, <1>3, <2>1 DEF Stages, Answers
    <3>2. WriterKnows(w, s)'
      BY <3>1 DEF WriterKnows, Creation, Deletion, Appending
    <3>3. SessionOK(s)'
      <4>1. Marked(s)' /\ Kept(s)' = Kept(s) /\ ~Ahead(s)' /\ ~Ahead(s)
        BY <1>2, <1>4, <3>1 DEF Copy, Marked, Kept, Ahead
      <4>. QED BY <1>2, <1>4, <4>1, SameSession DEF Copy
    <3>4. TypeOK' /\ FilesTyped'
      BY <1>2, <1>4, <2>1, <3>1 DEF Copy, RepositoryInv, TypeOK, FilesTyped
    <3>5. Found'
      BY <1>2, <1>3, <1>4, <2>1, <3>1, FoundKeeps DEF Copy
    <3>. QED BY <1>1, <1>4, <2>1, <3>1, <3>2, <3>3, <3>4, <3>5, WriterStep DEF Copy
  <2>2. CASE n < MaxEntries /\ at' = [at EXCEPT ![w] = "renaming"] /\ temp' = [temp EXCEPT ![w] = file[s]]
    <3>1. at'[w] = "renaming" /\ "renaming" \in Stages \ {"idle"} /\ temp'[w] = file[s]
      BY <1>2, <1>3, <2>2 DEF Stages, WriterStages
    <3>2. WriterKnows(w, s)'
      BY <1>3, <1>4, <2>2, <3>1 DEF Copy, WriterKnows, Creation, Deletion, Appending
    <3>3. SessionOK(s)'
      <4>1. Marked(s)' /\ Kept(s)' = Kept(s) /\ ~Ahead(s)' /\ ~Ahead(s)
        BY <1>2, <1>4, <3>1 DEF Copy, Marked, Kept, Ahead
      <4>. QED BY <1>2, <1>4, <4>1, SameSession DEF Copy
    <3>4. TypeOK' /\ FilesTyped'
      <4>1. temp' \in [Writer -> Seq(Nat)] /\ at' \in [Process -> Stages]
        BY <1>2, <1>3, <2>2, <3>1
      <4>. QED BY <1>4, <4>1 DEF Copy, RepositoryInv, TypeOK, FilesTyped
    <3>5. Found'
      BY <1>2, <1>3, <1>4, <2>2, <3>1, FoundKeeps DEF Copy
    <3>6. \A v \in Writer \ {w} : temp'[v] = temp[v]
      BY <1>3, <2>2
    <3>. QED BY <1>1, <1>4, <2>2, <3>1, <3>2, <3>3, <3>4, <3>5, <3>6, WriterStep DEF Copy
  <2>. QED BY <1>4, <2>1, <2>2 DEF Copy, Copied
<1>5. CASE Rename(w)
  <2>1. CASE at' = [at EXCEPT ![w] = "failed"] /\ UNCHANGED fileVars
    <3>1. at'[w] = "failed" /\ "failed" \in Stages \ {"idle"}
      BY <1>2, <1>3, <2>1 DEF Stages, Answers
    <3>2. WriterKnows(w, s)'
      BY <3>1 DEF WriterKnows, Creation, Deletion, Appending
    <3>3. SessionOK(s)'
      <4>1. Marked(s)' /\ Kept(s)' = Kept(s) /\ ~Ahead(s)' /\ ~Ahead(s)
        BY <1>2, <1>5, <3>1 DEF Rename, Marked, Kept, Ahead
      <4>. QED BY <1>2, <1>5, <2>1, <4>1, SameSession DEF Rename
    <3>4. TypeOK' /\ FilesTyped'
      BY <1>2, <1>5, <2>1, <3>1 DEF Rename, RepositoryInv, TypeOK, FilesTyped
    <3>5. Found'
      BY <1>2, <1>3, <1>5, <2>1, <3>1, FoundKeeps DEF Rename
    <3>. QED BY <1>1, <1>5, <2>1, <3>1, <3>2, <3>3, <3>4, <3>5, WriterStep DEF Rename
  <2>2. CASE Put(s, Append(temp[w], n + 1)) /\ at' = [at EXCEPT ![w] = "syncing append"]
    <3>. DEFINE g == Append(file[s], n + 1)
    <3>1. at'[w] = "syncing append" /\ "syncing append" \in Stages \ {"idle"}
      BY <1>2, <1>3, <2>2 DEF Stages, WriterStages
    <3>2. /\ temp[w] = file[s] /\ n < MaxEntries /\ Len(file[s]) <= n
          /\ s \notin removed => /\ Len(file[s]) = n /\ Intact(file[s]) /\ acked[s] <= n
                                 /\ \A f \in disk[s] : Intact(f)
      <4>1. at[w] = "renaming" /\ ~Ahead(s)
        BY <1>2, <1>5 DEF Rename
      <4>2. temp[w] = file[s] /\ n < MaxEntries
        BY <1>2, <4>1 DEF WriterKnows, Appending
      <4>3. Len(file[s]) <= n /\ (s \notin removed => Len(file[s]) = n)
        BY <1>2, <1>3, <4>1 DEF SessionOK, CacheAndFile
      <4>4. s \notin removed => /\ Intact(file[s]) /\ acked[s] <= Len(file[s])
                                /\ \A f \in disk[s] : Intact(f)
        BY <1>2 DEF SessionOK, Versions
      <4>. QED BY <4>2, <4>3, <4>4
    <3>3. /\ g \in Seq(Nat) /\ Len(g) = Len(file[s]) + 1 /\ Len(g) <= MaxEntries
          /\ s \notin removed => Intact(g)
      <4>1. n + 1 \in Nat /\ n \in Nat
        BY <1>3
      <4>2. g \in Seq(Nat) /\ Len(g) = Len(file[s]) + 1 /\ (Intact(file[s]) /\ n + 1 = Len(file[s]) + 1 => Intact(g))
        BY <1>2, <4>1, OneMoreEntry
      <4>. QED BY <1>2, <1>3, <3>2, <4>2
    <3>. HIDE DEF g
    <3>4. /\ FilesTyped'
          /\ \A k \in Session : Len(file'[k]) <= MaxEntries /\ file'[k] \in disk'[k]
          /\ file'[s] = g /\ disk'[s] = disk[s] \cup {g} /\ unsure' = unsure
          /\ \A k \in Session \ {s} : file'[k] = file[k] /\ disk'[k] = disk[k]
      <4>1. Put(s, g)
        BY <2>2, <3>2 DEF g
      <4>2. temp' = temp
        BY <1>5 DEF Rename
      <4>. QED BY <1>2, <3>3, <4>1, <4>2, PutKeeps
    <3>5. /\ sessions' = sessions /\ creating' = creating /\ deleting' = deleting /\ on' = on /\ lease' = lease
          /\ read' = read /\ removed' = removed /\ acked' = acked /\ was' = was /\ s' = s
      BY <1>5 DEF Rename
    <3>6. WriterKnows(w, s)'
      BY <1>3, <3>1, <3>2, <3>5 DEF WriterKnows, Creation, Deletion, Appending
    <3>7. SessionOK(s)'
      <4>1. Marked(s)' /\ Kept(s)' = n /\ Ahead(s)'
        BY <1>2, <3>1, <3>5 DEF Marked, Kept, Ahead
      <4>2. CacheAndFile(s)'
        <5>1. Len(file'[s]) <= n + 1 /\ (s \notin removed => Len(file'[s]) = n + 1)
          BY <1>2, <1>3, <3>2, <3>3, <3>4, SMTT(30)
        <5>. QED BY <3>5, <4>1, <5>1 DEF CacheAndFile
      <4>3. ReadAndFile(s)'
        <5>1. \A q \in Process : s \notin removed => read[q][s] <= Len(file'[s])
          <6>1. ReadAndFile(s)
            BY <1>2 DEF SessionOK
          <6>. QED BY <1>2, <1>3, <3>3, <3>4, <6>1 DEF ReadAndFile
        <5>. QED BY <1>3, <3>5, <4>1, <5>1 DEF ReadAndFile
      <4>4. Versions(s)'
        <5>1. SUFFICES ASSUME s \notin removed
                       PROVE  /\ \A f \in disk'[s] : Intact(f)
                              /\ acked[s] <= Len(file'[s])
                              /\ s \notin unsure => \A f \in disk'[s] : acked[s] <= Len(f)
          BY <3>4, <3>5 DEF Versions, Intact
        <5>2. \A f \in disk'[s] : Intact(f)
          BY <3>2, <3>3, <3>4, <5>1
        <5>3. acked[s] <= Len(g) /\ acked[s] \in Nat
          BY <1>2, <1>3, <3>2, <3>3, <5>1
        <5>4. s \notin unsure => \A f \in disk[s] : acked[s] <= Len(f)
          BY <1>2, <5>1 DEF SessionOK, Versions
        <5>. QED BY <3>4, <5>2, <5>3, <5>4
      <4>. QED BY <4>1, <4>2, <4>3, <4>4 DEF SessionOK
    <3>8. TypeOK'
      BY <1>2, <1>5, <2>2, <3>1, <3>4 DEF Rename, RepositoryInv, TypeOK
    <3>9. Found'
      BY <1>2, <1>3, <1>5, <2>2, <3>1, FoundKeeps DEF Rename
    <3>. QED BY <1>1, <1>5, <2>2, <3>1, <3>4, <3>6, <3>7, <3>8, <3>9, WriterStep DEF Rename
  <2>. QED BY <1>5, <2>1, <2>2 DEF Rename
<1>6. CASE PublishEntry(w)
  <2>1. /\ at' = [at EXCEPT ![w] = "acknowledged"] /\ at'[w] = "acknowledged"
        /\ "acknowledged" \in Stages \ {"idle"}
    BY <1>2, <1>3, <1>6 DEF PublishEntry, Stages, Answers
  <2>2. WriterKnows(w, s)'
    BY <2>1 DEF WriterKnows, Creation, Deletion, Appending
  <2>3. /\ at[w] = "publishing" /\ Len(file[s]) <= n + 1 /\ n < MaxEntries
        /\ s \notin removed => Len(file[s]) = n + 1 /\ \A f \in disk[s] : Intact(f)
        /\ s \notin unsure => disk[s] = {file[s]}
    BY <1>2, <1>3, <1>6 DEF PublishEntry, WriterKnows, Appending, SessionOK, CacheAndFile, Versions
  <2>4. /\ file' = file /\ disk' = disk /\ unsure' = unsure /\ creating' = creating /\ deleting' = deleting
        /\ on' = on /\ lease' = lease /\ read' = read /\ removed' = removed /\ was' = was /\ s' = s
        /\ sessions' = [sessions EXCEPT ![s] = n + 1] /\ acked' = [acked EXCEPT ![s] = n + 1]
    BY <1>2, <1>3, <1>6 DEF PublishEntry
  <2>5. /\ sessions'[s] = n + 1 /\ acked'[s] = n + 1 /\ n + 1 \in 0 .. MaxEntries
        /\ \A k \in Session \ {s} : sessions'[k] = sessions[k] /\ acked'[k] = acked[k]
        /\ sessions' \in [Session -> 0 .. MaxEntries] /\ acked' \in [Session -> 0 .. MaxEntries]
    <3>1. n + 1 \in 0 .. MaxEntries
      BY <1>3, <2>3
    <3>. QED BY <1>2, <1>3, <2>4, <3>1
  <2>6. SessionOK(s)'
    <3>1. Marked(s)' /\ Kept(s)' = n + 1 /\ ~Ahead(s)'
      BY <1>2, <2>1, <2>4, <2>5 DEF Marked, Kept, Ahead
    <3>2. CacheAndFile(s)'
      <4>1. Len(file'[s]) <= n + 1 /\ (s \notin removed' => Len(file'[s]) = n + 1)
        BY <2>3, <2>4
      <4>2. Kept(s)' + 0 = n + 1
        BY <1>3, <3>1
      <4>. QED BY <2>4, <3>1, <4>1, <4>2 DEF CacheAndFile
    <3>3. ReadAndFile(s)'
      <4>1. ReadAndFile(s) /\ n + 1 # 0
        BY <1>2, <1>3 DEF SessionOK
      <4>. QED BY <2>4, <3>1, <4>1 DEF ReadAndFile
    <3>4. Versions(s)'
      <4>1. s \notin unsure /\ s \notin removed => \A f \in disk[s] : n + 1 <= Len(f)
        BY <1>2, <1>3, <2>3
      <4>2. s \notin removed => n + 1 <= Len(file[s])
        BY <1>2, <1>3, <2>3
      <4>. QED BY <2>3, <2>4, <2>5, <4>1, <4>2 DEF Versions, Intact
    <3>. QED BY <3>1, <3>2, <3>3, <3>4 DEF SessionOK
  <2>7. TypeOK' /\ FilesTyped'
    <3>1. at' \in [Process -> Stages]
      BY <1>3, <2>1
    <3>. QED BY <1>6, <2>5, <3>1 DEF PublishEntry, RepositoryInv, TypeOK, FilesTyped
  <2>8. Found'
    <3>1. \A q \in Process \ {w} : at'[q] = at[q]
      BY <1>3, <2>1
    <3>2. \A k \in Session : /\ sessions[k] # 0 => sessions'[k] # 0
                             /\ acked[k] > 0 => acked'[k] > 0
      <4>1. n + 1 # 0 /\ n + 1 > 0
        BY <1>3
      <4>. QED BY <2>5, <4>1
    <3>. QED BY <1>2, <1>6, <2>1, <3>1, <3>2, FoundKeeps DEF PublishEntry
  <2>. QED BY <1>1, <1>6, <2>1, <2>2, <2>5, <2>6, <2>7, <2>8, WriterStep DEF PublishEntry
<1>. QED BY <1>4, <1>5, <1>6

\* What is read of a session, and what a crash may leave of it, is typed.
LEMMA SessionTyped ==
  ASSUME RepositoryInv, NEW s \in Session
  PROVE  /\ \A q \in Process : read[q][s] \in Nat
         /\ \A f \in disk[s] : f \in Seq(Nat) /\ Len(f) \in Nat
         /\ acked[s] \in Nat /\ sessions[s] \in Nat /\ Len(file[s]) \in Nat
<1>1. /\ read \in [Process -> [Session -> 0 .. MaxEntries]]
      /\ acked[s] \in 0 .. MaxEntries /\ sessions[s] \in 0 .. MaxEntries
  BY DEF RepositoryInv, TypeOK
<1>2. disk[s] \subseteq Seq(Nat) /\ file[s] \in Seq(Nat)
  BY DEF RepositoryInv, FilesTyped
<1>3. 0 .. MaxEntries \subseteq Nat
  BY RepositoryAssumption
<1>. QED BY <1>1, <1>2, <1>3

\* Delete.
LEMMA DeletionKeeps ==
  ASSUME RepositoryInv, NEW w \in Writer,
         MarkDeletion(w) \/ Remove(w) \/ EndDeletion(w) \/ Restore(w)
  PROVE  RepositoryInv'
<1>. DEFINE s == on[w]
<1>. USE DEF Goto, cacheVars, fileVars, localVars, ghostVars
<1>1. at[w] \in {"marking deletion", "removing", "ending deletion", "restoring"} /\ at[w] # "idle"
  BY DEF MarkDeletion, Remove, EndDeletion, Restore
<1>2. /\ s \in Session /\ lease[s] = w /\ w \in Process /\ w \notin Reader
      /\ SessionOK(s) /\ WriterKnows(w, s)
      /\ s \notin creating /\ (s \in deleting <=> at[w] # "marking deletion")
      /\ s \in deleting => sessions[s] = 0 /\ Kept(s) = was[w]
      /\ s \notin deleting => Kept(s) = sessions[s]
      /\ ~Ahead(s)
      /\ file[s] \in Seq(Nat) /\ file[s] \in disk[s] /\ sessions[s] \in 0 .. MaxEntries
      /\ Len(file[s]) \in 0 .. MaxEntries
  BY <1>1, Own DEF Deletion, Creation, Kept, WriterKnows
<1>3. /\ at \in [Process -> Stages] /\ sessions \in [Session -> 0 .. MaxEntries]
      /\ acked \in [Session -> 0 .. MaxEntries] /\ MaxEntries \in Nat \ {0}
      /\ was \in [Writer -> 0 .. MaxEntries] /\ since \in [Process -> SUBSET Session]
      /\ deleting \subseteq Session /\ removed \subseteq Session /\ gone \subseteq Session
  BY RepositoryAssumption DEF RepositoryInv, TypeOK
<1>4. CASE MarkDeletion(w)
  <2>1. CASE at' = [at EXCEPT ![w] = "failed"] /\ UNCHANGED <<sessions, deleting, was, since>>
    <3>1. at'[w] = "failed" /\ "failed" \in Stages \ {"idle"}
      BY <1>2, <1>3, <2>1 DEF Stages, Answers
    <3>2. WriterKnows(w, s)'
      BY <3>1 DEF WriterKnows, Creation, Deletion, Appending
    <3>3. SessionOK(s)'
      <4>1. Marked(s)' /\ Kept(s)' = Kept(s) /\ ~Ahead(s)'
        BY <1>2, <1>4, <2>1, <3>1 DEF MarkDeletion, Marked, Kept, Ahead
      <4>. QED BY <1>2, <1>4, <4>1, SameSession DEF MarkDeletion
    <3>4. TypeOK' /\ FilesTyped'
      BY <1>2, <1>4, <2>1, <3>1 DEF MarkDeletion, RepositoryInv, TypeOK, FilesTyped
    <3>5. Found'
      BY <1>2, <1>3, <1>4, <2>1, <3>1, FoundKeeps DEF MarkDeletion
    <3>. QED BY <1>1, <1>4, <2>1, <3>1, <3>2, <3>3, <3>4, <3>5, WriterStep DEF MarkDeletion
  <2>2. CASE /\ at' = [at EXCEPT ![w] = "removing"]
             /\ was' = [was EXCEPT ![w] = sessions[s]]
             /\ deleting' = deleting \cup {s}
             /\ sessions' = [sessions EXCEPT ![s] = 0]
             /\ since' = [p \in Process |-> since[p] \ {s}]
    <3>1. at'[w] = "removing" /\ "removing" \in Stages \ {"idle"}
      BY <1>2, <1>3, <2>2 DEF Stages, WriterStages
    <3>2. /\ was'[w] = sessions[s] /\ sessions'[s] = 0 /\ s \in deleting' /\ s \notin deleting
          /\ was' \in [Writer -> 0 .. MaxEntries] /\ sessions' \in [Session -> 0 .. MaxEntries]
          /\ since' \in [Process -> SUBSET Session] /\ deleting' \subseteq Session
          /\ \A k \in Session \ {s} : sessions'[k] = sessions[k] /\ (k \in deleting' <=> k \in deleting)
          /\ \A v \in Writer \ {w} : was'[v] = was[v]
      <4>1. 0 \in 0 .. MaxEntries
        BY <1>3
      <4>2. s \notin deleting
        BY <1>2, <1>4 DEF MarkDeletion
      <4>. QED BY <1>2, <1>3, <2>2, <4>1, <4>2
    <3>3. /\ file' = file /\ disk' = disk /\ unsure' = unsure /\ creating' = creating
          /\ on' = on /\ lease' = lease /\ read' = read /\ removed' = removed /\ acked' = acked
          /\ todo' = todo /\ result' = result /\ temp' = temp /\ gone' = gone /\ crashes' = crashes /\ s' = s
      BY <1>2, <1>4 DEF MarkDeletion
    <3>4. WriterKnows(w, s)'
      BY <3>1, <3>2, <3>3 DEF WriterKnows, Creation, Deletion, Appending
    <3>5. SessionOK(s)'
      <4>1. Marked(s)' /\ Kept(s)' = Kept(s) /\ ~Ahead(s)'
        BY <1>2, <3>1, <3>2, <3>3 DEF Marked, Kept, Ahead, Deletion
      <4>. QED BY <1>2, <3>3, <4>1, SameSession
    <3>6. TypeOK' /\ FilesTyped'
      <4>1. at' \in [Process -> Stages]
        BY <1>3, <2>2, <3>1
      <4>. QED BY <3>2, <3>3, <4>1 DEF RepositoryInv, TypeOK, FilesTyped
    <3>7. Found'
      <4>1. \A q \in Process : /\ since'[q] \subseteq since[q] /\ s \notin since'[q] /\ since[q] \subseteq Session
                               /\ q # w => at'[q] = at[q]
        BY <1>3, <2>2
      <4>2. \A q \in Process : at'[q] = "inserting" => read'[q][on'[q]] # 0
        BY <3>1, <3>3, <4>1 DEF RepositoryInv, Found
      <4>3. \A q \in Process : \A k \in since'[q] : k \notin removed' \cup deleting' /\ acked'[k] > 0
        BY <3>2, <3>3, <4>1 DEF RepositoryInv, Found
      <4>4. \A q \in Process : at'[q] \in {"listing", "scanning"} =>
              \A k \in since'[q] :
                sessions'[k] # 0 \/ k \in todo'[q] \/ (at'[q] = "scanning" /\ read'[q][k] # 0)
        <5>. SUFFICES ASSUME NEW q \in Process, at'[q] \in {"listing", "scanning"}, NEW k \in since'[q]
                      PROVE  sessions'[k] # 0 \/ k \in todo'[q] \/ (at'[q] = "scanning" /\ read'[q][k] # 0)
          OBVIOUS
        <5>1. q # w /\ at'[q] = at[q] /\ k \in since[q] /\ k \in Session \ {s}
          BY <3>1, <4>1
        <5>2. sessions[k] # 0 \/ k \in todo[q] \/ (at[q] = "scanning" /\ read[q][k] # 0)
          BY <5>1 DEF RepositoryInv, Found
        <5>. QED BY <3>2, <3>3, <5>1, <5>2
      <4>5. ReadsFind'
        <5>1. \A q \in Reader : q # w /\ q \in Process
          BY <1>2 DEF Process
        <5>. QED BY <3>3, <4>1, <5>1 DEF ReadsFind, RepositoryInv, Found
      <4>. QED BY <4>2, <4>3, <4>4, <4>5 DEF Found
    <3>. QED BY <1>1, <2>2, <3>1, <3>2, <3>3, <3>4, <3>5, <3>6, <3>7, WriterStep
  <2>. QED BY <1>4, <2>1, <2>2 DEF MarkDeletion
<1>5. CASE Restore(w)
  <2>1. /\ at' = [at EXCEPT ![w] = "failed"] /\ at'[w] = "failed" /\ "failed" \in Stages \ {"idle"}
    BY <1>2, <1>3, <1>5 DEF Restore, Stages, Answers
  <2>2. /\ file' = file /\ disk' = disk /\ unsure' = unsure /\ creating' = creating
        /\ on' = on /\ lease' = lease /\ read' = read /\ removed' = removed /\ acked' = acked
        /\ todo' = todo /\ result' = result /\ temp' = temp /\ gone' = gone /\ crashes' = crashes /\ s' = s
        /\ was' = was /\ since' = since
        /\ deleting' = deleting \ {s} /\ sessions' = [sessions EXCEPT ![s] = was[w]]
        /\ s \in deleting /\ sessions[s] = 0
    BY <1>2, <1>5 DEF Restore
  <2>3. /\ sessions'[s] = was[w] /\ sessions' \in [Session -> 0 .. MaxEntries]
        /\ \A k \in Session \ {s} : sessions'[k] = sessions[k] /\ (k \in deleting' <=> k \in deleting)
        /\ deleting' \subseteq Session
    BY <1>2, <1>3, <2>2
  <2>4. WriterKnows(w, s)'
    BY <2>1 DEF WriterKnows, Creation, Deletion, Appending
  <2>5. SessionOK(s)'
    <3>1. Marked(s)' /\ Kept(s)' = Kept(s) /\ ~Ahead(s)'
      BY <1>2, <2>1, <2>2, <2>3 DEF Marked, Kept, Ahead
    <3>. QED BY <1>2, <2>2, <3>1, SameSession
  <2>6. TypeOK' /\ FilesTyped'
    <3>1. at' \in [Process -> Stages]
      BY <1>3, <2>1
    <3>. QED BY <2>2, <2>3, <3>1 DEF RepositoryInv, TypeOK, FilesTyped
  <2>7. Found'
    <3>1. \A q \in Process \ {w} : at'[q] = at[q]
      BY <1>3, <2>1
    <3>2. \A k \in Session \ (removed \cup deleting) : sessions[k] # 0 => sessions'[k] # 0
      BY <2>2, <2>3
    <3>. QED BY <1>2, <2>1, <2>2, <3>1, <3>2, FoundKeeps
  <2>. QED BY <1>1, <2>1, <2>2, <2>3, <2>4, <2>5, <2>6, <2>7, WriterStep
<1>6. CASE EndDeletion(w)
  <2>1. PICK st \in {"acknowledged", "missing"} :
          /\ at' = [at EXCEPT ![w] = st]
          /\ st = "acknowledged" => gone' = gone \cup {s} /\ acked' = [acked EXCEPT ![s] = 0]
          /\ st = "missing" => gone' = gone /\ acked' = acked
    BY <1>6 DEF EndDeletion
  <2>2. /\ file' = file /\ disk' = disk /\ unsure' = unsure /\ creating' = creating
        /\ on' = on /\ lease' = lease /\ read' = read /\ removed' = removed /\ sessions' = sessions
        /\ todo' = todo /\ result' = result /\ temp' = temp /\ crashes' = crashes /\ s' = s
        /\ was' = was /\ since' = since /\ deleting' = deleting \ {s}
        /\ s \in deleting /\ sessions[s] = 0 /\ file[s] = <<>>
    BY <1>2, <1>6 DEF EndDeletion, WriterKnows
  <2>3. at'[w] = st /\ st \in Stages \ {"idle"}
    BY <1>2, <1>3, <2>1 DEF Stages, Answers
  <2>4. /\ acked' \in [Session -> 0 .. MaxEntries] /\ acked'[s] \in {0, acked[s]}
        /\ \A k \in Session \ {s} : acked'[k] = acked[k] /\ (k \in deleting' <=> k \in deleting)
        /\ deleting' \subseteq Session /\ gone' \subseteq Session
    <3>1. 0 \in 0 .. MaxEntries
      BY <1>3
    <3>2. CASE st = "acknowledged"
      BY <1>2, <1>3, <2>1, <2>2, <3>1, <3>2
    <3>3. CASE st = "missing"
      BY <1>2, <1>3, <2>1, <2>2, <3>3
    <3>. QED BY <3>2, <3>3
  <2>5. WriterKnows(w, s)'
    BY <2>3 DEF WriterKnows, Creation, Deletion, Appending
  <2>6. SessionOK(s)'
    <3>1. Marked(s)' /\ Kept(s)' = 0 /\ ~Ahead(s)'
      BY <1>2, <2>2, <2>3 DEF Marked, Kept, Ahead
    <3>2. CacheAndFile(s)'
      BY <3>1 DEF CacheAndFile
    <3>3. ReadAndFile(s)'
      <4>1. \A q \in Process : s \notin removed => read[q][s] <= Len(file[s])
        BY <1>2 DEF SessionOK, ReadAndFile
      <4>2. \A q \in Process : Len(file[s]) <= read[q][s]
        <5>1. \A q \in Process : read[q][s] \in Nat
          BY <1>2, SessionTyped
        <5>2. Len(file[s]) = 0
          BY <2>2
        <5>. QED BY <5>1, <5>2
      <4>. QED BY <2>2, <4>1, <4>2 DEF ReadAndFile
    <3>4. Versions(s)'
      <4>1. Versions(s) /\ Len(file[s]) = 0 /\ \A f \in disk[s] : Len(f) \in Nat
        <5>1. \A f \in disk[s] : Len(f) \in Nat
          BY <1>2, SessionTyped
        <5>2. Len(file[s]) = 0
          BY <2>2
        <5>. QED BY <1>2, <5>1, <5>2 DEF SessionOK
      <4>2. CASE acked'[s] = acked[s]
        BY <2>2, <4>1, <4>2 DEF Versions, Intact
      <4>3. CASE acked'[s] = 0
        BY <2>2, <4>1, <4>3 DEF Versions, Intact
      <4>. QED BY <2>4, <4>2, <4>3
    <3>. QED BY <3>1, <3>2, <3>3, <3>4 DEF SessionOK
  <2>7. TypeOK' /\ FilesTyped'
    <3>1. at' \in [Process -> Stages]
      BY <1>3, <2>1, <2>3
    <3>. QED BY <2>2, <2>4, <3>1 DEF RepositoryInv, TypeOK, FilesTyped
  <2>8. Found'
    <3>1. \A q \in Process \ {w} : at'[q] = at[q]
      BY <1>3, <2>1
    <3>2. \A k \in Session \ (removed \cup deleting) : acked[k] > 0 => acked'[k] > 0
      BY <2>2, <2>4
    <3>. QED BY <1>2, <2>2, <2>3, <3>1, <3>2, FoundKeeps
  <2>. QED BY <1>1, <2>1, <2>2, <2>3, <2>4, <2>5, <2>6, <2>7, <2>8, WriterStep
<1>7. CASE Remove(w)
  <2>1. /\ creating' = creating /\ deleting' = deleting /\ sessions' = sessions
        /\ on' = on /\ lease' = lease /\ read' = read /\ acked' = acked
        /\ todo' = todo /\ result' = result /\ temp' = temp /\ crashes' = crashes /\ s' = s
        /\ was' = was /\ since' = since /\ gone' = gone
        /\ s \in deleting /\ sessions[s] = 0
    BY <1>2, <1>7 DEF Remove
  <2>2. ASSUME NEW st \in {"restoring", "ending deletion"}, at' = [at EXCEPT ![w] = st],
               UNCHANGED <<fileVars, removed>>, st = "ending deletion" => file[s] = <<>>
        PROVE  RepositoryInv'
    <3>1. at'[w] = st /\ st \in Stages \ {"idle"} /\ at' \in [Process -> Stages]
      BY <1>2, <1>3, <2>2 DEF Stages, WriterStages
    <3>2. WriterKnows(w, s)'
      BY <2>1, <2>2, <3>1 DEF WriterKnows, Creation, Deletion, Appending
    <3>3. SessionOK(s)'
      <4>1. Marked(s)' /\ Kept(s)' = Kept(s) /\ ~Ahead(s)'
        BY <1>2, <2>1, <2>2, <3>1 DEF Marked, Kept, Ahead, Deletion
      <4>. QED BY <1>2, <2>1, <2>2, <4>1, SameSession
    <3>4. TypeOK' /\ FilesTyped'
      BY <2>1, <2>2, <3>1 DEF RepositoryInv, TypeOK, FilesTyped
    <3>5. Found'
      BY <1>2, <1>3, <2>1, <2>2, <3>1, FoundKeeps
    <3>. QED BY <1>1, <2>1, <2>2, <3>1, <3>2, <3>3, <3>4, <3>5, WriterStep
  <2>3. CASE /\ at' = [at EXCEPT ![w] = "syncing deletion"]
             /\ Put(s, <<>>) /\ removed' = removed \cup {s}
    <3>1. at'[w] = "syncing deletion" /\ "syncing deletion" \in Stages \ {"idle"} /\ at' \in [Process -> Stages]
      BY <1>2, <1>3, <2>3 DEF Stages, WriterStages
    <3>2. /\ FilesTyped'
          /\ \A k \in Session : Len(file'[k]) <= MaxEntries /\ file'[k] \in disk'[k]
          /\ file'[s] = <<>> /\ disk'[s] = disk[s] \cup {<<>>} /\ unsure' = unsure
          /\ \A k \in Session \ {s} : file'[k] = file[k] /\ disk'[k] = disk[k]
      <4>1. <<>> \in Seq(Nat) /\ Len(<<>>) <= MaxEntries
        BY <1>3
      <4>. QED BY <1>2, <2>1, <2>3, <4>1, PutKeeps
    <3>3. WriterKnows(w, s)'
      BY <2>1, <3>1, <3>2 DEF WriterKnows, Creation, Deletion, Appending
    <3>4. SessionOK(s)'
      <4>1. Marked(s)' /\ Kept(s)' = was[w] /\ ~Ahead(s)'
        BY <1>2, <2>1, <3>1 DEF Marked, Kept, Ahead, Deletion
      <4>2. was[w] \in Nat /\ Len(file'[s]) = 0 /\ s \in removed' /\ \A q \in Process : read[q][s] \in Nat
        <5>1. \A q \in Process : read[q][s] \in Nat
          BY <1>2, SessionTyped
        <5>2. Len(file'[s]) = 0 /\ s \in removed'
          BY <2>3, <3>2
        <5>3. was[w] \in Nat
          BY <1>3
        <5>. QED BY <5>1, <5>2, <5>3
      <4>3. CacheAndFile(s)'
        BY <2>1, <4>1, <4>2 DEF CacheAndFile
      <4>4. ReadAndFile(s)' /\ Versions(s)'
        BY <2>1, <4>1, <4>2 DEF ReadAndFile, Versions
      <4>. QED BY <4>1, <4>3, <4>4 DEF SessionOK
    <3>5. TypeOK'
      <4>1. removed' \subseteq Session
        BY <1>2, <1>3, <2>3
      <4>. QED BY <2>1, <3>1, <3>2, <4>1 DEF RepositoryInv, TypeOK
    <3>6. Found'
      <4>1. \A k \in Session : k \in removed' \cup deleting' => k \in removed \cup deleting
        BY <2>1, <2>3
      <4>. QED BY <1>2, <1>3, <2>1, <2>3, <3>1, <4>1, FoundKeeps
    <3>7. \A k \in Session \ {s} : k \in removed' <=> k \in removed
      BY <2>3
    <3>. QED BY <1>1, <2>1, <2>3, <3>1, <3>2, <3>3, <3>4, <3>5, <3>6, <3>7, WriterStep
  <2>. QED BY <1>7, <2>2, <2>3 DEF Remove
<1>. QED BY <1>4, <1>5, <1>6, <1>7

\* The directory is synced, or not for certain.
LEMMA SyncKeeps ==
  ASSUME RepositoryInv, NEW w \in Writer, Sync(w)
  PROVE  RepositoryInv'
<1>. DEFINE s == on[w]
<1>1. PICK st \in {"ending creation", "publishing", "ending deletion"} :
        /\ at' = [at EXCEPT ![w] = st]
        /\ st = "ending creation" => at[w] = "syncing creation"
        /\ st = "publishing" => at[w] = "syncing append"
        /\ st = "ending deletion" => at[w] = "syncing deletion"
  BY DEF Sync, Goto
<1>2. /\ at[w] # "idle" /\ at' = [at EXCEPT ![w] = st] /\ at \in [Process -> Stages]
      /\ st \in Stages \ {"idle"}
  BY <1>1 DEF RepositoryInv, TypeOK, Stages, WriterStages
<1>3. /\ s \in Session /\ lease[s] = w /\ w \in Process /\ w \notin Reader
      /\ SessionOK(s) /\ WriterKnows(w, s) /\ (Ahead(s) <=> at[w] = "syncing append")
      /\ file[s] \in disk[s] /\ at'[w] = st /\ at' \in [Process -> Stages]
  <2>1. /\ s \in Session /\ lease[s] = w /\ w \in Process /\ w \notin Reader
        /\ SessionOK(s) /\ WriterKnows(w, s) /\ file[s] \in disk[s]
        /\ Ahead(s) <=> at[w] \in {"syncing append", "publishing"}
    BY <1>2, Own
  <2>. QED BY <1>1, <1>2, <2>1
<1>4. /\ creating' = creating /\ deleting' = deleting /\ sessions' = sessions
      /\ on' = on /\ lease' = lease /\ read' = read /\ acked' = acked
      /\ todo' = todo /\ result' = result /\ temp' = temp /\ crashes' = crashes /\ s' = s
      /\ was' = was /\ since' = since /\ gone' = gone /\ removed' = removed /\ file' = file
  BY DEF Sync, SyncDirectory, cacheVars, localVars, ghostVars
<1>5. \/ disk' = [k \in Session |-> {file[k]}] /\ unsure' = {}
      \/ disk' = disk /\ unsure' = unsure \cup {s}
  BY DEF Sync, SyncDirectory
<1>6. /\ file \in [Session -> Seq(Nat)] /\ disk \in [Session -> SUBSET Seq(Nat)]
      /\ \A k \in Session : Len(file[k]) <= MaxEntries /\ file[k] \in disk[k]
      /\ \A k \in Session : \A f \in disk[k] : Len(f) <= MaxEntries
      /\ unsure \subseteq Session
  BY DEF RepositoryInv, TypeOK, FilesTyped
<1>7. /\ \A k \in Session : \/ disk'[k] = {file[k]}
                            \/ disk'[k] = disk[k] /\ (k # s => (k \in unsure' <=> k \in unsure))
      /\ s \notin unsure' => disk'[s] = {file[s]}
      /\ unsure' \subseteq Session /\ disk' \in [Session -> SUBSET Seq(Nat)]
      /\ \A k \in Session : disk'[k] \subseteq disk[k] /\ file[k] \in disk'[k]
  <2>1. CASE disk' = [k \in Session |-> {file[k]}] /\ unsure' = {}
    BY <1>3, <1>6, <2>1
  <2>2. CASE disk' = disk /\ unsure' = unsure \cup {s}
    BY <1>3, <1>6, <2>2
  <2>. QED BY <1>5, <2>1, <2>2
<1>8. TypeOK' /\ FilesTyped'
  BY <1>3, <1>4, <1>6, <1>7 DEF RepositoryInv, TypeOK, FilesTyped
<1>9. WriterKnows(w, s)'
  BY <1>1, <1>3, <1>4, <1>7 DEF WriterKnows, Creation, Deletion, Appending
<1>10. SessionOK(s)'
  <2>1. Marked(s)' /\ Kept(s)' = Kept(s) /\ (Ahead(s)' <=> Ahead(s))
    BY <1>1, <1>3, <1>4 DEF SessionOK, Marked, Kept, Ahead, Creation, Deletion
  <2>2. CacheAndFile(s)' /\ ReadAndFile(s)'
    BY <1>3, <1>4, <2>1 DEF SessionOK, CacheAndFile, ReadAndFile
  <2>3. Versions(s)'
    <3>1. Versions(s) /\ disk'[s] \subseteq disk[s] /\ (s \notin unsure' => disk'[s] = {file[s]})
      BY <1>3, <1>7 DEF SessionOK
    <3>. QED BY <1>4, <3>1 DEF Versions, Intact
  <2>. QED BY <2>1, <2>2, <2>3 DEF SessionOK
<1>11. Found'
  BY <1>2, <1>3, <1>4, FoundKeeps
<1>. QED BY <1>2, <1>4, <1>7, <1>8, <1>9, <1>10, <1>11, WriterStep

\* The machine stops and the server starts again.
LEMMA CrashKeeps ==
  ASSUME RepositoryInv, Crash
  PROVE  RepositoryInv'
<1>1. /\ at' = [p \in Process |-> "idle"] /\ lease' = [s \in Session |-> Nobody]
      /\ sessions' = [s \in Session |-> 0] /\ creating' = {} /\ deleting' = {} /\ unsure' = {}
      /\ read' = [p \in Process |-> [s \in Session |-> 0]]
      /\ since' = [p \in Process |-> {}] /\ removed' = removed
      /\ temp' = [w \in Writer |-> <<>>]
      /\ disk' = [s \in Session |-> {file'[s]}]
      /\ acked' = [s \in Session |-> IF s \in unsure THEN Len(file'[s]) ELSE acked[s]]
      /\ \A s \in Session : file'[s] \in disk[s]
  BY DEF Crash, NothingRead
<1>2. \A s \in Session : file'[s] \in Seq(Nat) /\ Len(file'[s]) \in 0 .. MaxEntries
  BY <1>1 DEF RepositoryInv, FilesTyped
<1>3. FilesTyped'
  <2>1. file' \in [Session -> Seq(Nat)]
    <3>1. file' \in [Session -> UNION {disk[s] : s \in Session}]
      BY DEF Crash
    <3>. QED BY <1>2, <3>1
  <2>. QED BY <1>1, <1>2, <2>1 DEF FilesTyped
<1>4. TypeOK'
  <2>1. acked' \in [Session -> 0 .. MaxEntries]
    <3>1. acked \in [Session -> 0 .. MaxEntries]
      BY DEF RepositoryInv, TypeOK
    <3>. QED BY <1>1, <1>2, <3>1
  <2>2. crashes' \in 0 .. MaxCrashes
    BY RepositoryAssumption DEF Crash, RepositoryInv, TypeOK
  <2>3. /\ sessions' \in [Session -> 0 .. MaxEntries] /\ lease' \in [Session -> Writer \cup {Nobody}]
        /\ read' \in [Process -> [Session -> 0 .. MaxEntries]] /\ was' \in [Writer -> 0 .. MaxEntries]
    <3>1. 0 \in 0 .. MaxEntries
      BY RepositoryAssumption
    <3>. QED BY <1>1, <3>1 DEF Crash
  <2>4. /\ at' \in [Process -> Stages] /\ todo' \in [Process -> SUBSET Session]
        /\ result' \in [Process -> SUBSET Session] /\ since' \in [Process -> SUBSET Session]
    BY <1>1 DEF Crash, Stages
  <2>5. \A s \in Session : Len(file'[s]) <= MaxEntries /\ file'[s] \in disk'[s]
    BY <1>1, <1>2
  <2>6. /\ creating' \subseteq Session /\ deleting' \subseteq Session /\ unsure' \subseteq Session
        /\ removed' \subseteq Session /\ gone' \subseteq Session /\ on' \in [Process -> Session]
    BY <1>1 DEF Crash, RepositoryInv, TypeOK
  <2>. QED BY <2>1, <2>2, <2>3, <2>4, <2>5, <2>6 DEF TypeOK
<1>5. Leases' /\ Stagewise'
  <2>1. \A p \in Process : at'[p] = "idle"
    BY <1>1
  <2>2. \A s \in Session : lease'[s] \notin Writer
    BY <1>1, RepositoryAssumption
  <2>. QED BY <2>1, <2>2
    DEF Leases, Stagewise, WriterKnows, WriterStages, Creation, Deletion, Appending, Process
<1>6. ASSUME NEW s \in Session PROVE SessionOK(s)'
  <2>1. Kept(s)' = 0 /\ Marked(s)'
    BY <1>1 DEF Kept, Marked
  <2>2. CacheAndFile(s)' /\ ReadAndFile(s)'
    BY <1>1, <1>2, <2>1 DEF CacheAndFile, ReadAndFile
  <2>3. Versions(s)'
    <3>1. SUFFICES ASSUME s \notin removed PROVE Intact(file'[s]) /\ acked'[s] <= Len(file'[s])
      BY <1>1 DEF Versions, Intact
    <3>2. Versions(s) /\ file'[s] \in disk[s]
      BY <1>1 DEF RepositoryInv, SessionOK
    <3>3. acked'[s] = IF s \in unsure THEN Len(file'[s]) ELSE acked[s]
      BY <1>1
    <3>. QED BY <1>2, <3>1, <3>2, <3>3 DEF Versions
  <2>. QED BY <2>1, <2>2, <2>3 DEF SessionOK
<1>7. Found'
  BY <1>1 DEF Found, ReadsFind, Process
<1>. QED BY <1>3, <1>4, <1>5, <1>6, <1>7 DEF RepositoryInv

-----------------------------------------------------------------------------
\* What the invariant says of the storage and of the cache.
LEMMA InvGives ==
  ASSUME RepositoryInv
  PROVE  Durable /\ CacheServesReads
<1>1. \A s \in Session : /\ SessionOK(s) /\ file[s] \in Seq(Nat) /\ file[s] \in disk[s]
                         /\ acked[s] \in Nat /\ sessions[s] \in Nat
                         /\ \A f \in disk[s] : Len(f) \in Nat
  BY RepositoryAssumption DEF RepositoryInv, TypeOK, FilesTyped
<1>2. Durable
  <2>. SUFFICES ASSUME NEW s \in Session, s \notin removed, s \notin unsure, NEW f \in disk[s]
                PROVE  Intact(f) /\ Len(f) >= acked[s]
    BY DEF Durable
  <2>. QED BY <1>1 DEF SessionOK, Versions
<1>3. CacheMatchesFile
  <2>. SUFFICES ASSUME NEW s \in Session, sessions[s] # 0, s \notin removed
                PROVE  /\ Intact(file[s])
                       /\ \/ Len(file[s]) = sessions[s]
                          \/ /\ Len(file[s]) = sessions[s] + 1
                             /\ \E w \in Writer : on[w] = s /\ at[w] \in {"syncing append", "publishing"}
    BY DEF CacheMatchesFile
  <2>1. Intact(file[s])
    BY <1>1 DEF SessionOK, Versions
  <2>2. Kept(s) = sessions[s]
    BY <1>1 DEF SessionOK, Marked, Kept
  <2>3. CASE Ahead(s)
    <3>1. lease[s] \in Writer /\ on[lease[s]] = s /\ at[lease[s]] \in {"syncing append", "publishing"}
      BY <2>3 DEF Ahead, RepositoryInv, Leases
    <3>2. Len(file[s]) = sessions[s] + 1
      BY <1>1, <2>2, <2>3 DEF SessionOK, CacheAndFile
    <3>. QED BY <2>1, <3>1, <3>2
  <2>4. CASE ~Ahead(s)
    <3>1. Len(file[s]) = sessions[s]
      BY <1>1, <2>2, <2>4 DEF SessionOK, CacheAndFile
    <3>. QED BY <2>1, <3>1
  <2>. QED BY <2>3, <2>4
<1>. QED BY <1>2, <1>3 DEF RepositoryInv, Found, CacheServesReads

LEMMA Stepwise ==
  ASSUME RepositoryInv, [Next]_vars
  PROVE  RepositoryInv'
<1>1. ASSUME NEW p \in Process, Read(p) PROVE RepositoryInv'
  BY <1>1, ReadStepsKeep, InsertKeeps, ReturnKeeps DEF Read
<1>2. ASSUME NEW w \in Writer, Write(w) PROVE RepositoryInv'
  BY <1>2, CreationKeeps, AppendKeeps, DeletionKeeps, SyncKeeps DEF Write
<1>3. ASSUME NEW p \in Reader, NEW s \in Session, BeginGet(p, s) PROVE RepositoryInv'
  <2>1. p \in Process /\ todo \in [Process -> SUBSET Session]
    BY DEF Process, RepositoryInv, TypeOK
  <2>. QED BY <1>3, <2>1, BeginKeeps DEF BeginGet, localVars
<1>4. ASSUME NEW p \in Reader, BeginList(p) PROVE RepositoryInv'
  <2>1. p \in Process /\ todo \in [Process -> SUBSET Session] /\ on[p] \in Session
    BY DEF Process, RepositoryInv, TypeOK
  <2>2. /\ todo' = [todo EXCEPT ![p] = {s \in Session : sessions[s] = 0} \ (creating \cup deleting)]
        /\ Begin(p, on[p], "listing") /\ lease' = lease
        /\ UNCHANGED <<cacheVars, fileVars, read, result, temp, was, acked, removed, gone, crashes>>
    BY <1>4 DEF BeginList
  <2>3. /\ todo' \in [Process -> SUBSET Session] /\ \A q \in Process \ {p} : todo'[q] = todo[q]
        /\ \A k \in Session \ (creating \cup deleting) : sessions[k] # 0 \/ k \in todo'[p]
    BY <2>1, <2>2
  <2>. QED BY <2>1, <2>2, <2>3, BeginKeeps
<1>5. ASSUME NEW w \in Writer, NEW s \in Session,
             BeginCreate(w, s) \/ BeginAppend(w, s) \/ BeginDelete(w, s)
      PROVE  RepositoryInv'
  <2>1. w \in Process /\ todo \in [Process -> SUBSET Session]
    BY DEF Process, RepositoryInv, TypeOK
  <2>2. CASE BeginCreate(w, s)
    BY <2>1, <2>2, BeginKeeps DEF BeginCreate, localVars
  <2>3. CASE BeginAppend(w, s)
    BY <2>1, <2>3, BeginKeeps DEF BeginAppend, localVars
  <2>4. CASE BeginDelete(w, s)
    BY <2>1, <2>4, BeginKeeps DEF BeginDelete, localVars
  <2>. QED BY <1>5, <2>2, <2>3, <2>4
<1>6. CASE UNCHANGED vars
  <2>. USE <1>6 DEF vars, cacheVars, fileVars, localVars, ghostVars
  <2>1. TypeOK' /\ FilesTyped' /\ Leases'
    BY DEF RepositoryInv, TypeOK, FilesTyped, Leases
  <2>2. Stagewise'
    BY DEF RepositoryInv, Stagewise, WriterKnows
  <2>3. ASSUME NEW s \in Session PROVE SessionOK(s)'
    <3>1. SessionOK(s)
      BY DEF RepositoryInv
    <3>2. Marked(s)' /\ Kept(s)' = Kept(s) /\ (Ahead(s)' <=> Ahead(s))
      BY <3>1 DEF SessionOK, Marked, Kept, Ahead
    <3>. QED BY <3>2, SameSession
  <2>4. Found'
    BY DEF RepositoryInv, Found, ReadsFind
  <2>. QED BY <2>1, <2>2, <2>3, <2>4 DEF RepositoryInv
<1>. QED BY <1>1, <1>2, <1>3, <1>4, <1>5, <1>6, CrashKeeps DEF Next

\* The inductive invariant: the steps of Load, List, CreateSession, AppendEntry
\* and Delete and the crashes of the machine keep it, in any interleaving.
THEOREM RepositoryKeepsInv == Spec => []RepositoryInv
<1>1. RepositoryInv /\ [Next]_vars => RepositoryInv'
  BY Stepwise
<1>. QED BY <1>1, Initially, PTL DEF Spec

\* What CreateSession and AppendEntry have acknowledged is in every version of
\* the file that a crash may leave, and that version can be loaded, until the
\* session is deleted or a sync of its directory fails.
THEOREM AcknowledgedIsDurable == Spec => []Durable
BY RepositoryKeepsInv, InvGives, PTL

\* The cache is right about the files it holds, and Load, List and Get hide no
\* session that was there when they began.
THEOREM CacheIsRight == Spec => []CacheServesReads
BY RepositoryKeepsInv, InvGives, PTL

================================================================================
