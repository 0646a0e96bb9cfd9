------------------------- MODULE AgentSession_proofs -------------------------
(***************************************************************************)
(* Proofs about AgentSession for every bound.  The inductive invariant is a *)
(* partition: the messages that were sent are those recorded, given up,     *)
(* held by the run and waiting in each of the three queues, and no two of   *)
(* these share one.  Entries other than those of users carry no message,    *)
(* so that of everything the harness writes only RecordMessage counts.      *)
(***************************************************************************)
EXTENDS AgentSession, SequenceTheorems, FiniteSetTheorems, TLAPS

IsSeq(s) == s \in Seq(Range(s))

\* A queue: no message is in it twice.
Queue(q) == q \in Seq(Nat) /\ \A i, j \in 1 .. Len(q) : q[i] = q[j] => i = j

Disjoint(S, T) == S \cap T = {}

SentIn(h) == {h[i].msg : i \in DOMAIN h} \ {0}

RecordedOnce(h) ==
  \A i, j \in DOMAIN h : h[i].msg # 0 /\ h[i].msg = h[j].msg => i = j

\* h goes on from g, and says nothing more of the users.
Continues(h, g) ==
  /\ IsSeq(h) /\ Len(g) <= Len(h)
  /\ \A i \in 1 .. Len(g) : h[i] = g[i]
  /\ \A i \in (Len(g) + 1) .. Len(h) : h[i].msg = 0

-----------------------------------------------------------------------------
(* Queues *)

LEMMA SeqFacts ==
  ASSUME NEW s, IsSeq(s)
  PROVE  Len(s) \in Nat /\ DOMAIN s = 1 .. Len(s) /\ \A i \in 1 .. Len(s) : s[i] \in Range(s)
BY LenProperties, ElementOfSeq DEF IsSeq

LEMMA QueueFacts ==
  ASSUME NEW q, Queue(q)
  PROVE  /\ Len(q) \in Nat /\ DOMAIN q = 1 .. Len(q)
         /\ Range(q) = {q[i] : i \in 1 .. Len(q)} /\ Range(q) \subseteq Nat
<1>1. q \in Seq(Nat)
  BY DEF Queue
<1>. QED BY <1>1, LenProperties, ElementOfSeq, RangeEquality

LEMMA EmptyQueue == Queue(<<>>) /\ Range(<<>>) = {}
BY EmptySeq DEF Queue, Range

LEMMA EmptyIff == ASSUME NEW q, Queue(q) PROVE q = <<>> <=> Range(q) = {}
<1>1. q # <<>> => 1 \in 1 .. Len(q)
  BY EmptySeq DEF Queue
<1>. QED BY <1>1, QueueFacts, EmptyQueue

LEMMA AppendToQueue ==
  ASSUME NEW q, Queue(q), NEW m \in Nat, m \notin Range(q)
  PROVE  Queue(Append(q, m)) /\ Range(Append(q, m)) = Range(q) \cup {m}
<1>. DEFINE r == Append(q, m)
<1>1. q \in Seq(Nat) /\ r \in Seq(Nat) /\ Len(r) = Len(q) + 1
      /\ (\A i \in 1 .. Len(q) : r[i] = q[i]) /\ r[Len(q) + 1] = m /\ Len(q) \in Nat
  BY AppendProperties, QueueFacts DEF Queue
<1>. HIDE DEF r
<1>2. Range(q) = {q[i] : i \in 1 .. Len(q)} /\ Range(r) = {r[i] : i \in 1 .. Len(q) + 1}
  <2>1. q \in Seq(Nat) /\ r \in Seq(Nat) /\ Len(r) = Len(q) + 1
    BY <1>1
  <2>. QED BY <2>1, RangeEquality
<1>3. \A i, j \in 1 .. Len(r) : r[i] = r[j] => i = j
  BY <1>1, <1>2, SMTT(40) DEF Queue
<1>4. Range(r) = Range(q) \cup {m}
  <2>1. \A i \in 1 .. Len(q) + 1 : i \in 1 .. Len(q) \/ i = Len(q) + 1
    BY <1>1
  <2>. QED BY <1>1, <1>2, <2>1
<1>. QED BY <1>1, <1>3, <1>4 DEF Queue, r

LEMMA HeadOfQueue ==
  ASSUME NEW q, Queue(q), q # <<>>
  PROVE  /\ Head(q) \in Range(q) /\ Queue(Tail(q)) /\ Range(Tail(q)) = Range(q) \ {Head(q)}
         /\ Queue(<<Head(q)>>) /\ Range(<<Head(q)>>) = {Head(q)}
<1>. DEFINE t == Tail(q)
<1>1. q \in Seq(Nat) /\ Head(q) \in Nat /\ t \in Seq(Nat) /\ Len(t) = Len(q) - 1
      /\ (\A i \in 1 .. Len(t) : t[i] = q[i + 1]) /\ Len(q) \in Nat \ {0} /\ Head(q) = q[1]
  BY HeadTailProperties, EmptySeq DEF Queue
<1>. HIDE DEF t
<1>2. Range(q) = {q[i] : i \in 1 .. Len(q)} /\ Range(t) = {t[i] : i \in 1 .. Len(t)}
  <2>1. q \in Seq(Nat) /\ t \in Seq(Nat)
    BY <1>1
  <2>. QED BY <2>1, RangeEquality
<1>3. \A i, j \in 1 .. Len(q) : q[i] = q[j] => i = j
  BY DEF Queue
<1>a. \A i \in 1 .. Len(t) : i + 1 \in 1 .. Len(q) /\ i + 1 # 1
  BY <1>1
<1>b. Queue(t)
  <2>1. ASSUME NEW i \in 1 .. Len(t), NEW j \in 1 .. Len(t), t[i] = t[j] PROVE i = j
    <3>1. i + 1 = j + 1
      BY <1>1, <1>3, <1>a, <2>1
    <3>. QED BY <3>1
  <2>. QED BY <1>1, <2>1 DEF Queue
<1>4. Range(t) = Range(q) \ {Head(q)}
  <2>1. Range(t) \subseteq Range(q) \ {Head(q)}
    <3>1. ASSUME NEW i \in 1 .. Len(t) PROVE t[i] \in Range(q) /\ t[i] # q[1]
      <4>1. i + 1 \in 1 .. Len(q) /\ 1 \in 1 .. Len(q) /\ i + 1 # 1 /\ t[i] = q[i + 1]
        BY <1>1, <1>a
      <4>. QED BY <1>2, <1>3, <4>1
    <3>. QED BY <1>1, <1>2, <3>1
  <2>2. ASSUME NEW x \in Range(q) \ {Head(q)} PROVE x \in Range(t)
    <3>1. PICK i \in 1 .. Len(q) : x = q[i] /\ i # 1
      BY <1>1, <1>2
    <3>2. i - 1 \in 1 .. Len(t) /\ t[i - 1] = x
      BY <1>1, <3>1
    <3>. QED BY <1>2, <3>2
  <2>. QED BY <2>1, <2>2
<1>5. Queue(<<Head(q)>>) /\ Range(<<Head(q)>>) = {Head(q)}
  BY <1>1 DEF Queue, Range
<1>. QED BY <1>1, <1>2, <1>b, <1>4, <1>5 DEF t

\* A queue read by one message at a time.
LEMMA ReadQueue ==
  ASSUME NEW q, Queue(q)
  PROVE  /\ Queue(Drained(q)) /\ Queue(Rest(q))
         /\ Range(q) = Range(Drained(q)) \cup Range(Rest(q))
         /\ Disjoint(Range(Drained(q)), Range(Rest(q)))
<1>1. CASE q = <<>>
  BY <1>1, EmptyQueue DEF Drained, Rest, Disjoint
<1>2. CASE q # <<>>
  BY <1>2, HeadOfQueue DEF Drained, Rest, Disjoint
<1>. QED BY <1>1, <1>2

LEMMA LastOfQueue ==
  ASSUME NEW q, Queue(q), q # <<>>
  PROVE  /\ Last(q) \in Range(q) /\ Queue(Front(q)) /\ Range(Front(q)) = Range(q) \ {Last(q)}
<1>. DEFINE t == SubSeq(q, 1, Len(q) - 1)
<1>1. q \in Seq(Nat) /\ Len(q) \in Nat \ {0} /\ \A i \in 1 .. Len(q) : q[i] \in Nat
  BY EmptySeq, ElementOfSeq DEF Queue
<1>2. t \in Seq(Nat) /\ Len(t) = Len(q) - 1 /\ \A i \in 1 .. Len(t) : t[i] = q[i]
  <2>1. \A i \in 1 .. Len(q) - 1 : q[i] \in Nat
    BY <1>1
  <2>2. /\ t \in Seq(Nat) /\ Len(t) = (IF 1 <= Len(q) - 1 THEN Len(q) - 1 - 1 + 1 ELSE 0)
        /\ \A i \in 1 .. (Len(q) - 1) - 1 + 1 : t[i] = q[1 + i - 1]
    BY <1>1, <2>1, SubSeqProperties
  <2>. HIDE DEF t
  <2>3. \A n \in Nat \ {0} : (n - 1) - 1 + 1 = n - 1 /\ (~(1 <= n - 1) => n - 1 = 0)
    OBVIOUS
  <2>4. \A n \in Nat \ {0} : \A i \in 1 .. n - 1 : 1 + i - 1 = i
    OBVIOUS
  <2>5. Len(t) = Len(q) - 1
    BY <1>1, <2>2, <2>3
  <2>6. (Len(q) - 1) - 1 + 1 = Len(q) - 1
    BY <1>1, <2>3
  <2>7. \A i \in 1 .. Len(t) : t[i] = q[i]
    BY <1>1, <2>2, <2>4, <2>5, <2>6
  <2>. QED BY <2>2, <2>5, <2>7
<1>3. Range(q) = {q[i] : i \in 1 .. Len(q)} /\ Range(t) = {t[i] : i \in 1 .. Len(t)}
  BY <1>1, <1>2, RangeEquality
<1>4. Front(q) = t /\ Last(q) = q[Len(q)]
  BY DEF Front, Last
<1>. HIDE DEF t
<1>a. (\A i, j \in 1 .. Len(q) : q[i] = q[j] => i = j) /\ (\A i \in 1 .. Len(t) : i \in 1 .. Len(q) /\ i # Len(q))
  BY <1>1, <1>2 DEF Queue
<1>5. Queue(t)
  BY <1>2, <1>a DEF Queue
<1>6. Range(t) = Range(q) \ {q[Len(q)]}
  <2>1. Range(t) \subseteq Range(q) \ {q[Len(q)]}
    <3>1. ASSUME NEW i \in 1 .. Len(t) PROVE t[i] \in Range(q) /\ t[i] # q[Len(q)]
      <4>1. i \in 1 .. Len(q) /\ Len(q) \in 1 .. Len(q) /\ i # Len(q) /\ t[i] = q[i]
        BY <1>1, <1>2, <1>a, SMTT(40)
      <4>. QED BY <1>3, <1>a, <4>1
    <3>. QED BY <1>3, <3>1
  <2>2. ASSUME NEW x \in Range(q) \ {q[Len(q)]} PROVE x \in Range(t)
    <3>1. PICK i \in 1 .. Len(q) : x = q[i] /\ i # Len(q)
      BY <1>1, <1>3
    <3>2. i \in 1 .. Len(t) /\ t[i] = x
      BY <1>1, <1>2, <3>1
    <3>. QED BY <1>3, <3>2
  <2>. QED BY <2>1, <2>2
<1>. QED BY <1>1, <1>3, <1>4, <1>5, <1>6

LEMMA JoinQueues ==
  ASSUME NEW p, NEW q, Queue(p), Queue(q), Disjoint(Range(p), Range(q))
  PROVE  Queue(p \o q) /\ Range(p \o q) = Range(p) \cup Range(q)
<1>1. /\ p \in Seq(Nat) /\ q \in Seq(Nat) /\ p \o q \in Seq(Nat)
      /\ Len(p \o q) = Len(p) + Len(q) /\ Len(p) \in Nat /\ Len(q) \in Nat
      /\ \A i \in 1 .. Len(p) + Len(q) : (p \o q)[i] = IF i <= Len(p) THEN p[i] ELSE q[i - Len(p)]
  BY ConcatProperties, LenProperties DEF Queue
<1>2. /\ \A i \in 1 .. Len(p) : p[i] \in Range(p)
      /\ \A i \in 1 .. Len(q) : q[i] \in Range(q)
  BY QueueFacts
<1>3. ASSUME NEW i \in 1 .. Len(p) + Len(q), NEW j \in 1 .. Len(p) + Len(q), (p \o q)[i] = (p \o q)[j]
      PROVE  i = j
  <2>1. CASE i <= Len(p) /\ j <= Len(p)
    BY <1>1, <1>3, <2>1 DEF Queue
  <2>2. CASE ~(i <= Len(p)) /\ ~(j <= Len(p))
    <3>1. i - Len(p) \in 1 .. Len(q) /\ j - Len(p) \in 1 .. Len(q)
      BY <1>1, <2>2
    <3>2. q[i - Len(p)] = q[j - Len(p)]
      BY <1>1, <1>3, <2>2
    <3>3. i - Len(p) = j - Len(p)
      BY <3>1, <3>2 DEF Queue
    <3>. QED BY <1>1, <3>3
  <2>3. CASE i <= Len(p) /\ ~(j <= Len(p))
    <3>1. i \in 1 .. Len(p) /\ j - Len(p) \in 1 .. Len(q) /\ p[i] = q[j - Len(p)]
      BY <1>1, <1>3, <2>3
    <3>. QED BY <1>2, <3>1 DEF Disjoint
  <2>4. CASE ~(i <= Len(p)) /\ j <= Len(p)
    <3>1. j \in 1 .. Len(p) /\ i - Len(p) \in 1 .. Len(q) /\ p[j] = q[i - Len(p)]
      BY <1>1, <1>3, <2>4
    <3>. QED BY <1>2, <3>1 DEF Disjoint
  <2>. QED BY <2>1, <2>2, <2>3, <2>4
<1>4. Range(p \o q) = Range(p) \cup Range(q)
  BY <1>1, RangeConcatenation
<1>. QED BY <1>1, <1>3, <1>4 DEF Queue

LEMMA QueueSize ==
  ASSUME NEW q, Queue(q)
  PROVE  IsFiniteSet(Range(q)) /\ Cardinality(Range(q)) = Len(q)
<1>1. Len(q) \in Nat /\ DOMAIN q = 1 .. Len(q) /\ Range(q) = {q[i] : i \in 1 .. Len(q)}
      /\ q \in [1 .. Len(q) -> Nat]
  BY QueueFacts, LenProperties DEF Queue
<1>2. q \in Bijection(1 .. Len(q), Range(q))
  BY <1>1 DEF Queue, Bijection, Injection, Surjection, IsInjective
<1>3. IsFiniteSet(1 .. Len(q)) /\ Cardinality(1 .. Len(q)) = Len(q)
  <2>1. Len(q) \in Int /\ 1 \in Int /\ (IF 1 > Len(q) THEN 0 ELSE Len(q) - 1 + 1) = Len(q)
    BY <1>1
  <2>. QED BY <2>1, FS_Interval
<1>4. ExistsBijection(1 .. Len(q), Range(q))
  BY <1>2 DEF ExistsBijection
<1>. QED BY <1>3, <1>4, FS_Bijection

-----------------------------------------------------------------------------
(* Entries *)

LEMMA SeqGoesOn ==
  ASSUME NEW s, NEW t, IsSeq(s), IsSeq(t)
  PROVE  /\ IsSeq(s \o t) /\ Len(s \o t) = Len(s) + Len(t)
         /\ \A i \in 1 .. Len(s) : (s \o t)[i] = s[i]
         /\ \A i \in (Len(s) + 1) .. Len(s \o t) : i - Len(s) \in 1 .. Len(t) /\ (s \o t)[i] = t[i - Len(s)]
<1>. DEFINE S == Range(s) \cup Range(t)
<1>1. s \in Seq(S) /\ t \in Seq(S)
  BY SeqMonotonic DEF IsSeq
<1>2. /\ s \o t \in Seq(S) /\ Len(s \o t) = Len(s) + Len(t)
      /\ \A i \in 1 .. Len(s) + Len(t) : (s \o t)[i] = IF i <= Len(s) THEN s[i] ELSE t[i - Len(s)]
  BY <1>1, ConcatProperties
<1>3. IsSeq(s \o t)
  BY <1>2, SeqOfRange DEF IsSeq
<1>. HIDE DEF S
<1>. QED BY <1>2, <1>3, SeqFacts

LEMMA OneMore ==
  ASSUME NEW s, IsSeq(s), NEW e
  PROVE  /\ IsSeq(Append(s, e)) /\ Len(Append(s, e)) = Len(s) + 1
         /\ \A i \in 1 .. Len(s) : Append(s, e)[i] = s[i]
         /\ Append(s, e)[Len(s) + 1] = e
<1>. DEFINE S == Range(s) \cup {e}
<1>1. s \in Seq(S) /\ e \in S
  BY SeqMonotonic DEF IsSeq
<1>2. /\ Append(s, e) \in Seq(S) /\ Len(Append(s, e)) = Len(s) + 1
      /\ \A i \in 1 .. Len(s) : Append(s, e)[i] = s[i]
      /\ Append(s, e)[Len(s) + 1] = e
  BY <1>1, AppendProperties
<1>. QED BY <1>2, SeqOfRange DEF IsSeq

LEMMA ContinuesItself == ASSUME NEW h, IsSeq(h) PROVE Continues(h, h)
BY SeqFacts DEF Continues

LEMMA ContinuesOnward ==
  ASSUME NEW f, NEW g, NEW h, IsSeq(f), Continues(g, f), Continues(h, g)
  PROVE  Continues(h, f)
<1>1. Len(f) \in Nat /\ Len(g) \in Nat /\ Len(h) \in Nat
  BY SeqFacts DEF Continues
<1>2. \A i \in (Len(f) + 1) .. Len(h) : i \in (Len(f) + 1) .. Len(g) \/ i \in (Len(g) + 1) .. Len(h)
  BY <1>1
<1>3. \A i \in (Len(f) + 1) .. Len(h) : h[i].msg = 0
  <2>1. \A i \in (Len(f) + 1) .. Len(g) : i \in 1 .. Len(g)
    BY <1>1
  <2>. QED BY <1>2, <2>1 DEF Continues
<1>. QED BY <1>1, <1>3 DEF Continues

LEMMA SilentEntry ==
  ASSUME NEW h, IsSeq(h), NEW l, NEW e, {"kind", "parent", "msg"} \subseteq DOMAIN e, e.msg = 0
  PROVE  Continues(Stored(h, l, e), h)
<1>1. Prepared(l, e).msg = 0
  BY DEF Prepared
<1>2. Len(h) \in Nat
  BY SeqFacts
<1>. QED BY <1>1, <1>2, OneMore DEF Continues, Stored

\* What the waiting writes add.
LEMMA WritesAreSilent ==
  ASSUME NEW h, IsSeq(h), NEW l, NEW n \in Nat, Written(h, l, n)
  PROVE  Continues(entries', h)
<1>. DEFINE t == [k \in 1 .. n |-> [StateEntry EXCEPT !.parent = IF k = 1 THEN l ELSE Len(h) + k - 1]]
<1>1. entries' = h \o t
  BY DEF Written
<1>2. t \in [1 .. n -> Range(t)]
  BY DEF Range
<1>3. t \in Seq(Range(t)) /\ Len(t) = n
  BY <1>2
<1>4. \A k \in 1 .. n : t[k].msg = 0
  BY DEF StateEntry, NewEntry
<1>. HIDE DEF t
<1>5. Len(h) \in Nat
  BY SeqFacts
<1>. QED BY <1>1, <1>3, <1>4, <1>5, SeqGoesOn DEF IsSeq, Continues

LEMMA FlushIsSilent ==
  ASSUME NEW h, IsSeq(h), NEW l, NEW w \in Nat, FlushAll(h, l, w) \/ FlushSome(h, l, w)
  PROVE  Continues(entries', h) /\ writes' \in Nat
<1>1. CASE FlushAll(h, l, w)
  BY <1>1, WritesAreSilent DEF FlushAll
<1>2. CASE FlushSome(h, l, w)
  <2>1. PICK n \in 0 .. (w - 1) : Written(h, l, n) /\ writes' = w - n
    BY <1>2 DEF FlushSome
  <2>2. n \in Nat /\ writes' \in Nat
    BY <2>1
  <2>. QED BY <2>1, <2>2, WritesAreSilent
<1>. QED BY <1>1, <1>2

\* Entries without a message leave alone what is recorded.
LEMMA SilenceKeeps ==
  ASSUME NEW g, NEW h, IsSeq(g), RecordedOnce(g), Continues(h, g)
  PROVE  IsSeq(h) /\ RecordedOnce(h) /\ SentIn(h) = SentIn(g)
<1>1. /\ IsSeq(h) /\ Len(g) \in Nat /\ Len(h) \in Nat /\ Len(g) <= Len(h)
      /\ DOMAIN g = 1 .. Len(g) /\ DOMAIN h = 1 .. Len(h)
  BY SeqFacts DEF Continues
<1>2. \A i \in 1 .. Len(h) : h[i].msg # 0 => i \in 1 .. Len(g) /\ h[i] = g[i]
  BY <1>1 DEF Continues
<1>3. \A i \in 1 .. Len(g) : i \in 1 .. Len(h) /\ h[i] = g[i]
  BY <1>1 DEF Continues
<1>4. RecordedOnce(h)
  BY <1>1, <1>2 DEF RecordedOnce
<1>5. SentIn(h) \subseteq SentIn(g)
  BY <1>1, <1>2 DEF SentIn
<1>6. SentIn(g) \subseteq SentIn(h)
  BY <1>1, <1>3 DEF SentIn
<1>. QED BY <1>1, <1>4, <1>5, <1>6

LEMMA MessageIsRecorded ==
  ASSUME NEW g, IsSeq(g), RecordedOnce(g), NEW l, NEW m \in Nat \ {0}, m \notin SentIn(g)
  PROVE  LET h == Stored(g, l, UserEntry(m))
         IN  IsSeq(h) /\ RecordedOnce(h) /\ SentIn(h) = SentIn(g) \cup {m}
<1>. DEFINE h == Stored(g, l, UserEntry(m))
<1>1. Prepared(l, UserEntry(m)).msg = m
  BY DEF Prepared, UserEntry, NewEntry
<1>2. /\ IsSeq(h) /\ Len(g) \in Nat /\ Len(h) = Len(g) + 1
      /\ DOMAIN g = 1 .. Len(g) /\ DOMAIN h = 1 .. Len(g) + 1
      /\ (\A i \in 1 .. Len(g) : h[i] = g[i]) /\ h[Len(g) + 1].msg = m
  BY <1>1, OneMore, SeqFacts DEF Stored
<1>. HIDE DEF h
<1>3. \A i \in 1 .. Len(g) + 1 : i \in 1 .. Len(g) \/ i = Len(g) + 1
  BY <1>2
<1>4. \A i \in 1 .. Len(g) : g[i].msg # 0 => g[i].msg \in SentIn(g)
  BY <1>2 DEF SentIn
<1>5. RecordedOnce(h)
  BY <1>2, <1>3, <1>4 DEF RecordedOnce
<1>6. SentIn(h) = SentIn(g) \cup {m}
  BY <1>2, <1>3 DEF SentIn
<1>. QED BY <1>2, <1>5, <1>6 DEF h

-----------------------------------------------------------------------------
(* The invariant *)

Unrecorded ==
  gone \cup Range(run.pending) \cup Range(steering) \cup Range(followUp) \cup Range(nextTurn)

InOnePlace ==
  /\ Disjoint(gone, Range(run.pending) \cup Range(steering) \cup Range(followUp) \cup Range(nextTurn))
  /\ Disjoint(Range(run.pending), Range(steering) \cup Range(followUp) \cup Range(nextTurn))
  /\ Disjoint(Range(steering), Range(followUp) \cup Range(nextTurn))
  /\ Disjoint(Range(followUp), Range(nextTurn))

Queues == Queue(run.pending) /\ Queue(steering) /\ Queue(followUp) /\ Queue(nextTurn)

Partition ==
  /\ InOnePlace
  /\ Disjoint(SentIn(entries), Unrecorded)
  /\ SentIn(entries) \cup Unrecorded = 1 .. sent

\* Where the messages are.
Kept ==
  /\ sent \in Nat /\ writes \in Nat
  /\ IsSeq(entries) /\ RecordedOnce(entries)
  /\ Queues /\ Partition

\* The queues of a run are open only while it can read them, and it holds
\* messages only where it records them.
RunHolds ==
  /\ {"at", "pending"} \subseteq DOMAIN run
  /\ accept \/ steering # <<>> \/ followUp # <<>> => Attached
  /\ run.pending # <<>> => run.at \in {"starting", "prompts", "turn"}
  /\ run.at = "starting" => run.pending # <<>>

KeptInv == Kept /\ RunHolds

-----------------------------------------------------------------------------
LEMMA Initially == Init => KeptInv
<1>. SUFFICES ASSUME Init PROVE KeptInv
  OBVIOUS
<1>1. IsSeq(entries) /\ DOMAIN entries = {}
  BY EmptySeq DEF Init, IsSeq
<1>2. RecordedOnce(entries) /\ SentIn(entries) = {}
  BY <1>1 DEF RecordedOnce, SentIn
<1>3. Queues /\ Unrecorded = {} /\ InOnePlace
  BY EmptyQueue DEF Init, IdleRun, Queues, Unrecorded, InOnePlace, Disjoint
<1>4. sent = 0 /\ 1 .. 0 = {} /\ writes = 0
  BY DEF Init
<1>5. RunHolds
  BY DEF Init, IdleRun, RunHolds
<1>. QED BY <1>1, <1>2, <1>3, <1>4, <1>5 DEF KeptInv, Kept, Partition, Disjoint

\* Messages that are not recorded change their place.
LEMMA MovedAbout ==
  ASSUME Kept, Continues(entries', entries), writes' \in Nat, sent' = sent,
         Queues', InOnePlace', Unrecorded' = Unrecorded
  PROVE  Kept'
BY SilenceKeeps DEF Kept, Partition

\* Nothing happens to them.
LEMMA LeftAlone ==
  ASSUME Kept, Continues(entries', entries), writes' \in Nat,
         UNCHANGED <<sent, gone, steering, followUp, nextTurn>>, run'.pending = run.pending
  PROVE  Kept'
BY MovedAbout DEF Kept, Partition, Queues, InOnePlace, Unrecorded

\* A new message goes to one of the places.
LEMMA NewMessage ==
  ASSUME Kept, Continues(entries', entries), writes' \in Nat, sent' = sent + 1,
         Queues', InOnePlace', Unrecorded' = Unrecorded \cup {sent'}
  PROVE  Kept'
<1>1. sent' \in Nat /\ 1 .. sent' = (1 .. sent) \cup {sent'} /\ sent' \notin 1 .. sent
  BY DEF Kept
<1>2. sent' \notin SentIn(entries)
  BY <1>1 DEF Kept, Partition
<1>. QED BY <1>1, <1>2, SilenceKeeps DEF Kept, Partition, Disjoint

\* The number of the next message is in none of them.
LEMMA Fresh ==
  ASSUME Kept
  PROVE  sent + 1 \in Nat \ {0} /\ sent + 1 \notin Unrecorded
<1>1. sent \in Nat /\ Unrecorded \subseteq 1 .. sent
  BY DEF Kept, Partition
<1>. QED BY <1>1

LEMMA KeptTypes ==
  ASSUME Kept
  PROVE  /\ IsSeq(entries) /\ writes \in Nat /\ sent \in Nat
         /\ Continues(entries, entries)
         /\ Queue(run.pending) /\ Queue(steering) /\ Queue(followUp) /\ Queue(nextTurn)
BY ContinuesItself DEF Kept, Queues

\* AppendEntry of an entry that is no user message, or its failure.
LEMMA AppendIsSilent ==
  ASSUME Kept, NEW e, {"kind", "parent", "msg"} \subseteq DOMAIN e, e.msg = 0, Record(e)
  PROVE  Continues(entries', entries)
BY SilentEntry, KeptTypes DEF Record

LEMMA RefusalIsSilent ==
  ASSUME Kept, NEW e, Refuse(e)
  PROVE  Continues(entries', entries)
BY KeptTypes DEF Refuse, StorageFails, history

LEMMA EntryKinds ==
  /\ \A asks : {"kind", "parent", "msg"} \subseteq DOMAIN AssistantEntry(asks) /\ AssistantEntry(asks).msg = 0
  /\ \A asks : {"kind", "parent", "msg"} \subseteq DOMAIN FailedEntry(asks) /\ FailedEntry(asks).msg = 0
  /\ \A c : {"kind", "parent", "msg"} \subseteq DOMAIN ResultEntry(c) /\ ResultEntry(c).msg = 0
  /\ {"kind", "parent", "msg"} \subseteq DOMAIN StateEntry /\ StateEntry.msg = 0
  /\ \A i : {"kind", "parent", "msg"} \subseteq DOMAIN LeafEntry(i) /\ LeafEntry(i).msg = 0
  /\ \A i : {"kind", "parent", "msg"} \subseteq DOMAIN CompactionEntry(i) /\ CompactionEntry(i).msg = 0
  /\ {"kind", "parent", "msg"} \subseteq DOMAIN SummaryEntry /\ SummaryEntry.msg = 0
BY DEF AssistantEntry, FailedEntry, ResultEntry, StateEntry, LeafEntry, CompactionEntry, SummaryEntry, NewEntry

LEMMA FlushKeeps ==
  ASSUME Kept, Flush \/ FlushFails
  PROVE  Continues(entries', entries) /\ writes' \in Nat
BY KeptTypes, FlushIsSilent DEF Flush, FlushFails

-----------------------------------------------------------------------------
(* The start of a run *)

LEMMA BeginKeeps == ASSUME KeptInv, Begin PROVE KeptInv'
<1>. USE DEF KeptInv
<1>1. Continues(entries', entries) /\ writes' \in Nat
  BY FlushKeeps DEF Begin
<1>2. /\ sent' = sent + 1 /\ sent' \in Nat /\ sent' \notin Unrecorded
      /\ steering' = steering /\ followUp' = followUp /\ accept' = accept
      /\ run.at = "idle" /\ run.pending = <<>>
  BY Fresh DEF Begin, RunHolds
<1>3. CASE /\ run' = [IdleRun EXCEPT !.at = "starting", !.turn = 1, !.from = agent',
                                     !.pending = Append(nextTurn, sent')]
           /\ nextTurn' = <<>> /\ gone' = gone
  <2>1. {"at", "pending"} \subseteq DOMAIN run' /\ run'.at = "starting" /\ run'.pending = Append(nextTurn, sent')
    BY <1>3 DEF IdleRun
  <2>2. /\ Queue(run'.pending) /\ Range(run'.pending) = Range(nextTurn) \cup {sent'}
        /\ run'.pending # <<>>
    <3>1. Queue(nextTurn) /\ sent' \notin Range(nextTurn)
      BY <1>2, KeptTypes DEF Unrecorded
    <3>2. Queue(Append(nextTurn, sent')) /\ Range(Append(nextTurn, sent')) = Range(nextTurn) \cup {sent'}
      BY <1>2, <3>1, AppendToQueue
    <3>3. Append(nextTurn, sent') # <<>>
      BY <3>2, EmptyIff
    <3>. QED BY <2>1, <3>2, <3>3
  <2>3. Queues' /\ InOnePlace' /\ Unrecorded' = Unrecorded \cup {sent'}
    BY <1>2, <1>3, <2>2, EmptyQueue DEF Kept, Queues, Partition, InOnePlace, Unrecorded, Disjoint
  <2>4. Kept'
    BY <1>1, <1>2, <2>3, NewMessage
  <2>. QED BY <1>2, <2>1, <2>2, <2>4 DEF RunHolds, Attached
<1>4. CASE run' = [IdleRun EXCEPT !.at = "settling"] /\ gone' = gone \cup {sent'} /\ nextTurn' = nextTurn
  <2>1. {"at", "pending"} \subseteq DOMAIN run' /\ run'.at = "settling" /\ run'.pending = <<>>
    BY <1>4 DEF IdleRun
  <2>2. Queues' /\ InOnePlace' /\ Unrecorded' = Unrecorded \cup {sent'}
    BY <1>2, <1>4, <2>1, EmptyQueue DEF Kept, Queues, Partition, InOnePlace, Unrecorded, Disjoint
  <2>3. Kept'
    BY <1>1, <1>2, <2>2, NewMessage
  <2>. QED BY <1>2, <2>1, <2>3 DEF RunHolds, Attached
<1>. QED BY <1>3, <1>4 DEF Begin

LEMMA AttachKeeps == ASSUME KeptInv, Attach PROVE KeptInv'
<1>. USE DEF KeptInv
<1>1. /\ Continues(entries', entries) /\ writes' \in Nat /\ sent' = sent
      /\ steering' = steering /\ followUp' = followUp
      /\ run.at = "starting" /\ run.pending # <<>> /\ steering = <<>> /\ followUp = <<>> /\ ~accept
  BY KeptTypes DEF Attach, history, RunHolds, Attached
<1>2. CASE cancelled
  <2>1. /\ {"at", "pending"} \subseteq DOMAIN run' /\ run'.at = "settling" /\ run'.pending = <<>>
        /\ nextTurn' = Front(run.pending) \o nextTurn /\ gone' = gone \cup {Last(run.pending)}
        /\ accept' = accept
    BY <1>2 DEF Attach, IdleRun
  <2>2. /\ Last(run.pending) \in Range(run.pending) /\ Queue(Front(run.pending))
        /\ Range(Front(run.pending)) = Range(run.pending) \ {Last(run.pending)}
    BY <1>1, LastOfQueue, KeptTypes
  <2>3. Queue(nextTurn') /\ Range(nextTurn') = Range(Front(run.pending)) \cup Range(nextTurn)
    <3>1. Disjoint(Range(Front(run.pending)), Range(nextTurn))
      BY <2>2 DEF Kept, Partition, InOnePlace, Disjoint
    <3>. QED BY <2>1, <2>2, <3>1, JoinQueues, KeptTypes
  <2>4. Queues' /\ InOnePlace' /\ Unrecorded' = Unrecorded
    BY <1>1, <2>1, <2>2, <2>3, EmptyQueue DEF Kept, Queues, Partition, InOnePlace, Unrecorded, Disjoint
  <2>5. Kept'
    BY <1>1, <2>4, MovedAbout
  <2>. QED BY <1>1, <2>1, <2>5 DEF RunHolds, Attached
<1>3. CASE ~cancelled
  <2>1. /\ {"at", "pending"} \subseteq DOMAIN run' /\ run'.at = "prompts" /\ run'.pending = run.pending
        /\ UNCHANGED <<nextTurn, gone>>
    BY <1>3 DEF Attach, RunHolds
  <2>2. Kept'
    BY <1>1, <2>1, LeftAlone
  <2>. QED BY <1>1, <2>1, <2>2 DEF RunHolds, Attached
<1>. QED BY <1>2, <1>3

-----------------------------------------------------------------------------
(* The loop of turns *)

\* A step of the run that records no message and moves none.
LEMMA LoopKeeps ==
  ASSUME KeptInv, Continues(entries', entries), writes' \in Nat, run.pending = <<>>,
         UNCHANGED <<sent, gone, accept, steering, followUp, nextTurn>>,
         {"at", "pending"} \subseteq DOMAIN run', run'.pending = <<>>,
         run'.at \notin {"idle", "starting", "settling"}
  PROVE  KeptInv'
<1>1. Kept'
  BY LeftAlone DEF KeptInv
<1>. QED BY <1>1 DEF KeptInv, RunHolds, Attached

LEMMA LeaveLoopKeeps ==
  ASSUME KeptInv, NEW e, LeaveLoop(e), Attached
  PROVE  KeptInv'
<1>. USE DEF KeptInv
<1>1. Continues(entries', entries) /\ writes' \in Nat
  BY RefusalIsSilent, KeptTypes DEF LeaveLoop
<1>2. /\ {"at", "pending"} \subseteq DOMAIN run' /\ run'.at = "finish" /\ run'.pending = <<>>
      /\ gone' = gone \cup Range(run.pending)
      /\ UNCHANGED <<sent, accept, steering, followUp, nextTurn>>
  BY DEF LeaveLoop, RunHolds, queues
<1>3. Queues' /\ InOnePlace' /\ Unrecorded' = Unrecorded
  BY <1>2, EmptyQueue DEF Kept, Queues, Partition, InOnePlace, Unrecorded, Disjoint
<1>4. Kept'
  BY <1>1, <1>2, <1>3, MovedAbout
<1>. QED BY <1>2, <1>4 DEF RunHolds, Attached

LEMMA RecordMessageKeeps == ASSUME KeptInv, RecordMessage PROVE KeptInv'
<1>. USE DEF KeptInv
<1>1. run.at \in {"prompts", "turn"} /\ run.pending # <<>> /\ Attached
  BY DEF RecordMessage, Attached
<1>2. CASE LeaveLoop(UserEntry(Head(run.pending)))
  BY <1>1, <1>2, LeaveLoopKeeps
<1>3. CASE /\ Record(UserEntry(Head(run.pending)))
           /\ run' = [run EXCEPT !.pending = Tail(@), !.added = Append(@, leaf')]
           /\ InLoop
  <2>. DEFINE m == Head(run.pending)
  <2>1. /\ {"at", "pending"} \subseteq DOMAIN run' /\ run'.at = run.at /\ run'.pending = Tail(run.pending)
        /\ UNCHANGED <<sent, gone, writes, accept, steering, followUp, nextTurn>>
    BY <1>3 DEF InLoop, clients, queues, RunHolds
  <2>2. /\ m \in Range(run.pending) /\ Queue(run'.pending)
        /\ Range(run'.pending) = Range(run.pending) \ {m}
    BY <1>1, <2>1, HeadOfQueue, KeptTypes
  <2>3. m \in 1 .. sent /\ m \in Nat \ {0} /\ m \notin SentIn(entries)
    BY <2>2 DEF Kept, Partition, Unrecorded, Disjoint
  <2>4. /\ IsSeq(entries') /\ RecordedOnce(entries') /\ SentIn(entries') = SentIn(entries) \cup {m}
    BY <1>3, <2>3, MessageIsRecorded DEF Record, Kept
  <2>. HIDE DEF m
  <2>5. Queues' /\ InOnePlace'
    BY <2>1, <2>2 DEF Kept, Queues, Partition, InOnePlace, Disjoint
  <2>6. Unrecorded' = Unrecorded \ {m} /\ m \in Unrecorded
    BY <2>1, <2>2 DEF Unrecorded, Kept, Partition, InOnePlace, Disjoint
  <2>7. Partition'
    BY <2>1, <2>4, <2>5, <2>6 DEF Kept, Partition, Disjoint
  <2>8. Kept'
    BY <2>1, <2>4, <2>5, <2>7 DEF Kept
  <2>. QED BY <1>1, <2>1, <2>8 DEF RunHolds, Attached
<1>. QED BY <1>2, <1>3 DEF RecordMessage

\* The loop takes a message of a queue, as Drained and Rest say.
LEMMA PollKeeps ==
  ASSUME KeptInv, Continues(entries', entries), writes' \in Nat, run.pending = <<>>, Attached,
         UNCHANGED <<sent, gone, accept, nextTurn>>,
         {"at", "pending"} \subseteq DOMAIN run', run'.at = "turn",
         \/ run'.pending = Drained(steering) /\ steering' = Rest(steering) /\ followUp' = followUp
         \/ run'.pending = Drained(followUp) /\ followUp' = Rest(followUp) /\ steering' = steering
  PROVE  KeptInv'
<1>. USE DEF KeptInv
<1>1. Queues' /\ InOnePlace' /\ Unrecorded' = Unrecorded
  BY EmptyQueue, ReadQueue DEF Kept, Queues, Partition, InOnePlace, Unrecorded, Disjoint
<1>2. Kept'
  BY <1>1, MovedAbout
<1>. QED BY <1>2 DEF RunHolds, Attached

LEMMA FirstPollKeeps == ASSUME KeptInv, FirstPoll PROVE KeptInv'
<1>1. /\ run.pending = <<>> /\ Attached
      /\ {"at", "pending"} \subseteq DOMAIN run' /\ run'.at = "turn" /\ run'.pending = Drained(steering)
  BY DEF FirstPoll, Attached, KeptInv, RunHolds
<1>2. Continues(entries', entries) /\ writes' \in Nat /\ UNCHANGED <<sent, gone, accept, nextTurn>>
  BY KeptTypes DEF FirstPoll, KeptInv, history, clients
<1>. QED BY <1>1, <1>2, PollKeeps DEF FirstPoll

LEMMA GotoKeeps ==
  ASSUME KeptInv, NEW place, place \notin {"idle", "starting", "settling"}, Goto(place), run.pending = <<>>
  PROVE  /\ {"at", "pending"} \subseteq DOMAIN run' /\ run'.pending = <<>>
         /\ run'.at \notin {"idle", "starting", "settling"}
BY DEF Goto, KeptInv, RunHolds

LEMMA NoneHeld ==
  ASSUME KeptInv, run.at \notin {"starting", "prompts", "turn"}
  PROVE  run.pending = <<>>
BY DEF KeptInv, RunHolds

LEMMA InLoopLeaves ==
  ASSUME KeptInv, InLoop
  PROVE  UNCHANGED <<sent, gone, accept, steering, followUp, nextTurn>> /\ writes' \in Nat
BY KeptTypes DEF InLoop, clients, queues, KeptInv

\* The steps of the loop that look at nothing but the run.
LEMMA QuietSteps == ASSUME KeptInv, CallModel \/ RunTools \/ ToolsInterrupted PROVE KeptInv'
<1>1. InLoop /\ Continues(entries', entries)
  BY KeptTypes DEF CallModel, RunTools, ToolsInterrupted, history, KeptInv
<1>2. run.pending = <<>>
  BY NoneHeld DEF CallModel, RunTools, ToolsInterrupted
<1>3. /\ {"at", "pending"} \subseteq DOMAIN run' /\ run'.pending = <<>>
      /\ run'.at \notin {"idle", "starting", "settling"}
  <2>1. CASE CallModel \/ ToolsInterrupted
    BY <1>2, <2>1, GotoKeeps DEF CallModel, ToolsInterrupted
  <2>2. CASE RunTools
    BY <1>2, <2>2 DEF RunTools, KeptInv, RunHolds
  <2>. QED BY <2>1, <2>2
<1>. QED BY <1>1, <1>2, <1>3, InLoopLeaves, LoopKeeps

LEMMA AnswerKeeps ==
  ASSUME KeptInv, run.at = "stream", NEW e, {"kind", "parent", "msg"} \subseteq DOMAIN e, e.msg = 0,
         NEW next, next \notin {"idle", "starting", "settling"}, Answer(e, next)
  PROVE  KeptInv'
<1>1. run.pending = <<>> /\ Attached
  BY NoneHeld DEF Attached
<1>2. CASE /\ Record(e)
           /\ run' = [run EXCEPT !.at = next, !.calls = AsksFor(<<e>>, 1), !.added = Append(@, leaf'),
                                 !.more = FALSE, !.stop = (e.kind = "failed")]
           /\ InLoop
  <2>1. Continues(entries', entries)
    BY <1>2, AppendIsSilent DEF KeptInv
  <2>2. /\ {"at", "pending"} \subseteq DOMAIN run' /\ run'.pending = <<>>
        /\ run'.at \notin {"idle", "starting", "settling"}
    BY <1>1, <1>2 DEF KeptInv, RunHolds
  <2>. QED BY <1>1, <1>2, <2>1, <2>2, InLoopLeaves, LoopKeeps
<1>3. CASE LeaveLoop(e)
  BY <1>1, <1>3, LeaveLoopKeeps
<1>. QED BY <1>2, <1>3 DEF Answer

LEMMA StreamKeeps == ASSUME KeptInv, Stream PROVE KeptInv'
BY EntryKinds, AnswerKeeps DEF Stream

LEMMA RecordResultKeeps == ASSUME KeptInv, RecordResult PROVE KeptInv'
<1>. DEFINE c == Min(run.calls)
            rest == run.calls \ {c}
<1>1. run.pending = <<>> /\ Attached
  BY NoneHeld DEF RecordResult, Attached
<1>2. ASSUME Record(ResultEntry(c)), NEW more \in BOOLEAN, InLoop,
             run' = [run EXCEPT !.calls = rest, !.added = Append(@, leaf'),
                                !.more = more, !.sequential = @ /\ rest # {},
                                !.at = CASE rest = {}       -> "turn end"
                                         [] run.sequential /\ rest # {} -> "tools"
                                         [] OTHER           -> "results"]
      PROVE  KeptInv'
  <2>. HIDE DEF c, rest
  <2>1. Continues(entries', entries)
    BY <1>2, AppendIsSilent, EntryKinds DEF KeptInv
  <2>2. /\ {"at", "pending"} \subseteq DOMAIN run' /\ run'.pending = <<>>
        /\ run'.at \notin {"idle", "starting", "settling"}
    BY <1>1, <1>2 DEF KeptInv, RunHolds
  <2>. QED BY <1>1, <1>2, <2>1, <2>2, InLoopLeaves, LoopKeeps
<1>3. CASE LeaveLoop(ResultEntry(c))
  BY <1>1, <1>3, LeaveLoopKeeps
<1>4. CASE Refuse(ResultEntry(c)) /\ Goto("failing") /\ InLoop
  <2>1. Continues(entries', entries)
    BY <1>4, RefusalIsSilent DEF KeptInv
  <2>. QED BY <1>1, <1>4, <2>1, GotoKeeps, InLoopLeaves, LoopKeeps
<1>. QED BY <1>2, <1>3, <1>4 DEF RecordResult

LEMMA RecordFailureKeeps == ASSUME KeptInv, RecordFailure PROVE KeptInv'
<1>1. run.pending = <<>> /\ Attached
  BY NoneHeld DEF RecordFailure, Attached
<1>2. CASE /\ Record(FailedEntry({}))
           /\ run' = [run EXCEPT !.at = "turn end", !.stop = TRUE, !.calls = {}, !.sequential = FALSE]
           /\ InLoop
  <2>1. Continues(entries', entries)
    BY <1>2, AppendIsSilent, EntryKinds DEF KeptInv
  <2>2. /\ {"at", "pending"} \subseteq DOMAIN run' /\ run'.pending = <<>>
        /\ run'.at \notin {"idle", "starting", "settling"}
    BY <1>1, <1>2 DEF KeptInv, RunHolds
  <2>. QED BY <1>1, <1>2, <2>1, <2>2, InLoopLeaves, LoopKeeps
<1>3. CASE LeaveLoop(FailedEntry({}))
  BY <1>1, <1>3, LeaveLoopKeeps
<1>. QED BY <1>2, <1>3 DEF RecordFailure

LEMMA TurnEndKeeps == ASSUME KeptInv, TurnEnd PROVE KeptInv'
<1>1. run.pending = <<>>
  BY NoneHeld DEF TurnEnd
<1>2. Continues(entries', entries) /\ writes' \in Nat
  BY FlushKeeps DEF TurnEnd, KeptInv
<1>3. UNCHANGED <<sent, gone, accept, steering, followUp, nextTurn>>
  BY DEF TurnEnd, clients, queues
<1>4. /\ {"at", "pending"} \subseteq DOMAIN run' /\ run'.pending = <<>>
      /\ run'.at \notin {"idle", "starting", "settling"}
  BY <1>1, GotoKeeps DEF TurnEnd
<1>. QED BY <1>1, <1>2, <1>3, <1>4, LoopKeeps

\* The messages of a queue become those of the next turn, or are lost.
LEMMA StartTurnKeeps ==
  ASSUME KeptInv, Continues(entries', entries), writes' \in Nat, run.at = "prepare",
         UNCHANGED <<sent, accept, nextTurn>>, NEW p, StartTurn(p),
         \/ p = Drained(steering) /\ steering' = Rest(steering) /\ followUp' = followUp
         \/ p = Drained(followUp) /\ followUp' = Rest(followUp) /\ steering' = steering
  PROVE  KeptInv'
<1>. USE DEF KeptInv
<1>1. run.pending = <<>> /\ Attached
  BY NoneHeld DEF Attached
<1>2. CASE run.turn < MaxTurns
  <2>1. /\ {"at", "pending"} \subseteq DOMAIN run' /\ run'.at = "turn" /\ run'.pending = p /\ gone' = gone
    BY <1>2 DEF StartTurn, RunHolds
  <2>. QED BY <1>1, <2>1, PollKeeps
<1>3. CASE ~(run.turn < MaxTurns)
  <2>1. /\ {"at", "pending"} \subseteq DOMAIN run' /\ run'.at = "failing" /\ run'.pending = <<>>
        /\ gone' = gone \cup Range(p)
    BY <1>1, <1>3 DEF StartTurn, RunHolds
  <2>2. Queues' /\ InOnePlace' /\ Unrecorded' = Unrecorded
    BY <1>1, <2>1, EmptyQueue, ReadQueue DEF Kept, Queues, Partition, InOnePlace, Unrecorded, Disjoint
  <2>3. Kept'
    BY <2>2, MovedAbout
  <2>. QED BY <1>1, <2>1, <2>3 DEF RunHolds, Attached
<1>. QED BY <1>2, <1>3

LEMMA PrepareKeeps == ASSUME KeptInv, PrepareNextTurn PROVE KeptInv'
<1>1. run.at = "prepare" /\ run.pending = <<>> /\ UNCHANGED <<sent, accept, nextTurn>>
  BY NoneHeld DEF PrepareNextTurn
<1>2. Continues(entries', entries) /\ writes' \in Nat
  BY FlushKeeps DEF PrepareNextTurn, KeptInv
<1>3. CASE StartTurn(Drained(steering)) /\ steering' = Rest(steering) /\ followUp' = followUp
  BY <1>1, <1>2, <1>3, StartTurnKeeps
<1>4. CASE StartTurn(Drained(followUp)) /\ followUp' = Rest(followUp) /\ steering' = steering
  BY <1>1, <1>2, <1>4, StartTurnKeeps
<1>5. CASE (Goto("agent end") \/ Goto("failing")) /\ UNCHANGED <<steering, followUp, gone>>
  BY <1>1, <1>2, <1>5, GotoKeeps, LoopKeeps
<1>. QED BY <1>3, <1>4, <1>5 DEF PrepareNextTurn

-----------------------------------------------------------------------------
(* The end of a run *)

LEMMA DrainKeeps ==
  ASSUME Kept, DrainQueues, run.pending = <<>>, run'.pending = <<>>, gone' = gone
  PROVE  Queues' /\ InOnePlace' /\ Unrecorded' = Unrecorded
<1>1. Queue(nextTurn \o steering) /\ Range(nextTurn \o steering) = Range(nextTurn) \cup Range(steering)
  BY JoinQueues, KeptTypes DEF Kept, Partition, InOnePlace, Disjoint
<1>2. /\ Queue(nextTurn \o steering \o followUp)
      /\ Range(nextTurn \o steering \o followUp) = Range(nextTurn) \cup Range(steering) \cup Range(followUp)
  BY <1>1, JoinQueues, KeptTypes DEF Kept, Partition, InOnePlace, Disjoint
<1>. QED BY <1>2, EmptyQueue
     DEF DrainQueues, Kept, Queues, Partition, InOnePlace, Unrecorded, Disjoint

LEMMA EndKeeps == ASSUME KeptInv, AgentEnd \/ FinishRun PROVE KeptInv'
<1>1. run.pending = <<>> /\ DrainQueues /\ sent' = sent /\ gone' = gone
  BY NoneHeld DEF AgentEnd, FinishRun, clients
<1>2. Continues(entries', entries) /\ writes' \in Nat
  BY FlushKeeps DEF AgentEnd, FinishRun, KeptInv
<1>3. /\ {"at", "pending"} \subseteq DOMAIN run' /\ run'.pending = <<>> /\ run'.at \in {"finish", "settling"}
  BY <1>1 DEF AgentEnd, FinishRun, Goto, IdleRun, KeptInv, RunHolds
<1>4. Kept'
  BY <1>1, <1>2, <1>3, DrainKeeps, MovedAbout DEF KeptInv
<1>. QED BY <1>1, <1>3, <1>4 DEF KeptInv, RunHolds, DrainQueues

LEMMA SettleKeeps == ASSUME KeptInv, SettleRun PROVE KeptInv'
<1>1. run.pending = <<>> /\ run.at = "settling"
  BY NoneHeld DEF SettleRun
<1>2. {"at", "pending"} \subseteq DOMAIN run' /\ run'.pending = <<>> /\ run'.at = "idle"
  BY DEF SettleRun, IdleRun
<1>3. Kept'
  BY <1>1, <1>2, LeftAlone, KeptTypes DEF SettleRun, history, queues, KeptInv
<1>. QED BY <1>1, <1>2, <1>3 DEF SettleRun, queues, KeptInv, RunHolds, Attached

-----------------------------------------------------------------------------
(* The clients *)

LEMMA EnqueueKeeps == ASSUME KeptInv, Steer \/ FollowUp \/ NextTurn PROVE KeptInv'
<1>. USE DEF KeptInv
<1>1. /\ Continues(entries', entries) /\ writes' \in Nat /\ sent' = sent + 1
      /\ UNCHANGED <<run, gone, accept>>
  BY KeptTypes DEF Steer, FollowUp, NextTurn, UnchangedButQueues, history
<1>2. /\ sent' \in Nat /\ sent' \notin Unrecorded
      /\ \A q : Queue(q) /\ sent' \notin Range(q)
           => Queue(Append(q, sent')) /\ Range(Append(q, sent')) = Range(q) \cup {sent'}
  BY <1>1, Fresh, AppendToQueue
<1>3. \/ accept /\ steering' = Append(steering, sent') /\ UNCHANGED <<followUp, nextTurn>>
      \/ accept /\ followUp' = Append(followUp, sent') /\ UNCHANGED <<steering, nextTurn>>
      \/ nextTurn' = Append(nextTurn, sent') /\ UNCHANGED <<steering, followUp>>
  BY DEF Steer, FollowUp, NextTurn
<1>a. /\ sent' \notin Range(steering) /\ sent' \notin Range(followUp) /\ sent' \notin Range(nextTurn)
      /\ sent' \notin Range(run.pending) /\ sent' \notin gone
  BY <1>2 DEF Unrecorded
<1>b. /\ Queue(steering') /\ Queue(followUp') /\ Queue(nextTurn')
      /\ \/ /\ Range(steering') = Range(steering) \cup {sent'}
            /\ Range(followUp') = Range(followUp) /\ Range(nextTurn') = Range(nextTurn)
         \/ /\ Range(followUp') = Range(followUp) \cup {sent'}
            /\ Range(steering') = Range(steering) /\ Range(nextTurn') = Range(nextTurn)
         \/ /\ Range(nextTurn') = Range(nextTurn) \cup {sent'}
            /\ Range(followUp') = Range(followUp) /\ Range(steering') = Range(steering)
  <2>1. Queue(steering) /\ Queue(followUp) /\ Queue(nextTurn)
    BY KeptTypes
  <2>. QED BY <1>2, <1>3, <1>a, <2>1
<1>4. Queues' /\ InOnePlace' /\ Unrecorded' = Unrecorded \cup {sent'}
  <2>1. Queues'
    BY <1>1, <1>b, KeptTypes DEF Queues
  <2>2. InOnePlace'
    BY <1>1, <1>a, <1>b DEF Kept, Partition, InOnePlace, Disjoint
  <2>3. Unrecorded' = Unrecorded \cup {sent'}
    BY <1>1, <1>b DEF Unrecorded
  <2>. QED BY <2>1, <2>2, <2>3
<1>5. Kept'
  BY <1>1, <1>4, NewMessage
<1>. QED BY <1>1, <1>3, <1>5 DEF RunHolds, Attached

\* A client that changes only what is no message.
LEMMA ClientKeeps ==
  ASSUME KeptInv, Continues(entries', entries), writes' \in Nat,
         UNCHANGED <<run, sent, gone, accept, steering, followUp, nextTurn>>
  PROVE  KeptInv'
<1>1. Kept'
  BY LeftAlone DEF KeptInv
<1>. QED BY <1>1 DEF KeptInv, RunHolds, Attached

LEMMA SetModelKeeps == ASSUME KeptInv, SetModel PROVE KeptInv'
<1>1. IsSeq(entries) /\ writes \in Nat /\ writes + 1 \in Nat
  BY KeptTypes DEF KeptInv
<1>2. Continues(entries', entries) /\ writes' \in Nat
  <2>1. CASE writes' = writes + 1 /\ UNCHANGED history
    BY <1>1, <2>1, ContinuesItself DEF history
  <2>2. CASE (Record(StateEntry) \/ Refuse(StateEntry)) /\ writes' = writes
    BY <1>1, <2>2, AppendIsSilent, RefusalIsSilent, EntryKinds DEF KeptInv
  <2>3. CASE FlushAll(entries, leaf, writes + 1) \/ FlushSome(entries, leaf, writes + 1)
    BY <1>1, <2>3, FlushIsSilent
  <2>. QED BY <2>1, <2>2, <2>3 DEF SetModel
<1>. QED BY <1>2, ClientKeeps DEF SetModel, queues

LEMMA AbortKeeps == ASSUME KeptInv, Abort PROVE KeptInv'
<1>. USE DEF KeptInv
<1>1. Continues(entries', entries) /\ writes' \in Nat /\ UNCHANGED <<run, nextTurn, sent>>
  BY KeptTypes DEF Abort, history
<1>2. CASE Attached
  <2>1. /\ gone' = gone \cup Range(steering) \cup Range(followUp)
        /\ steering' = <<>> /\ followUp' = <<>> /\ accept' = FALSE
    BY <1>2 DEF Abort
  <2>2. Queues' /\ InOnePlace' /\ Unrecorded' = Unrecorded
    BY <1>1, <2>1, EmptyQueue DEF Kept, Queues, Partition, InOnePlace, Unrecorded, Disjoint
  <2>3. Kept'
    BY <1>1, <2>2, MovedAbout
  <2>. QED BY <1>1, <2>1, <2>3 DEF RunHolds
<1>3. CASE ~Attached
  BY <1>1, <1>3, ClientKeeps DEF Abort
<1>. QED BY <1>2, <1>3

LEMMA CancelKeeps == ASSUME KeptInv, Cancel PROVE KeptInv'
<1>1. Continues(entries', entries) /\ writes' \in Nat
  BY KeptTypes DEF Cancel, history, KeptInv
<1>. QED BY <1>1, ClientKeeps DEF Cancel, queues, clients

LEMMA BeginSummaryKeeps == ASSUME KeptInv, BeginSummary PROVE KeptInv'
<1>1. Continues(entries', entries) /\ writes' \in Nat
  BY FlushKeeps DEF BeginSummary, KeptInv
<1>. QED BY <1>1, ClientKeeps DEF BeginSummary, queues

\* NavigateTree and Compact add one entry, and none of a user.
LEMMA EditsAreSilent ==
  ASSUME Kept, NEW o \in {Outcome(entries, leaf)} \cup Navigated \cup Compacted
  PROVE  Continues(o.entries, entries)
<1>1. ASSUME NEW l, NEW e, {"kind", "parent", "msg"} \subseteq DOMAIN e, e.msg = 0,
             o \in AppendedAt(l, e)
      PROVE  Continues(o.entries, entries)
  <2>1. o.entries = Stored(entries, l, e)
    BY <1>1 DEF AppendedAt, Outcome
  <2>. QED BY <1>1, <2>1, SilentEntry, KeptTypes
<1>2. CASE o = Outcome(entries, leaf)
  BY <1>2, KeptTypes DEF Outcome
<1>3. CASE o \in Navigated
  BY <1>1, <1>3, EntryKinds DEF Navigated
<1>4. CASE o \in Compacted
  BY <1>1, <1>4, EntryKinds DEF Compacted
<1>. QED BY <1>2, <1>3, <1>4

LEMMA EndSummaryKeeps == ASSUME KeptInv, EndSummary PROVE KeptInv'
<1>1. PICK o \in {Outcome(entries, leaf)} \cup Navigated \cup Compacted :
        FlushAll(o.entries, o.leaf, writes) \/ FlushSome(o.entries, o.leaf, writes)
  BY DEF EndSummary
<1>2. Continues(o.entries, entries) /\ IsSeq(o.entries) /\ IsSeq(entries) /\ writes \in Nat
  BY EditsAreSilent, KeptTypes DEF KeptInv, Continues
<1>3. Continues(entries', o.entries) /\ writes' \in Nat
  BY <1>1, <1>2, FlushIsSilent
<1>4. Continues(entries', entries)
  BY <1>2, <1>3, ContinuesOnward
<1>. QED BY <1>3, <1>4, ClientKeeps DEF EndSummary, queues, clients

LEMMA CrashKeeps == ASSUME KeptInv, Crash PROVE KeptInv'
<1>. USE DEF KeptInv
<1>1. /\ entries' = entries /\ sent' = sent /\ sent \in Nat /\ writes' = 0
      /\ run' = IdleRun /\ accept' = FALSE /\ steering' = <<>> /\ followUp' = <<>> /\ nextTurn' = <<>>
      /\ gone' = {m \in 1 .. sent : \A i \in DOMAIN entries : entries[i].msg # m}
  BY DEF Crash, Kept
<1>2. {"at", "pending"} \subseteq DOMAIN run' /\ run'.at = "idle" /\ run'.pending = <<>>
  BY <1>1 DEF IdleRun
<1>3. Queues' /\ InOnePlace' /\ Unrecorded' = gone'
  BY <1>1, <1>2, EmptyQueue DEF Queues, InOnePlace, Unrecorded, Disjoint
<1>4. SentIn(entries) \subseteq 1 .. sent
  BY DEF Kept, Partition
<1>5. gone' = (1 .. sent) \ SentIn(entries)
  BY <1>1 DEF SentIn
<1>6. Partition'
  BY <1>1, <1>3, <1>4, <1>5 DEF Partition, Disjoint
<1>7. Kept'
  BY <1>1, <1>3, <1>6 DEF Kept
<1>. QED BY <1>1, <1>2, <1>7 DEF RunHolds

-----------------------------------------------------------------------------
(* The property *)

LEMMA ApartSizes ==
  ASSUME NEW S, NEW T, IsFiniteSet(S), IsFiniteSet(T), Disjoint(S, T)
  PROVE  IsFiniteSet(S \cup T) /\ Cardinality(S \cup T) = Cardinality(S) + Cardinality(T)
         /\ Cardinality(S) \in Nat /\ Cardinality(T) \in Nat
<1>1. Cardinality(S \cap T) = 0
  BY FS_EmptySet DEF Disjoint
<1>2. Cardinality(S) \in Nat /\ Cardinality(T) \in Nat
  BY FS_CardinalityType
<1>3. /\ IsFiniteSet(S \cup T)
      /\ Cardinality(S \cup T) = Cardinality(S) + Cardinality(T) - Cardinality(S \cap T)
  BY FS_Union
<1>. QED BY <1>1, <1>2, <1>3

\* As many entries carry a message as messages are recorded.
LEMMA EntriesCount ==
  ASSUME Kept
  PROVE  Cardinality({i \in DOMAIN entries : entries[i].msg # 0}) = Cardinality(Recorded)
         /\ IsFiniteSet(Recorded)
<1>. DEFINE D == {i \in DOMAIN entries : entries[i].msg # 0}
            f == [i \in D |-> entries[i].msg]
<1>1. Len(entries) \in Nat /\ DOMAIN entries = 1 .. Len(entries)
  BY SeqFacts, KeptTypes
<1>2. IsFiniteSet(D)
  <2>1. IsFiniteSet(1 .. Len(entries)) /\ D \in SUBSET (1 .. Len(entries))
    BY <1>1, FS_Interval
  <2>. QED BY <2>1, FS_Subset
<1>3. f \in Bijection(D, Recorded)
  BY DEF Kept, RecordedOnce, Recorded, Bijection, Injection, Surjection, IsInjective
<1>. HIDE DEF D, f
<1>4. ExistsBijection(D, Recorded)
  BY <1>3 DEF ExistsBijection
<1>5. IsFiniteSet(Recorded) /\ Cardinality(Recorded) = Cardinality(D)
  BY <1>2, <1>4, FS_Bijection
<1>. QED BY <1>5 DEF D

LEMMA AllCounted ==
  ASSUME Kept
  PROVE  Cardinality(Recorded) + Cardinality(gone) + Len(run.pending) + Len(steering)
           + Len(followUp) + Len(nextTurn) = sent
<1>. DEFINE P == Range(run.pending)
            S == Range(steering)
            F == Range(followUp)
            N == Range(nextTurn)
<1>1. /\ IsFiniteSet(P) /\ Cardinality(P) = Len(run.pending)
      /\ IsFiniteSet(S) /\ Cardinality(S) = Len(steering)
      /\ IsFiniteSet(F) /\ Cardinality(F) = Len(followUp)
      /\ IsFiniteSet(N) /\ Cardinality(N) = Len(nextTurn)
  BY QueueSize, KeptTypes
<1>2. Recorded = SentIn(entries) /\ IsFiniteSet(Recorded)
  BY EntriesCount DEF Recorded, SentIn
<1>3. sent \in Nat /\ IsFiniteSet(1 .. sent) /\ Cardinality(1 .. sent) = sent
  <2>1. sent \in Nat /\ sent \in Int /\ 1 \in Int /\ (IF 1 > sent THEN 0 ELSE sent - 1 + 1) = sent
    BY DEF Kept
  <2>. QED BY <2>1, FS_Interval
<1>4. /\ Recorded \cup (gone \cup (P \cup (S \cup (F \cup N)))) = 1 .. sent
      /\ Disjoint(Recorded, gone \cup (P \cup (S \cup (F \cup N))))
      /\ Disjoint(gone, P \cup (S \cup (F \cup N))) /\ Disjoint(P, S \cup (F \cup N))
      /\ Disjoint(S, F \cup N) /\ Disjoint(F, N)
  BY <1>2 DEF Kept, Partition, InOnePlace, Unrecorded, Disjoint
<1>5. IsFiniteSet(gone)
  BY <1>3, <1>4, FS_Subset
<1>. HIDE DEF P, S, F, N
<1>6. IsFiniteSet(F \cup N) /\ Cardinality(F \cup N) = Cardinality(F) + Cardinality(N)
  BY <1>1, <1>4, ApartSizes
<1>7. /\ IsFiniteSet(S \cup (F \cup N))
      /\ Cardinality(S \cup (F \cup N)) = Cardinality(S) + Cardinality(F \cup N)
  BY <1>1, <1>4, <1>6, ApartSizes
<1>8. /\ IsFiniteSet(P \cup (S \cup (F \cup N)))
      /\ Cardinality(P \cup (S \cup (F \cup N))) = Cardinality(P) + Cardinality(S \cup (F \cup N))
  BY <1>1, <1>4, <1>7, ApartSizes
<1>9. /\ IsFiniteSet(gone \cup (P \cup (S \cup (F \cup N))))
      /\ Cardinality(gone \cup (P \cup (S \cup (F \cup N))))
           = Cardinality(gone) + Cardinality(P \cup (S \cup (F \cup N)))
  BY <1>4, <1>5, <1>8, ApartSizes
<1>10. Cardinality(1 .. sent) = Cardinality(Recorded) + Cardinality(gone \cup (P \cup (S \cup (F \cup N))))
  BY <1>2, <1>4, <1>9, ApartSizes
<1>11. /\ Cardinality(Recorded) \in Nat /\ Cardinality(gone) \in Nat /\ Cardinality(P) \in Nat
       /\ Cardinality(S) \in Nat /\ Cardinality(F) \in Nat /\ Cardinality(N) \in Nat
  BY <1>1, <1>2, <1>5, FS_CardinalityType
<1>12. sent = Cardinality(Recorded) + (Cardinality(gone) + (Cardinality(P) + (Cardinality(S)
                + (Cardinality(F) + Cardinality(N)))))
  BY <1>3, <1>6, <1>7, <1>8, <1>9, <1>10
<1>13. \A a, b, c, d, e, g \in Nat : a + (b + (c + (d + (e + g)))) = a + b + c + d + e + g
  OBVIOUS
<1>14. Cardinality(Recorded) + Cardinality(gone) + Cardinality(P) + Cardinality(S)
         + Cardinality(F) + Cardinality(N) = sent
  BY <1>11, <1>12, <1>13
<1>. QED BY <1>1, <1>14

LEMMA InvGives == ASSUME KeptInv PROVE MessagesKept
<1>1. 1 .. sent = Recorded \cup gone \cup Range(run.pending)
                    \cup Range(steering) \cup Range(followUp) \cup Range(nextTurn)
  BY DEF KeptInv, Kept, Partition, Unrecorded, Recorded, SentIn
<1>2. steering \o followUp # <<>> => steering # <<>> \/ followUp # <<>>
  BY KeptTypes, ConcatEmptySeq, EmptySeq
<1>3. QueuesAreRead
  BY <1>2 DEF QueuesAreRead, KeptInv, RunHolds
<1>. QED BY <1>1, <1>3, AllCounted, EntriesCount DEF KeptInv, MessagesKept

\* Every message that a client sent is recorded once, or waits in one queue that
\* is read, or is held by the run, or was given up: neither the flushes of the
\* waiting writes, nor Abort, failed appends, the limit of turns, navigation,
\* compaction and restarts, between any two locks, lose or repeat one.
THEOREM MessagesAreKept == Spec => []MessagesKept
<1>1. Init => KeptInv
  BY Initially
<1>2. KeptInv /\ [Next]_vars => KeptInv'
  <2>. SUFFICES ASSUME KeptInv, [Next]_vars PROVE KeptInv'
    OBVIOUS
  <2>1. CASE Begin \/ Attach
    BY <2>1, BeginKeeps, AttachKeeps
  <2>2. CASE RecordMessage \/ FirstPoll \/ CallModel \/ Stream \/ RunTools \/ RecordResult
               \/ ToolsInterrupted \/ RecordFailure
    BY <2>2, RecordMessageKeeps, FirstPollKeeps, QuietSteps, StreamKeeps, RecordResultKeeps, RecordFailureKeeps
  <2>3. CASE TurnEnd \/ PrepareNextTurn \/ AgentEnd \/ FinishRun \/ SettleRun
    BY <2>3, TurnEndKeeps, PrepareKeeps, EndKeeps, SettleKeeps
  <2>4. CASE Steer \/ FollowUp \/ NextTurn \/ SetModel \/ Abort \/ Cancel \/ BeginSummary
    BY <2>4, EnqueueKeeps, SetModelKeeps, AbortKeeps, CancelKeeps, BeginSummaryKeeps
  <2>5. CASE EndSummary \/ Crash
    BY <2>5, EndSummaryKeeps, CrashKeeps
  <2>6. CASE UNCHANGED vars
    <3>1. UNCHANGED <<run, sent, gone, accept, steering, followUp, nextTurn, entries, writes>>
      BY <2>6 DEF vars, history, queues, clients
    <3>. QED BY <3>1, ClientKeeps, KeptTypes DEF KeptInv
  <2>. QED BY <2>1, <2>2, <2>3, <2>4, <2>5, <2>6 DEF Next, Loop, Clients
<1>3. KeptInv => MessagesKept
  BY InvGives
<1>. QED BY <1>1, <1>2, <1>3, PTL DEF Spec
=============================================================================
