--------------------------- MODULE RunStream_proofs ---------------------------
(***************************************************************************)
(* Proofs about the two streams of a run.  RunStream, for every set of      *)
(* clients, every size of a frame and every limit: what the budgets count   *)
(* is what is there, and what a client receives is what RunLog allows.      *)
(* ProviderStream, for every set of chunks, number of them and capacity:    *)
(* the events of an answer fit together and the listeners are told of a     *)
(* whole message.                                                           *)
(***************************************************************************)
EXTENDS RunStream, ProviderStream, FiniteSetTheorems, SequenceTheorems, WellFoundedInduction, TLAPS

(* Sums over finite sets and along sequences. *)

\* Induction over the natural numbers, for a set.
LEMMA SetInduction ==
  ASSUME NEW S, 0 \in S, \A n \in Nat : n \in S => n + 1 \in S
  PROVE  Nat \subseteq S
<1>. DEFINE T == Nat \ S
            R == OpToRel(<, Nat)
<1>. SUFFICES ASSUME T # {} PROVE FALSE
  OBVIOUS
<1>1. PICK x \in T : \A y \in T : ~(<<y, x>> \in R)
  BY WFMin, NatLessThanWellFounded
<1>2. x \in Nat /\ x \notin S /\ \A y \in T : ~(y < x)
  BY <1>1 DEF OpToRel
<1>3. x # 0 /\ x - 1 \in Nat
  BY <1>2
<1>4. x - 1 \notin T
  BY <1>2, <1>3
<1>5. (x - 1) + 1 \in S
  BY <1>3, <1>4
<1>. QED BY <1>2, <1>5

\* g gives the sum of f over each subset of S.
IsSum(g, f, S) ==
  /\ g \in [SUBSET S -> Nat] /\ g[{}] = 0
  /\ \A T \in SUBSET S : \A x \in S \ T : g[T \cup {x}] = f[x] + g[T]

LEMMA SumExists ==
  ASSUME NEW S, IsFiniteSet(S), NEW f, \A x \in S : f[x] \in Nat
  PROVE  \E g : IsSum(g, f, S)
<1>. DEFINE C == {n \in Nat : \A R \in SUBSET S : Cardinality(R) = n => \E g : IsSum(g, f, R)}
<1>1. \A R \in SUBSET S : IsFiniteSet(R) /\ Cardinality(R) \in Nat
  BY FS_Subset, FS_CardinalityType
<1>2. 0 \in C
  <2>1. ASSUME NEW R \in SUBSET S, Cardinality(R) = 0 PROVE \E g : IsSum(g, f, R)
    <3>1. R = {}
      BY <1>1, <2>1, FS_EmptySet
    <3>2. IsSum([T \in SUBSET R |-> 0], f, R)
      BY <3>1 DEF IsSum
    <3>. QED BY <3>2
  <2>. QED BY <2>1
<1>3. ASSUME NEW n \in Nat, n \in C PROVE n + 1 \in C
  <2>1. ASSUME NEW R \in SUBSET S, Cardinality(R) = n + 1 PROVE \E g : IsSum(g, f, R)
    <3>1. R # {}
      BY <2>1, FS_EmptySet
    <3>2. PICK a \in R : TRUE
      BY <3>1
    <3>. DEFINE Q == R \ {a}
    <3>3. Q \in SUBSET S /\ Cardinality(Q) = n
      <4>1. IsFiniteSet(R) /\ Cardinality(R \ {a}) = Cardinality(R) - 1
        BY <1>1, FS_RemoveElement
      <4>. QED BY <2>1, <4>1
    <3>4. PICK g : IsSum(g, f, Q)
      BY <1>3, <3>3
    <3>. DEFINE h == [T \in SUBSET R |-> IF a \in T THEN f[a] + g[T \ {a}] ELSE g[T]]
    <3>5. f[a] \in Nat
      OBVIOUS
    <3>6. \A T \in SUBSET R : T \ {a} \in SUBSET Q /\ (a \notin T => T \in SUBSET Q)
      OBVIOUS
    <3>7. /\ g \in [SUBSET Q -> Nat] /\ g[{}] = 0
          /\ \A T \in SUBSET Q : \A x \in Q \ T : g[T \cup {x}] = f[x] + g[T]
      BY <3>4 DEF IsSum
    <3>. HIDE DEF Q
    <3>8. h \in [SUBSET R -> Nat] /\ h[{}] = 0
      BY <3>5, <3>6, <3>7
    <3>9. ASSUME NEW T \in SUBSET R, NEW x \in R \ T PROVE h[T \cup {x}] = f[x] + h[T]
      <4>1. T \cup {x} \in SUBSET R
        OBVIOUS
      <4>2. CASE x = a
        <5>1. (T \cup {x}) \ {a} = T /\ a \notin T
          BY <4>2
        <5>. QED BY <4>1, <4>2, <5>1
      <4>3. CASE x # a /\ a \in T
        <5>1. (T \cup {x}) \ {a} = (T \ {a}) \cup {x} /\ x \in Q \ (T \ {a}) /\ T \ {a} \in SUBSET Q
          BY <4>3, <3>6 DEF Q
        <5>2. g[(T \cup {x}) \ {a}] = f[x] + g[T \ {a}]
          BY <3>7, <5>1
        <5>3. h[T \cup {x}] = f[a] + g[(T \cup {x}) \ {a}] /\ h[T] = f[a] + g[T \ {a}]
          BY <4>1, <4>3
        <5>4. f[x] \in Nat /\ g[T \ {a}] \in Nat
          BY <3>7, <5>1
        <5>. HIDE DEF h
        <5>. QED BY <3>5, <5>2, <5>3, <5>4
      <4>4. CASE x # a /\ a \notin T
        <5>1. a \notin T \cup {x} /\ T \in SUBSET Q /\ x \in Q \ T
          BY <4>4 DEF Q
        <5>. QED BY <3>7, <4>1, <4>4, <5>1
      <4>. QED BY <4>2, <4>3, <4>4
    <3>10. IsSum(h, f, R)
      BY <3>8, <3>9 DEF IsSum
    <3>. QED BY <3>10
  <2>. QED BY <2>1
<1>4. Nat \subseteq C
  <2>. HIDE DEF C
  <2>. QED BY <1>2, <1>3, SetInduction
<1>. QED BY <1>1, <1>4

\* The sum of the library is that sum.
LEMMA SumIs ==
  ASSUME NEW S, IsFiniteSet(S), NEW f, NEW g, IsSum(g, f, S)
  PROVE  SumFunctionOnSet(f, S) = g[S]
<1>. DEFINE pick(T) == CHOOSE x \in T : TRUE
            step(h) == [T \in SUBSET S |-> IF T = {} THEN 0 ELSE f[pick(T)] + h[T \ {pick(T)}]]
            iter    == CHOOSE h : h = step(h)
<1>1. SumFunctionOnSet(f, S) = iter[S]
  BY DEF SumFunctionOnSet, FoldFunctionOnSet, MapThenFoldSet
<1>2. /\ g \in [SUBSET S -> Nat] /\ g[{}] = 0
      /\ \A T \in SUBSET S : \A x \in S \ T : g[T \cup {x}] = f[x] + g[T]
  BY DEF IsSum
<1>3. ASSUME NEW T \in SUBSET S, T # {}
      PROVE  /\ pick(T) \in T /\ T \ {pick(T)} \in SUBSET S
             /\ g[T] = f[pick(T)] + g[T \ {pick(T)}]
  <2>1. pick(T) \in T
    BY <1>3
  <2>2. (T \ {pick(T)}) \cup {pick(T)} = T /\ pick(T) \in S \ (T \ {pick(T)})
    BY <2>1
  <2>3. T \ {pick(T)} \in SUBSET S
    OBVIOUS
  <2>. HIDE DEF pick
  <2>. QED BY <1>2, <2>1, <2>2, <2>3
<1>. HIDE DEF pick
<1>4. g = step(g)
  BY <1>2, <1>3
<1>5. iter = step(iter)
  BY <1>4
<1>. HIDE DEF iter
<1>. DEFINE C == {n \in Nat : \A T \in SUBSET S : Cardinality(T) = n => iter[T] = g[T]}
<1>6. \A T \in SUBSET S : IsFiniteSet(T) /\ Cardinality(T) \in Nat
  BY FS_Subset, FS_CardinalityType
<1>7. iter[{}] = 0 /\ \A T \in SUBSET S : T # {} => iter[T] = f[pick(T)] + iter[T \ {pick(T)}]
  BY <1>5
<1>8. 0 \in C
  BY <1>2, <1>6, <1>7, FS_EmptySet
<1>9. ASSUME NEW n \in Nat, n \in C PROVE n + 1 \in C
  <2>1. ASSUME NEW T \in SUBSET S, Cardinality(T) = n + 1 PROVE iter[T] = g[T]
    <3>1. T # {}
      BY <2>1, FS_EmptySet
    <3>2. pick(T) \in T /\ T \ {pick(T)} \in SUBSET S
      BY <1>3, <3>1
    <3>3. Cardinality(T \ {pick(T)}) = n
      <4>1. IsFiniteSet(T) /\ Cardinality(T \ {pick(T)}) = Cardinality(T) - 1
        BY <1>6, <3>2, FS_RemoveElement
      <4>. QED BY <2>1, <4>1
    <3>4. iter[T \ {pick(T)}] = g[T \ {pick(T)}]
      BY <1>9, <3>2, <3>3
    <3>. QED BY <1>3, <1>7, <3>1, <3>4
  <2>. QED BY <2>1
<1>10. Nat \subseteq C
  <2>. HIDE DEF C
  <2>. QED BY <1>8, <1>9, SetInduction
<1>11. S \in SUBSET S /\ Cardinality(S) \in Nat
  BY <1>6
<1>12. iter[S] = g[S]
  BY <1>10, <1>11
<1>. QED BY <1>1, <1>12

\* Whatever adds up like the sum is the sum, and there is such a function.
LEMMA SumUnique ==
  ASSUME NEW S, IsFiniteSet(S), NEW f, NEW g, IsSum(g, f, S), NEW T \in SUBSET S
  PROVE  SumFunctionOnSet(f, T) = g[T]
<1>. DEFINE h == [U \in SUBSET T |-> g[U]]
<1>1. /\ g \in [SUBSET S -> Nat] /\ g[{}] = 0
      /\ \A U \in SUBSET S : \A x \in S \ U : g[U \cup {x}] = f[x] + g[U]
  BY DEF IsSum
<1>2. h \in [SUBSET T -> Nat] /\ h[{}] = 0
  BY <1>1
<1>3. ASSUME NEW U \in SUBSET T, NEW x \in T \ U PROVE h[U \cup {x}] = f[x] + h[U]
  <2>1. U \in SUBSET S /\ x \in S \ U /\ U \cup {x} \in SUBSET T
    OBVIOUS
  <2>2. g[U \cup {x}] = f[x] + g[U]
    BY <1>1, <2>1
  <2>. QED BY <2>1, <2>2
<1>4. IsSum(h, f, T) /\ h[T] = g[T]
  BY <1>2, <1>3 DEF IsSum
<1>5. IsFiniteSet(T)
  BY FS_Subset
<1>. HIDE DEF h
<1>. QED BY <1>4, <1>5, SumIs

LEMMA SumLaws ==
  ASSUME NEW S, IsFiniteSet(S), NEW f, \A x \in S : f[x] \in Nat
  PROVE  /\ SumFunctionOnSet(f, {}) = 0
         /\ \A T \in SUBSET S : SumFunctionOnSet(f, T) \in Nat
         /\ \A T \in SUBSET S : \A x \in S \ T :
              SumFunctionOnSet(f, T \cup {x}) = f[x] + SumFunctionOnSet(f, T)
<1>1. PICK g : IsSum(g, f, S)
  BY SumExists
<1>2. \A T \in SUBSET S : SumFunctionOnSet(f, T) = g[T]
  BY <1>1, SumUnique
<1>3. /\ g \in [SUBSET S -> Nat] /\ g[{}] = 0
      /\ \A T \in SUBSET S : \A x \in S \ T : g[T \cup {x}] = f[x] + g[T]
  BY <1>1 DEF IsSum
<1>4. ASSUME NEW T \in SUBSET S, NEW x \in S \ T
      PROVE  SumFunctionOnSet(f, T \cup {x}) = f[x] + SumFunctionOnSet(f, T)
  <2>1. T \cup {x} \in SUBSET S
    OBVIOUS
  <2>. QED BY <1>2, <1>3, <2>1
<1>. QED BY <1>2, <1>3, <1>4

LEMMA SumSame ==
  ASSUME NEW S, IsFiniteSet(S), NEW f, NEW g, \A x \in S : f[x] \in Nat /\ g[x] = f[x]
  PROVE  SumFunctionOnSet(f, S) = SumFunctionOnSet(g, S)
<1>. DEFINE h == [T \in SUBSET S |-> SumFunctionOnSet(g, T)]
<1>1. /\ SumFunctionOnSet(g, {}) = 0
      /\ \A T \in SUBSET S : SumFunctionOnSet(g, T) \in Nat
      /\ \A T \in SUBSET S : \A x \in S \ T :
           SumFunctionOnSet(g, T \cup {x}) = g[x] + SumFunctionOnSet(g, T)
  BY SumLaws
<1>2. ASSUME NEW T \in SUBSET S, NEW x \in S \ T PROVE h[T \cup {x}] = f[x] + h[T]
  <2>1. T \cup {x} \in SUBSET S /\ f[x] = g[x]
    OBVIOUS
  <2>. QED BY <1>1, <2>1
<1>3. IsSum(h, f, S) /\ h[S] = SumFunctionOnSet(g, S)
  BY <1>1, <1>2 DEF IsSum
<1>. HIDE DEF h
<1>4. S \in SUBSET S
  OBVIOUS
<1>. QED BY <1>3, <1>4, SumUnique

LEMMA SumUnion ==
  ASSUME NEW A, NEW B, IsFiniteSet(A), IsFiniteSet(B), A \cap B = {},
         NEW f, \A x \in A \cup B : f[x] \in Nat
  PROVE  SumFunctionOnSet(f, A \cup B) = SumFunctionOnSet(f, A) + SumFunctionOnSet(f, B)
<1>. DEFINE h == [T \in SUBSET B |-> SumFunctionOnSet(f, A \cup T) - SumFunctionOnSet(f, A)]
<1>1. IsFiniteSet(A \cup B)
  BY FS_Union
<1>2. /\ \A T \in SUBSET (A \cup B) : SumFunctionOnSet(f, T) \in Nat
      /\ \A T \in SUBSET (A \cup B) : \A x \in (A \cup B) \ T :
           SumFunctionOnSet(f, T \cup {x}) = f[x] + SumFunctionOnSet(f, T)
  BY <1>1, SumLaws
<1>3. SumFunctionOnSet(f, A) \in Nat
  BY <1>2
<1>. DEFINE N == {T \in SUBSET B : SumFunctionOnSet(f, A \cup T) - SumFunctionOnSet(f, A) \in Nat}
            C == {n \in Nat : \A T \in SUBSET B : Cardinality(T) = n => T \in N}
<1>4. \A T \in SUBSET B : IsFiniteSet(T) /\ Cardinality(T) \in Nat
  BY FS_Subset, FS_CardinalityType
<1>5. ASSUME NEW T \in SUBSET B, NEW x \in B \ T
      PROVE  /\ A \cup T \in SUBSET (A \cup B)
             /\ SumFunctionOnSet(f, A \cup (T \cup {x})) = f[x] + SumFunctionOnSet(f, A \cup T)
  <2>1. A \cup T \in SUBSET (A \cup B) /\ x \in (A \cup B) \ (A \cup T)
        /\ A \cup (T \cup {x}) = (A \cup T) \cup {x}
    OBVIOUS
  <2>. QED BY <1>2, <2>1
<1>6. 0 \in C
  <2>1. ASSUME NEW T \in SUBSET B, Cardinality(T) = 0 PROVE T \in N
    <3>1. A \cup T = A
      BY <1>4, <2>1, FS_EmptySet
    <3>. QED BY <1>3, <3>1
  <2>. QED BY <2>1
<1>7. ASSUME NEW n \in Nat, n \in C PROVE n + 1 \in C
  <2>1. ASSUME NEW T \in SUBSET B, Cardinality(T) = n + 1 PROVE T \in N
    <3>1. T # {}
      BY <2>1, FS_EmptySet
    <3>2. PICK x \in T : TRUE
      BY <3>1
    <3>3. IsFiniteSet(T) /\ Cardinality(T \ {x}) = Cardinality(T) - 1
      BY <1>4, FS_RemoveElement
    <3>4. T \ {x} \in SUBSET B /\ Cardinality(T \ {x}) = n
      BY <2>1, <3>3
    <3>5. T \ {x} \in N
      BY <1>7, <3>4
    <3>6. SumFunctionOnSet(f, A \cup (T \ {x})) - SumFunctionOnSet(f, A) \in Nat
      BY <3>5
    <3>7. x \in B \ (T \ {x}) /\ (T \ {x}) \cup {x} = T
      OBVIOUS
    <3>8. /\ SumFunctionOnSet(f, A \cup T) = f[x] + SumFunctionOnSet(f, A \cup (T \ {x}))
          /\ A \cup (T \ {x}) \in SUBSET (A \cup B)
      BY <1>5, <3>4, <3>7
    <3>9. SumFunctionOnSet(f, A \cup (T \ {x})) \in Nat /\ f[x] \in Nat
      BY <1>2, <3>8
    <3>10. SumFunctionOnSet(f, A \cup T) - SumFunctionOnSet(f, A) \in Nat
      BY <1>3, <3>6, <3>8, <3>9
    <3>. QED BY <3>10
  <2>. QED BY <2>1
<1>8. Nat \subseteq C
  <2>. HIDE DEF C
  <2>. QED BY <1>6, <1>7, SetInduction
<1>9. \A T \in SUBSET B : T \in N
  BY <1>4, <1>8
<1>10. h \in [SUBSET B -> Nat] /\ h[{}] = 0
  <2>1. \A T \in SUBSET B : SumFunctionOnSet(f, A \cup T) - SumFunctionOnSet(f, A) \in Nat
    BY <1>9
  <2>2. A \cup {} = A
    OBVIOUS
  <2>. QED BY <1>3, <2>1, <2>2
<1>11. ASSUME NEW T \in SUBSET B, NEW x \in B \ T PROVE h[T \cup {x}] = f[x] + h[T]
  <2>1. SumFunctionOnSet(f, A \cup (T \cup {x})) = f[x] + SumFunctionOnSet(f, A \cup T)
    BY <1>5
  <2>2. SumFunctionOnSet(f, A \cup T) \in Nat /\ f[x] \in Nat
    BY <1>2, <1>5
  <2>3. /\ h[T \cup {x}] = SumFunctionOnSet(f, A \cup (T \cup {x})) - SumFunctionOnSet(f, A)
        /\ h[T] = SumFunctionOnSet(f, A \cup T) - SumFunctionOnSet(f, A)
    OBVIOUS
  <2>. HIDE DEF h
  <2>. QED BY <1>3, <2>1, <2>2, <2>3
<1>12. IsSum(h, f, B)
  BY <1>10, <1>11 DEF IsSum
<1>13. B \in SUBSET B /\ h[B] = SumFunctionOnSet(f, A \cup B) - SumFunctionOnSet(f, A)
  OBVIOUS
<1>14. SumFunctionOnSet(f, A \cup B) \in Nat
  BY <1>2
<1>. HIDE DEF h
<1>15. SumFunctionOnSet(f, B) = h[B]
  BY <1>12, <1>13, SumUnique
<1>. QED BY <1>3, <1>13, <1>14, <1>15

\* Further along f are the values of g.
Shifted(f, g, k, n) == \A i \in 1 .. n : g[i] \in Nat /\ f[k + i] = g[i]

LEMMA SumShift ==
  ASSUME NEW k \in Nat, NEW n \in Nat, NEW f, NEW g, Shifted(f, g, k, n)
  PROVE  SumFunctionOnSet(f, (k + 1) .. (k + n)) = SumFunctionOnSet(g, 1 .. n)
<1>. USE DEF Shifted
<1>. DEFINE by(T) == {k + i : i \in T}
            h == [T \in SUBSET (1 .. n) |-> SumFunctionOnSet(f, by(T))]
<1>1. IsFiniteSet(1 .. n) /\ IsFiniteSet((k + 1) .. (k + n))
  BY FS_Interval
<1>2. \A j \in (k + 1) .. (k + n) : f[j] \in Nat
  <2>1. ASSUME NEW j \in (k + 1) .. (k + n) PROVE f[j] \in Nat
    <3>1. j - k \in 1 .. n /\ k + (j - k) = j
      OBVIOUS
    <3>. QED BY <3>1
  <2>. QED BY <2>1
<1>3. /\ SumFunctionOnSet(f, {}) = 0
      /\ \A T \in SUBSET ((k + 1) .. (k + n)) : SumFunctionOnSet(f, T) \in Nat
      /\ \A T \in SUBSET ((k + 1) .. (k + n)) : \A x \in ((k + 1) .. (k + n)) \ T :
           SumFunctionOnSet(f, T \cup {x}) = f[x] + SumFunctionOnSet(f, T)
  <2>. DEFINE S == (k + 1) .. (k + n)
  <2>1. IsFiniteSet(S) /\ \A j \in S : f[j] \in Nat
    BY <1>1, <1>2
  <2>. HIDE DEF S
  <2>2. /\ SumFunctionOnSet(f, {}) = 0
        /\ \A T \in SUBSET S : SumFunctionOnSet(f, T) \in Nat
        /\ \A T \in SUBSET S : \A x \in S \ T :
             SumFunctionOnSet(f, T \cup {x}) = f[x] + SumFunctionOnSet(f, T)
    BY <2>1, SumLaws
  <2>. QED BY <2>2 DEF S
<1>4. \A T \in SUBSET (1 .. n) : by(T) \in SUBSET ((k + 1) .. (k + n))
  OBVIOUS
<1>5. by({}) = {}
  OBVIOUS
<1>6. h \in [SUBSET (1 .. n) -> Nat] /\ h[{}] = 0
  <2>. HIDE DEF by
  <2>. QED BY <1>3, <1>4, <1>5
<1>7. ASSUME NEW T \in SUBSET (1 .. n), NEW x \in (1 .. n) \ T PROVE h[T \cup {x}] = g[x] + h[T]
  <2>1. by(T \cup {x}) = by(T) \cup {k + x}
    OBVIOUS
  <2>2. k + x \in ((k + 1) .. (k + n)) \ by(T)
    OBVIOUS
  <2>3. T \cup {x} \in SUBSET (1 .. n) /\ f[k + x] = g[x]
    OBVIOUS
  <2>. HIDE DEF by
  <2>. QED BY <1>3, <1>4, <2>1, <2>2, <2>3, ZenonT(40)
<1>8. IsSum(h, g, 1 .. n)
  BY <1>6, <1>7 DEF IsSum
<1>9. by(1 .. n) = (k + 1) .. (k + n)
  <2>1. ASSUME NEW j \in (k + 1) .. (k + n) PROVE j \in by(1 .. n)
    <3>1. j - k \in 1 .. n /\ k + (j - k) = j
      OBVIOUS
    <3>. QED BY <3>1
  <2>. QED BY <1>4, <2>1
<1>10. 1 .. n \in SUBSET (1 .. n) /\ h[1 .. n] = SumFunctionOnSet(f, (k + 1) .. (k + n))
  BY <1>9
<1>. HIDE DEF h
<1>. QED BY <1>1, <1>8, <1>10, SumUnique

-----------------------------------------------------------------------------
\* The bytes of frames whose sizes are those of z.
Weight(z, fs) == SumFunction([i \in DOMAIN fs |-> z[fs[i]]])

LEMMA WeightIs ==
  ASSUME NEW F, NEW z, \A n \in F : z[n] \in Nat, NEW fs \in Seq(F)
  PROVE  /\ DOMAIN fs = 1 .. Len(fs) /\ IsFiniteSet(1 .. Len(fs)) /\ Len(fs) \in Nat
         /\ \A i \in 1 .. Len(fs) : z[fs[i]] \in Nat
         /\ Weight(z, fs) = SumFunctionOnSet([i \in 1 .. Len(fs) |-> z[fs[i]]], 1 .. Len(fs))
         /\ Weight(z, fs) \in Nat
<1>1. Len(fs) \in Nat /\ DOMAIN fs = 1 .. Len(fs) /\ \A i \in 1 .. Len(fs) : fs[i] \in F
  BY LenProperties, ElementOfSeq
<1>2. IsFiniteSet(1 .. Len(fs))
  BY <1>1, FS_Interval
<1>. DEFINE D == 1 .. Len(fs)
            f == [i \in D |-> z[fs[i]]]
<1>3. Weight(z, fs) = SumFunctionOnSet(f, D)
  BY <1>1 DEF Weight, SumFunction
<1>4. \A i \in D : f[i] \in Nat /\ z[fs[i]] \in Nat
  BY <1>1
<1>5. SumFunctionOnSet(f, D) \in Nat
  <2>1. IsFiniteSet(D) /\ D \in SUBSET D
    BY <1>2
  <2>. HIDE DEF D, f
  <2>. QED BY <1>4, <2>1, SumLaws
<1>. QED BY <1>1, <1>2, <1>3, <1>4, <1>5

LEMMA WeightEmpty == ASSUME NEW z PROVE Weight(z, <<>>) = 0
<1>1. \A x \in {} : [i \in {} |-> z[<<>>[i]]][x] \in Nat
  OBVIOUS
<1>2. Weight(z, <<>>) = SumFunctionOnSet([i \in {} |-> z[<<>>[i]]], {})
  <2>1. DOMAIN <<>> = {}
    OBVIOUS
  <2>. QED BY <2>1 DEF Weight, SumFunction
<1>3. IsFiniteSet({})
  BY FS_EmptySet
<1>. QED BY <1>1, <1>2, <1>3, SumLaws

LEMMA WeightSingle ==
  ASSUME NEW z, NEW n, z[n] \in Nat
  PROVE  Weight(z, <<n>>) = z[n]
<1>. DEFINE f == [i \in 1 .. 1 |-> z[n]]
<1>1. Weight(z, <<n>>) = SumFunctionOnSet(f, 1 .. 1)
  <2>1. DOMAIN <<n>> = 1 .. 1 /\ [i \in DOMAIN <<n>> |-> z[<<n>>[i]]] = f
    OBVIOUS
  <2>. QED BY <2>1 DEF Weight, SumFunction
<1>2. /\ 1 .. 1 = {1} /\ {1} = {} \cup {1} /\ 1 \in {1} \ {} /\ {} \in SUBSET {1}
      /\ \A x \in {1} : f[x] \in Nat
      /\ f[1] = z[n]
  OBVIOUS
<1>3. IsFiniteSet({1})
  BY FS_Singleton
<1>. HIDE DEF f
<1>4. /\ SumFunctionOnSet(f, {}) = 0
      /\ SumFunctionOnSet(f, {} \cup {1}) = f[1] + SumFunctionOnSet(f, {})
  BY <1>2, <1>3, SumLaws
<1>. QED BY <1>1, <1>2, <1>4

LEMMA WeightConcat ==
  ASSUME NEW F, NEW z, \A n \in F : z[n] \in Nat, NEW s \in Seq(F), NEW t \in Seq(F)
  PROVE  Weight(z, s \o t) = Weight(z, s) + Weight(z, t)
<1>1. /\ s \o t \in Seq(F) /\ Len(s) \in Nat /\ Len(t) \in Nat /\ Len(s \o t) = Len(s) + Len(t)
      /\ \A i \in 1 .. Len(s) + Len(t) : (s \o t)[i] = IF i <= Len(s) THEN s[i] ELSE t[i - Len(s)]
  BY ConcatProperties, LenProperties
<1>. DEFINE m == Len(s)
            n == Len(t)
            f == [i \in 1 .. m + n |-> z[(s \o t)[i]]]
            g == [i \in 1 .. m |-> z[s[i]]]
            h == [i \in 1 .. n |-> z[t[i]]]
            A == 1 .. m
            B == (m + 1) .. (m + n)
<1>2. m \in Nat /\ n \in Nat /\ Len(s \o t) = m + n
  BY <1>1
<1>3. /\ Weight(z, s) = SumFunctionOnSet(g, 1 .. m)
      /\ \A i \in 1 .. m : z[s[i]] \in Nat
  BY WeightIs
<1>4. /\ Weight(z, t) = SumFunctionOnSet(h, 1 .. n)
      /\ \A i \in 1 .. n : z[t[i]] \in Nat
  BY WeightIs
<1>5. /\ Weight(z, s \o t) = SumFunctionOnSet(f, 1 .. (m + n))
      /\ \A i \in 1 .. (m + n) : z[(s \o t)[i]] \in Nat
  <2>1. /\ Weight(z, s \o t) = SumFunctionOnSet([i \in 1 .. Len(s \o t) |-> z[(s \o t)[i]]], 1 .. Len(s \o t))
        /\ \A i \in 1 .. Len(s \o t) : z[(s \o t)[i]] \in Nat
    BY <1>1, WeightIs
  <2>. QED BY <1>2, <2>1
<1>6. \A i \in A : f[i] \in Nat /\ g[i] = f[i]
  BY <1>1, <1>5
<1>7. \A i \in 1 .. n : h[i] \in Nat /\ f[m + i] = h[i]
  <2>1. ASSUME NEW i \in 1 .. n PROVE h[i] \in Nat /\ f[m + i] = h[i]
    <3>1. m + i \in 1 .. m + n /\ ~(m + i <= m) /\ (m + i) - m = i
      BY <1>2
    <3>2. (s \o t)[m + i] = t[i]
      BY <1>1, <3>1
    <3>. QED BY <1>4, <3>1, <3>2
  <2>. QED BY <2>1
<1>8. \A i \in 1 .. (m + n) : f[i] \in Nat
  BY <1>5
<1>9. A \cup B = 1 .. (m + n) /\ A \cap B = {}
  BY <1>2
<1>10. IsFiniteSet(A) /\ IsFiniteSet(B)
  BY <1>2, FS_Interval
<1>. HIDE DEF f, g, h
<1>. HIDE DEF m, n
<1>11. SumFunctionOnSet(f, B) = SumFunctionOnSet(h, 1 .. n)
  <2>1. Shifted(f, h, m, n)
    BY <1>7 DEF Shifted
  <2>. QED BY <1>2, <2>1, SumShift
<1>12. SumFunctionOnSet(f, A) = SumFunctionOnSet(g, A)
  BY <1>6, <1>10, SumSame
<1>13. \A i \in A \cup B : f[i] \in Nat
  BY <1>8, <1>9
<1>14. SumFunctionOnSet(f, A \cup B) = SumFunctionOnSet(f, A) + SumFunctionOnSet(f, B)
  <2>. HIDE DEF A, B
  <2>. QED BY <1>9, <1>10, <1>13, SumUnion
<1>. QED BY <1>3, <1>4, <1>5, <1>9, <1>11, <1>12, <1>14

LEMMA WeightSame ==
  ASSUME NEW F, NEW z, NEW y, \A n \in F : z[n] \in Nat /\ y[n] = z[n], NEW fs \in Seq(F)
  PROVE  Weight(y, fs) = Weight(z, fs)
<1>1. DOMAIN fs = 1 .. Len(fs) /\ \A i \in 1 .. Len(fs) : fs[i] \in F
  BY LenProperties, ElementOfSeq
<1>2. [i \in DOMAIN fs |-> y[fs[i]]] = [i \in DOMAIN fs |-> z[fs[i]]]
  BY <1>1
<1>. QED BY <1>2 DEF Weight

-----------------------------------------------------------------------------
(* The history. *)

Ascending(fs) == \A i, j \in 1 .. Len(fs) : i < j => fs[i] < fs[j]

HistoryOK ==
  /\ frames \in Seq(Size \cup TerminalSize) /\ history \in Seq(Frame)
  /\ normalEvents \in Nat /\ normalBytes \in Nat /\ done \in BOOLEAN
  /\ Ascending(history) /\ Retention

LEMMA SizesAreNumbers ==
  ASSUME NEW z \in Seq(Size \cup TerminalSize)
  PROVE  Len(z) \in Nat /\ \A n \in 1 .. Len(z) : z[n] \in Nat
<1>1. Size \cup TerminalSize \subseteq Nat
  BY StreamAssumption
<1>2. Len(z) \in Nat /\ \A n \in 1 .. Len(z) : z[n] \in Size \cup TerminalSize
  BY LenProperties, ElementOfSeq
<1>. QED BY <1>1, <1>2

LEMMA BytesAre == ASSUME NEW fs PROVE Bytes(fs) = Weight(frames, fs)
  BY DEF Bytes, Weight

LEMMA NextBytesAre == ASSUME NEW fs PROVE Bytes(fs)' = Weight(frames', fs')
  BY DEF Bytes, Weight

\* The eviction loop of publish ends: with everything dropped a frame that may
\* be retained at all has room.
LEMMA DropFits ==
  ASSUME HistoryOK, ~done, NEW size \in Nat, size <= MaxRetainedBytes
  PROVE  /\ Drop(size) \in 0 .. Len(history)
         /\ normalEvents - Drop(size) + 1 <= MaxRetainedEvents
         /\ normalBytes - Bytes(SubSeq(history, 1, Drop(size))) + size <= MaxRetainedBytes
<1>. DEFINE fits(k) == /\ normalEvents - k + 1 <= MaxRetainedEvents
                       /\ normalBytes - Bytes(SubSeq(history, 1, k)) + size <= MaxRetainedBytes
            L == Len(history)
            D == {k \in 0 .. L : fits(k)}
            R == OpToRel(<, Nat)
<1>1. /\ history \in Seq(Frame) /\ L \in Nat /\ normalEvents = L /\ normalBytes = Bytes(history)
      /\ normalBytes \in Nat
  BY LenProperties DEF HistoryOK, Retention, Kept
<1>2. SubSeq(history, 1, L) = history
  BY <1>1, SubSeqFull
<1>3. MaxRetainedEvents >= 1 /\ MaxRetainedEvents \in Nat /\ MaxRetainedBytes \in Nat
  BY StreamAssumption
<1>4. fits(L)
  <2>1. normalEvents - L + 1 <= MaxRetainedEvents
    BY <1>1, <1>3
  <2>2. normalBytes - Bytes(SubSeq(history, 1, L)) + size <= MaxRetainedBytes
    <3>1. Bytes(SubSeq(history, 1, L)) = Bytes(history)
      BY <1>2, Zenon
    <3>2. normalBytes - Bytes(SubSeq(history, 1, L)) + size = size
      BY <1>1, <3>1
    <3>. QED BY <3>2
  <2>. QED BY <2>1, <2>2
<1>. HIDE DEF fits
<1>5. L \in D /\ D \subseteq Nat
  BY <1>1, <1>4
<1>6. PICK d \in D : \A k \in D : ~(<<k, d>> \in R)
  <2>. HIDE DEF D
  <2>. QED BY <1>5, WFMin, NatLessThanWellFounded
<1>7. d \in 0 .. L /\ fits(d) /\ \A k \in D : ~(k < d)
  BY <1>5, <1>6 DEF OpToRel
<1>8. \A k \in 0 .. (d - 1) : ~fits(k)
  BY <1>7
<1>9. Drop(size) = CHOOSE e \in 0 .. L : fits(e) /\ \A k \in 0 .. (e - 1) : ~fits(k)
  BY DEF Drop, fits
<1>10. Drop(size) \in 0 .. L /\ fits(Drop(size))
  <2>. HIDE DEF L
  <2>. QED BY <1>7, <1>8, <1>9
<1>. QED BY <1>10 DEF fits

\* What is left of the history, with the next frame at its end.
LEMMA HistoryGrows ==
  ASSUME HistoryOK, ~done, NEW size \in Size \cup TerminalSize, frames' = Append(frames, size),
         NEW d \in 0 .. Len(history),
         history' = Append(SubSeq(history, d + 1, Len(history)), Len(frames) + 1)
  PROVE  /\ frames' \in Seq(Size \cup TerminalSize) /\ history' \in Seq(Frame') /\ Ascending(history')
         /\ SubSeq(history, d + 1, Len(history)) \in Seq(Frame)
         /\ Len(history') = Len(history) - d + 1 /\ history'[Len(history')] = Len(frames')
         /\ Len(frames') = Len(frames) + 1
         /\ Bytes(history)
              = Bytes(SubSeq(history, 1, d)) + Bytes(SubSeq(history, d + 1, Len(history)))
         /\ Bytes(history)' = Bytes(SubSeq(history, d + 1, Len(history))) + size
         /\ \A fs \in Seq(Frame) : Weight(frames', fs) = Weight(frames, fs)
         /\ \A n \in Frame' : n >= history'[1] /\ frames'[n] <= MaxRetainedBytes => n \in ToSet(history')
<1>. DEFINE L == Len(history)
            N == Len(frames)
            rest == SubSeq(history, d + 1, L)
            old == SubSeq(history, 1, d)
            Z == Size \cup TerminalSize
<1>1. /\ frames \in Seq(Z) /\ history \in Seq(Frame) /\ L \in Nat /\ N \in Nat /\ d \in 0 .. L
      /\ \A i \in 1 .. L : history[i] \in Frame
      /\ \A i, j \in 1 .. L : i < j => history[i] < history[j]
      /\ ToSet(history) = {history[i] : i \in 1 .. L}
  BY LenProperties, ElementOfSeq DEF HistoryOK, Ascending, ToSet
<1>2. /\ frames' \in Seq(Z) /\ Len(frames') = N + 1 /\ frames'[N + 1] = size
      /\ \A n \in 1 .. N : frames'[n] = frames[n]
  BY <1>1, AppendProperties
<1>3. Frame = 1 .. N /\ Frame' = 1 .. (N + 1)
  BY <1>2 DEF Frame
<1>4. /\ rest \in Seq(Frame) /\ Len(rest) = L - d
      /\ \A i \in 1 .. L - d : rest[i] = history[d + i]
  <2>1. \A i \in (d + 1) .. L : history[i] \in Frame
    BY <1>1
  <2>2. /\ rest \in Seq(Frame) /\ Len(rest) = IF d + 1 <= L THEN L - (d + 1) + 1 ELSE 0
        /\ \A i \in 1 .. L - (d + 1) + 1 : rest[i] = history[(d + 1) + i - 1]
    BY <1>1, <2>1, SubSeqProperties
  <2>. HIDE DEF rest, L
  <2>3. Len(rest) = L - d
    <3>1. Len(rest) = IF d + 1 <= L THEN L - (d + 1) + 1 ELSE 0
      BY <2>2
    <3>2. L \in Nat /\ d \in 0 .. L
      BY <1>1
    <3>. QED BY <3>1, <3>2
  <2>4. ASSUME NEW i \in 1 .. L - d PROVE rest[i] = history[d + i]
    <3>0. L \in Nat /\ d \in 0 .. L
      BY <1>1
    <3>1. i \in 1 .. L - (d + 1) + 1 /\ (d + 1) + i - 1 = d + i
      BY <3>0
    <3>. QED BY <2>2, <3>1
  <2>. QED BY <2>2, <2>3, <2>4
<1>5. old \in Seq(Frame)
  <2>1. \A i \in 1 .. d : history[i] \in Frame
    BY <1>1
  <2>. QED BY <1>1, <2>1, SubSeqProperties
<1>6. history = old \o rest
  <2>1. old \o rest = SubSeq(history, 1, L)
    <3>1. 1 \in 1 .. L + 1 /\ d \in 1 - 1 .. L /\ L \in d .. L
      BY <1>1
    <3>. QED BY <1>1, <3>1, ConcatAdjacentSubSeq
  <2>. QED BY <1>1, <2>1, SubSeqFull
<1>7. history' = Append(rest, N + 1)
  OBVIOUS
<1>. HIDE DEF rest, old
<1>8. \A n \in Frame : frames[n] \in Nat
  BY <1>1, <1>3, SizesAreNumbers
<1>9. \A n \in Frame' : frames'[n] \in Nat
  BY <1>2, <1>3, SizesAreNumbers
<1>10. Weight(frames, history) = Weight(frames, old) + Weight(frames, rest)
  BY <1>4, <1>5, <1>6, <1>8, WeightConcat
<1>11. rest \in Seq(Frame')
  BY <1>1, <1>3, <1>4, SeqMonotonic
<1>12. N + 1 \in Frame' /\ <<N + 1>> \in Seq(Frame') /\ history' = rest \o <<N + 1>>
  <2>1. N + 1 \in Frame'
    BY <1>1, <1>3
  <2>2. rest \o <<N + 1>> = Append(rest, N + 1)
    BY <1>11, <2>1, AppendIsConcat
  <2>3. <<N + 1>> \in Seq(Frame')
    <3>. HIDE DEF N
    <3>. QED BY <2>1
  <2>. QED BY <1>7, <2>1, <2>2, <2>3
<1>13. ASSUME NEW fs \in Seq(Frame) PROVE Weight(frames', fs) = Weight(frames, fs)
  <2>1. \A n \in Frame : frames[n] \in Nat /\ frames'[n] = frames[n]
    BY <1>2, <1>3, <1>8
  <2>. QED BY <2>1, WeightSame, ZenonT(40)
<1>14. Weight(frames', history') = Weight(frames, rest) + size
  <2>1. Weight(frames', rest \o <<N + 1>>) = Weight(frames', rest) + Weight(frames', <<N + 1>>)
    BY <1>9, <1>11, <1>12, WeightConcat
  <2>2. Weight(frames', <<N + 1>>) = size
    BY <1>2, <1>9, <1>12, WeightSingle
  <2>. QED BY <1>4, <1>12, <1>13, <2>1, <2>2
<1>15. /\ history' \in Seq(Frame') /\ Len(history') = L - d + 1
       /\ history'[L - d + 1] = N + 1
       /\ \A i \in 1 .. L - d : history'[i] = history[d + i]
  <2>. HIDE DEF N, L
  <2>1. /\ history' \in Seq(Frame') /\ Len(history') = Len(rest) + 1
        /\ history'[Len(rest) + 1] = N + 1
        /\ \A i \in 1 .. Len(rest) : history'[i] = rest[i]
    <3>. DEFINE app == Append(rest, N + 1)
    <3>1. N + 1 \in Frame'
      BY <1>12
    <3>2. /\ app \in Seq(Frame') /\ Len(app) = Len(rest) + 1 /\ app[Len(rest) + 1] = N + 1
          /\ \A i \in 1 .. Len(rest) : app[i] = rest[i]
      BY <1>11, <3>1, AppendProperties
    <3>. QED BY <1>7, <3>2
  <2>. QED BY <1>4, <2>1
<1>. HIDE DEF L, N
<1>16. Ascending(history')
  <2>. SUFFICES ASSUME NEW i \in 1 .. Len(history'), NEW j \in 1 .. Len(history'), i < j
                PROVE  history'[i] < history'[j]
    BY DEF Ascending
  <2>. i \in 1 .. L - d + 1 /\ j \in 1 .. L - d + 1
    BY <1>15
  <2>1. i \in 1 .. L - d /\ history'[i] = history[d + i] /\ d + i \in 1 .. L
    BY <1>1, <1>15
  <2>2. CASE j = L - d + 1
    <3>1. history[d + i] \in 1 .. N
      BY <1>1, <1>3, <2>1
    <3>. QED BY <1>1, <1>15, <2>1, <2>2, <3>1, SMTT(60)
  <2>3. CASE j # L - d + 1
    <3>1. j \in 1 .. L - d /\ history'[j] = history[d + j] /\ d + j \in 1 .. L /\ d + i < d + j
      BY <1>1, <1>15, <2>3, SMTT(30)
    <3>. QED BY <1>1, <2>1, <3>1
  <2>. QED BY <2>2, <2>3
<1>17. ASSUME NEW n \in Frame', n >= history'[1], frames'[n] <= MaxRetainedBytes
       PROVE  n \in ToSet(history')
  <2>1. \A i \in 1 .. L - d + 1 : history'[i] \in ToSet(history')
    BY <1>15, LenProperties DEF ToSet
  <2>2. CASE n = N + 1
    <3>1. L - d + 1 \in 1 .. L - d + 1
      BY <1>1
    <3>. QED BY <1>15, <2>1, <2>2, <3>1
  <2>3. CASE n # N + 1
    <3>1. n \in Frame /\ frames[n] <= MaxRetainedBytes
      BY <1>1, <1>2, <1>3, <1>17, <2>3
    <3>2. L - d # 0
      BY <1>1, <1>3, <1>15, <1>17, <3>1
    <3>3. 1 \in 1 .. L - d /\ d + 1 \in 1 .. L /\ 1 \in 1 .. L /\ history'[1] = history[d + 1]
      BY <1>1, <1>15, <3>2
    <3>4. history[1] <= history[d + 1] /\ history[1] \in Nat /\ history[d + 1] \in Nat
      <4>1. 1 <= d + 1 /\ (1 = d + 1 \/ 1 < d + 1)
        BY <1>1
      <4>2. history[1] \in Nat /\ history[d + 1] \in Nat
        BY <1>1, <1>3, <3>3, SMTT(60)
      <4>3. 1 < d + 1 => history[1] < history[d + 1]
        BY <1>1, <3>3
      <4>. QED BY <4>1, <4>2, <4>3
    <3>5. n >= history[1] /\ history # <<>>
      <4>1. n >= history[1]
        BY <1>3, <1>17, <3>1, <3>3, <3>4
      <4>2. Len(history) # 0
        BY <1>1, <3>3 DEF L
      <4>. QED BY <4>1, <4>2, EmptySeq
    <3>6. n \in ToSet(history)
      BY <3>1, <3>5 DEF HistoryOK, Retention, Kept
    <3>7. PICK i \in 1 .. L : n = history[i]
      BY <1>1, <3>6
    <3>8. ~(i < d + 1)
      <4>1. n < history[d + 1] => FALSE
        BY <1>3, <1>17, <3>1, <3>3, <3>4
      <4>. QED BY <1>1, <3>3, <3>7, <4>1
    <3>9. i - d \in 1 .. L - d /\ history'[i - d] = n
      <4>1. i - d \in 1 .. L - d /\ d + (i - d) = i
        BY <1>1, <3>8
      <4>. QED BY <1>15, <3>7, <4>1
    <3>10. i - d \in 1 .. L - d + 1
      BY <1>1, <3>9
    <3>. QED BY <2>1, <3>9, <3>10
  <2>. QED BY <2>2, <2>3
<1>18. /\ Bytes(history) = Weight(frames, history) /\ Bytes(old) = Weight(frames, old)
       /\ Bytes(rest) = Weight(frames, rest) /\ Bytes(history)' = Weight(frames', history')
  BY BytesAre, NextBytesAre
<1>. QED BY <1>2, <1>4, <1>10, <1>13, <1>14, <1>15, <1>16, <1>17, <1>18 DEF rest, old, L, N

\* Retention of the events while the run goes on.
LEMMA Retains ==
  ASSUME HistoryOK, ~done, done' = done, NEW size \in Size, frames' = Append(frames, size), Retain(size)
  PROVE  HistoryOK'
<1>1. size \in Size \cup TerminalSize /\ size \in Nat
  BY StreamAssumption
<1>2. /\ history \in Seq(Frame) /\ Len(history) \in Nat /\ frames \in Seq(Size \cup TerminalSize)
      /\ normalEvents = Len(history) /\ normalBytes = Bytes(history) /\ normalBytes \in Nat
      /\ normalEvents <= MaxRetainedEvents /\ normalBytes <= MaxRetainedBytes /\ Ascending(history)
      /\ \A n \in Frame :
           history # <<>> /\ n >= history[1] /\ frames[n] <= MaxRetainedBytes => n \in ToSet(history)
  BY LenProperties DEF HistoryOK, Retention, Kept
<1>3. MaxRetainedEvents \in Nat /\ MaxRetainedBytes \in Nat
  BY StreamAssumption
<1>4. CASE size <= MaxRetainedBytes
  <2>. DEFINE d == Drop(size)
              rest == SubSeq(history, d + 1, Len(history))
  <2>1. /\ history' = Append(rest, Len(frames) + 1)
        /\ normalEvents' = normalEvents - d + 1
        /\ normalBytes' = normalBytes - Bytes(SubSeq(history, 1, d)) + size
    BY <1>4 DEF Retain
  <2>2. /\ d \in 0 .. Len(history)
        /\ normalEvents - d + 1 <= MaxRetainedEvents
        /\ normalBytes - Bytes(SubSeq(history, 1, d)) + size <= MaxRetainedBytes
    BY <1>1, <1>4, DropFits
  <2>. HIDE DEF d
  <2>3. /\ frames' \in Seq(Size \cup TerminalSize) /\ history' \in Seq(Frame') /\ Ascending(history')
        /\ rest \in Seq(Frame)
        /\ Len(history') = Len(history) - d + 1
        /\ Bytes(history) = Bytes(SubSeq(history, 1, d)) + Bytes(rest)
        /\ Bytes(history)' = Bytes(rest) + size
        /\ \A n \in Frame' : n >= history'[1] /\ frames'[n] <= MaxRetainedBytes => n \in ToSet(history')
    BY <1>1, <2>1, <2>2, HistoryGrows
  <2>4. normalEvents' = Len(history') /\ normalEvents' \in Nat
    BY <1>2, <2>1, <2>2, <2>3
  <2>5. Bytes(rest) \in Nat /\ Bytes(SubSeq(history, 1, d)) \in Nat
    <3>1. \A n \in Frame : frames[n] \in Nat
      BY <1>2, SizesAreNumbers DEF Frame
    <3>2. SubSeq(history, 1, d) \in Seq(Frame)
      <4>1. \A i \in 1 .. d : history[i] \in Frame
        BY <1>2, <2>2, ElementOfSeq
      <4>. QED BY <2>2, <4>1, SubSeqProperties
    <3>. QED BY <2>3, <3>1, <3>2, BytesAre, WeightIs
  <2>6. normalBytes' = Bytes(history)' /\ normalBytes' \in Nat
    <3>1. normalBytes' = Bytes(rest) + size
      BY <1>1, <1>2, <2>1, <2>3, <2>5
    <3>2. normalBytes' = Bytes(history)'
      BY <2>3, <3>1, Zenon
    <3>. QED BY <1>1, <2>5, <3>1, <3>2
  <2>7. normalEvents' <= MaxRetainedEvents /\ normalBytes' <= MaxRetainedBytes
    BY <2>1, <2>2
  <2>8. Kept' = history' /\ Bytes(Kept)' = Bytes(history)'
    BY DEF Kept, Bytes
  <2>. QED BY <2>3, <2>4, <2>6, <2>7, <2>8 DEF HistoryOK, Retention
<1>5. CASE ~(size <= MaxRetainedBytes)
  <2>1. history' = history /\ normalEvents' = normalEvents /\ normalBytes' = normalBytes
    BY <1>5 DEF Retain
  <2>2. /\ frames' \in Seq(Size \cup TerminalSize) /\ Len(frames') = Len(frames) + 1
        /\ Len(frames) \in Nat /\ frames'[Len(frames) + 1] = size
        /\ \A n \in 1 .. Len(frames) : frames'[n] = frames[n]
    BY <1>1, <1>2, AppendProperties, LenProperties
  <2>3. Frame \subseteq Frame' /\ \A n \in Frame' : n \in Frame \/ n = Len(frames) + 1
    BY <2>2 DEF Frame
  <2>4. history' \in Seq(Frame')
    BY <1>2, <2>1, <2>3, SeqMonotonic
  <2>5. \A n \in Frame : frames[n] \in Nat /\ frames'[n] = frames[n]
    BY <1>2, <2>2, SizesAreNumbers DEF Frame
  <2>6. Bytes(history)' = Bytes(history)
    <3>1. Weight(frames', history) = Weight(frames, history)
      <4>1. history \in Seq(Frame)
        BY <1>2
      <4>. QED BY <2>5, <4>1, WeightSame
    <3>. QED BY <2>1, <3>1, BytesAre, NextBytesAre
  <2>7. Kept' = history' /\ Bytes(Kept)' = Bytes(history)'
    BY DEF Kept, Bytes
  <2>8. ASSUME NEW n \in Frame', history' # <<>>, n >= history'[1], frames'[n] <= MaxRetainedBytes
        PROVE  n \in ToSet(history')
    <3>1. n \in Frame
      BY <1>5, <2>2, <2>3, <2>8
    <3>. QED BY <1>2, <2>1, <2>5, <2>8, <3>1
  <2>. QED BY <1>2, <2>1, <2>2, <2>4, <2>6, <2>7, <2>8 DEF HistoryOK, Retention
<1>. QED BY <1>4, <1>5

\* The terminal event is kept beside the retained events.
LEMMA RetainsTerminal ==
  ASSUME HistoryOK, ~done, done' = TRUE, NEW size \in TerminalSize, frames' = Append(frames, size),
         history' = Append(history, Len(frames) + 1), UNCHANGED <<normalEvents, normalBytes>>
  PROVE  HistoryOK'
<1>1. size \in Size \cup TerminalSize /\ size \in Nat
  BY StreamAssumption
<1>2. /\ history \in Seq(Frame) /\ Len(history) \in Nat /\ normalEvents \in Nat
      /\ normalEvents = Len(history) /\ normalBytes = Bytes(history) /\ normalBytes \in Nat
      /\ normalEvents <= MaxRetainedEvents /\ normalBytes <= MaxRetainedBytes
  BY LenProperties DEF HistoryOK, Retention, Kept
<1>3. SubSeq(history, 0 + 1, Len(history)) = history /\ 0 \in 0 .. Len(history)
  BY <1>2, SubSeqFull
<1>4. /\ frames' \in Seq(Size \cup TerminalSize) /\ history' \in Seq(Frame') /\ Ascending(history')
      /\ Len(history') = Len(history) - 0 + 1 /\ history'[Len(history')] = Len(frames')
      /\ \A fs \in Seq(Frame) : Weight(frames', fs) = Weight(frames, fs)
      /\ \A n \in Frame' : n >= history'[1] /\ frames'[n] <= MaxRetainedBytes => n \in ToSet(history')
  BY <1>1, <1>3, HistoryGrows
<1>5. Kept' = history
  <2>. DEFINE L == Len(history)
  <2>1. Kept' = SubSeq(history', 1, Len(history') - 1)
    BY DEF Kept, Front
  <2>2. Len(history') - 1 = L
    BY <1>2, <1>4
  <2>3. \A i \in 1 .. L : history'[i] = history[i] /\ history[i] \in Frame
    BY <1>2, ElementOfSeq
  <2>4. /\ SubSeq(history', 1, L) \in Seq(Frame)
        /\ Len(SubSeq(history', 1, L)) = L
        /\ \A i \in 1 .. L : SubSeq(history', 1, L)[i] = history[i]
    <3>1. L \in Int /\ L - 1 + 1 = L /\ \A i \in 1 .. L : 1 + i - 1 = i
      BY <1>2
    <3>2. \A i \in 1 .. L : history'[i] \in Frame
      BY <2>3
    <3>3. /\ SubSeq(history', 1, L) \in Seq(Frame)
          /\ Len(SubSeq(history', 1, L)) = IF 1 <= L THEN L - 1 + 1 ELSE 0
          /\ \A i \in 1 .. L - 1 + 1 : SubSeq(history', 1, L)[i] = history'[1 + i - 1]
      BY <3>1, <3>2, SubSeqProperties
    <3>. QED BY <1>2, <2>3, <3>1, <3>3
  <2>5. SubSeq(history', 1, L) = history
    BY <1>2, <2>4, SeqEqual
  <2>. QED BY <2>1, <2>2, <2>5
<1>6. Bytes(Kept)' = normalBytes'
  BY <1>2, <1>4, <1>5, BytesAre, NextBytesAre
<1>7. ASSUME NEW n \in Frame', Kept' # <<>>, n >= Kept'[1], frames'[n] <= MaxRetainedBytes
      PROVE  n \in ToSet(history')
  <2>1. history'[1] = history[1]
    <3>1. Len(history) # 0
      BY <1>2, <1>5, <1>7, EmptySeq
    <3>. QED BY <1>2, <3>1
  <2>. QED BY <1>4, <1>5, <1>7, <2>1
<1>8. history' # <<>> /\ Last(history') = Len(frames')
  <2>1. Len(history') # 0
    BY <1>2, <1>4
  <2>. QED BY <1>4, <2>1 DEF Last
<1>. QED BY <1>2, <1>4, <1>5, <1>6, <1>7, <1>8 DEF HistoryOK, Retention

LEMMA HistoryStays ==
  ASSUME HistoryOK, UNCHANGED <<frames, history, normalEvents, normalBytes, done>>
  PROVE  HistoryOK'
<1>1. Kept' = Kept /\ Bytes(Kept)' = Bytes(Kept) /\ Frame' = Frame
  BY DEF Kept, Bytes, Frame
<1>. QED BY <1>1 DEF HistoryOK, Retention

\* The sum of a set in which one element comes, goes or changes.
LEMMA SumChanges ==
  ASSUME NEW S, NEW T, IsFiniteSet(S), IsFiniteSet(T), NEW c, S \ {c} = T \ {c}, NEW f, NEW g,
         \A x \in S : f[x] \in Nat, \A x \in T : g[x] \in Nat, \A x \in S \ {c} : g[x] = f[x],
         NEW old, NEW new, old = IF c \in S THEN f[c] ELSE 0, new = IF c \in T THEN g[c] ELSE 0
  PROVE  /\ SumFunctionOnSet(f, S) \in Nat /\ old \in Nat /\ new \in Nat
         /\ old <= SumFunctionOnSet(f, S)
         /\ SumFunctionOnSet(g, T) = SumFunctionOnSet(f, S) - old + new
<1>. DEFINE R == S \ {c}
<1>1. IsFiniteSet(R) /\ R \subseteq S /\ R \subseteq T
  BY FS_Subset
<1>2. SumFunctionOnSet(f, R) = SumFunctionOnSet(g, R)
  <2>1. \A x \in R : f[x] \in Nat /\ g[x] = f[x]
    OBVIOUS
  <2>. HIDE DEF R
  <2>. QED BY <1>1, <2>1, SumSame
<1>3. /\ \A U \in SUBSET S : SumFunctionOnSet(f, U) \in Nat
      /\ \A U \in SUBSET S : \A x \in S \ U :
           SumFunctionOnSet(f, U \cup {x}) = f[x] + SumFunctionOnSet(f, U)
  BY SumLaws
<1>4. /\ SumFunctionOnSet(g, {}) = 0
      /\ \A U \in SUBSET T : SumFunctionOnSet(g, U) \in Nat
      /\ \A U \in SUBSET T : \A x \in T \ U :
           SumFunctionOnSet(g, U \cup {x}) = g[x] + SumFunctionOnSet(g, U)
  BY SumLaws
<1>5. SumFunctionOnSet(f, S) \in Nat /\ SumFunctionOnSet(f, R) \in Nat
  BY <1>1, <1>3
<1>6. SumFunctionOnSet(f, S) = old + SumFunctionOnSet(f, R)
  <2>1. CASE c \in S
    <3>1. S = R \cup {c} /\ c \in S \ R
      BY <2>1
    <3>2. SumFunctionOnSet(f, R \cup {c}) = f[c] + SumFunctionOnSet(f, R)
      BY <1>1, <1>3, <3>1
    <3>. QED BY <2>1, <3>1, <3>2
  <2>2. CASE c \notin S
    <3>1. S = R /\ old = 0
      BY <2>2
    <3>. QED BY <1>5, <3>1
  <2>. QED BY <2>1, <2>2
<1>7. SumFunctionOnSet(g, T) = new + SumFunctionOnSet(g, R)
  <2>1. CASE c \in T
    <3>1. T = R \cup {c} /\ c \in T \ R
      BY <2>1
    <3>2. SumFunctionOnSet(g, R \cup {c}) = g[c] + SumFunctionOnSet(g, R)
      BY <1>1, <1>4, <3>1
    <3>. QED BY <2>1, <3>1, <3>2
  <2>2. CASE c \notin T
    <3>1. T = R /\ new = 0
      BY <2>2
    <3>. QED BY <1>2, <1>5, <3>1
  <2>. QED BY <2>1, <2>2
<1>8. old \in Nat /\ new \in Nat
  OBVIOUS
<1>. HIDE DEF R
<1>. QED BY <1>2, <1>5, <1>6, <1>7, <1>8

-----------------------------------------------------------------------------
(* What is true of one client, of the lock and of the budgets. *)

\* The last frame a client has received, and the frame its queue starts after.
Position(s) == IF seen[s] = <<>> THEN 0 ELSE seen[s][Len(seen[s])]
Reached(s) == IF Position(s) > joined[s] THEN Position(s) ELSE joined[s]

\* Frame k is one that the history has or had for the client after it received
\* its first one.
Owed(s, k) == IF seen[s] = <<>> THEN replay[s] # <<>> /\ k > replay[s][1] ELSE k > Position(s)

\* The replay is what is left of the history, and leaves out only frames that
\* were too large to be kept.
ReplayOK(s) ==
  /\ Ascending(replay[s])
  /\ \A i \in 1 .. Len(replay[s]) : Position(s) < replay[s][i] /\ replay[s][i] <= joined[s]
  /\ \A k \in 1 .. joined[s] :
       Owed(s, k) /\ k \notin ToSet(replay[s]) => frames[k] > MaxRetainedBytes

\* The queue goes on where the history ended, without a gap, up to the frame the
\* publisher has given the client last; a queue that was closed holds the last
\* frame, unless its client was evicted.
QueueOK(s) ==
  /\ \A i \in 1 .. Len(queue[s]) : queue[s][i] = Reached(s) + i
  /\ s \in attached =>
       Reached(s) + Len(queue[s]) = IF s \in todo THEN Len(frames) - 1 ELSE Len(frames)
  /\ s \notin attached /\ s \notin evicted =>
       /\ done /\ Reached(s) + Len(queue[s]) = Len(frames)
       /\ joined[s] = Len(frames) =>
            IF replay[s] = <<>> THEN Position(s) = Len(frames) ELSE Last(replay[s]) = Len(frames)

Reading(s) == reader[s] \in {"streaming", "acknowledging"}

ClientOK(s) ==
  /\ reader[s] \in {"new", "refused"} <=> joined[s] = -1
  /\ joined[s] = -1 =>
       /\ replay[s] = <<>> /\ queue[s] = <<>> /\ seen[s] = <<>>
       /\ s \notin attached /\ pendingEvents[s] = 0 /\ pendingBytes[s] = 0
  /\ reader[s] = "acknowledging" => replay[s] = <<>> /\ seen[s] # <<>>
  /\ Reading(s) => ReplayOK(s) /\ QueueOK(s)
  /\ reader[s] = "drained" /\ s \notin evicted =>
       done /\ seen[s] # <<>> /\ Last(seen[s]) = Len(frames)

\* A publisher that holds the lock serves who is left; the last frame of a run
\* is its terminal one.
LockOK ==
  /\ holding = "nothing" => todo = {}
  /\ holding = "terminal" => done
  /\ holding # "nothing" => Len(frames) >= 1

\* One client's part of the budgets: the count leaves room for what is queued.
CountOK(s) ==
  /\ reader[s] # "broken" =>
       /\ pendingEvents[s] = Len(Unacknowledged(s))
       /\ pendingBytes[s] = Bytes(Unacknowledged(s))
  /\ Len(queue[s]) <= pendingEvents[s]

LiveOK ==
  /\ liveQueueBytes = SumFunctionOnSet(pendingBytes, attached)
  /\ liveQueueBytes <= MaxLiveQueueBytes
  /\ Cardinality(attached) <= maxSubscribers

StreamInv ==
  /\ TypeOK /\ HistoryOK /\ LockOK /\ LiveOK
  /\ \A s \in Subscriber : ClientOK(s) /\ (s \in attached => CountOK(s))

Quiet(s) ==
  /\ replay'[s] = replay[s] /\ queue'[s] = queue[s] /\ reader'[s] = reader[s]
  /\ joined'[s] = joined[s] /\ seen'[s] = seen[s]
  /\ pendingEvents'[s] = pendingEvents[s] /\ pendingBytes'[s] = pendingBytes[s]
  /\ (s \in attached') = (s \in attached) /\ (s \in evicted') = (s \in evicted)
  /\ (s \in todo') = (s \in todo)

\* What the types say of one client.
LEMMA ClientTyped ==
  ASSUME TypeOK, NEW s \in Subscriber
  PROVE  /\ Len(frames) \in Nat /\ Frame = 1 .. Len(frames) /\ \A n \in Frame : frames[n] \in Nat
         /\ replay[s] \in Seq(Frame) /\ queue[s] \in Seq(Frame) /\ seen[s] \in Seq(Frame)
         /\ joined[s] \in {-1} \cup 0 .. Len(frames) /\ joined[s] \in Int
         /\ reader[s] \in ReaderStates
         /\ pendingEvents[s] \in Nat /\ pendingBytes[s] \in Nat
         /\ Len(replay[s]) \in Nat /\ Len(queue[s]) \in Nat /\ Len(seen[s]) \in Nat
         /\ Position(s) \in 0 .. Len(frames) /\ Reached(s) \in Int /\ Reached(s) <= Len(frames)
         /\ seen[s] # <<>> => Position(s) \in Frame /\ Position(s) = Last(seen[s])
<1>1. /\ Len(frames) \in Nat /\ Frame = 1 .. Len(frames) /\ \A n \in Frame : frames[n] \in Nat
  BY SizesAreNumbers DEF TypeOK, Frame
<1>2. /\ replay[s] \in Seq(Frame) /\ queue[s] \in Seq(Frame) /\ seen[s] \in Seq(Frame)
      /\ joined[s] \in {-1} \cup 0 .. Len(frames)
      /\ reader[s] \in ReaderStates
      /\ pendingEvents[s] \in Nat /\ pendingBytes[s] \in Nat
  BY DEF TypeOK
<1>3. joined[s] \in Int /\ joined[s] <= Len(frames)
  BY <1>1, <1>2
<1>4. Len(replay[s]) \in Nat /\ Len(queue[s]) \in Nat /\ Len(seen[s]) \in Nat
  BY <1>2, LenProperties
<1>5. seen[s] # <<>> => Position(s) \in Frame /\ Position(s) = Last(seen[s])
  <2>1. CASE seen[s] # <<>>
    <3>1. Len(seen[s]) \in 1 .. Len(seen[s])
      BY <1>2, <2>1, EmptySeq
    <3>2. seen[s][Len(seen[s])] \in Frame
      BY <1>2, <3>1, ElementOfSeq
    <3>. QED BY <2>1, <3>2 DEF Position, Last
  <2>. QED BY <2>1
<1>6. seen[s] = <<>> => Position(s) = 0
  BY DEF Position
<1>7. Position(s) \in 0 .. Len(frames)
  BY <1>1, <1>5, <1>6
<1>8. Reached(s) \in Int /\ Reached(s) <= Len(frames)
  BY <1>1, <1>3, <1>7 DEF Reached
<1>. QED BY <1>1, <1>2, <1>3, <1>4, <1>5, <1>7, <1>8

\* A client that nothing happens to, while no frame is published.
LEMMA QuietClient ==
  ASSUME NEW s \in Subscriber, Quiet(s), UNCHANGED <<frames, done>>, ClientOK(s),
         s \in attached => CountOK(s)
  PROVE  ClientOK(s)' /\ (s \in attached' => CountOK(s)')
<1>. USE DEF Quiet
<1>1. Position(s)' = Position(s) /\ Reached(s)' = Reached(s)
  BY DEF Position, Reached
<1>2. Reading(s)' = Reading(s)
  BY DEF Reading
<1>3. ReplayOK(s) => ReplayOK(s)'
  <2>1. \A k : Owed(s, k)' = Owed(s, k)
    BY <1>1 DEF Owed
  <2>. QED BY <1>1, <2>1 DEF ReplayOK, Ascending
<1>4. QueueOK(s) => QueueOK(s)'
  BY <1>1 DEF QueueOK
<1>5. ClientOK(s)'
  BY <1>2, <1>3, <1>4 DEF ClientOK
<1>6. Unacknowledged(s)' = Unacknowledged(s)
  BY DEF Unacknowledged
<1>7. Bytes(Unacknowledged(s))' = Bytes(Unacknowledged(s))
  BY <1>6, BytesAre, NextBytesAre
<1>8. CountOK(s) => CountOK(s)'
  BY <1>6, <1>7 DEF CountOK
<1>. QED BY <1>5, <1>8

\* A step of one client.
LEMMA OneClient ==
  ASSUME StreamInv, NEW c \in Subscriber, UNCHANGED runVars,
         liveQueueBytes' \in Nat, attached' \subseteq Subscriber, evicted' \subseteq Subscriber,
         holding' \in {"nothing", "event", "terminal"}, todo' \subseteq attached',
         queue' \in [Subscriber -> Seq(Frame)], pendingEvents' \in [Subscriber -> Nat],
         pendingBytes' \in [Subscriber -> Nat], replay' \in [Subscriber -> Seq(Frame)],
         reader' \in [Subscriber -> ReaderStates],
         joined' \in [Subscriber -> {-1} \cup 0 .. Len(frames)],
         seen' \in [Subscriber -> Seq(Frame)],
         LockOK', LiveOK', \A d \in Subscriber : d # c => Quiet(d),
         ClientOK(c)', c \in attached' => CountOK(c)'
  PROVE  StreamInv'
<1>. USE DEF runVars
<1>1. Frame' = Frame
  BY DEF Frame
<1>2. TypeOK'
  BY <1>1 DEF StreamInv, TypeOK
<1>3. HistoryOK'
  BY HistoryStays DEF StreamInv
<1>4. ASSUME NEW s \in Subscriber PROVE ClientOK(s)' /\ (s \in attached' => CountOK(s)')
  <2>1. CASE s = c
    BY <2>1
  <2>2. CASE s # c
    BY <2>2, QuietClient DEF StreamInv
  <2>. QED BY <2>1, <2>2
<1>. QED BY <1>2, <1>3, <1>4 DEF StreamInv

-----------------------------------------------------------------------------
(* The steps of a client that leave the budgets alone. *)

LEMMA LiveStays ==
  ASSUME LiveOK, UNCHANGED <<queueVars, maxSubscribers>>
  PROVE  LiveOK'
  BY DEF LiveOK, queueVars

LEMMA ReaderAlone ==
  ASSUME StreamInv, NEW c \in Subscriber, UNCHANGED <<runVars, holding, todo, queueVars>>,
         NEW r \in Seq(Frame), NEW q \in Seq(Frame), NEW w \in ReaderStates, NEW n \in Seq(Frame),
         replay' = [replay EXCEPT ![c] = r], queue' = [queue EXCEPT ![c] = q],
         reader' = [reader EXCEPT ![c] = w], seen' = [seen EXCEPT ![c] = n], joined' = joined,
         ClientOK(c)', c \in attached => CountOK(c)'
  PROVE  StreamInv'
<1>1. TypeOK
  BY DEF StreamInv
<1>2. /\ UNCHANGED runVars /\ liveQueueBytes' \in Nat /\ attached' \subseteq Subscriber
      /\ evicted' \subseteq Subscriber /\ holding' \in {"nothing", "event", "terminal"}
      /\ todo' \subseteq attached' /\ pendingEvents' \in [Subscriber -> Nat]
      /\ pendingBytes' \in [Subscriber -> Nat]
      /\ joined' \in [Subscriber -> {-1} \cup 0 .. Len(frames)]
  BY <1>1 DEF TypeOK, queueVars
<1>3. /\ queue' \in [Subscriber -> Seq(Frame)] /\ replay' \in [Subscriber -> Seq(Frame)]
      /\ reader' \in [Subscriber -> ReaderStates] /\ seen' \in [Subscriber -> Seq(Frame)]
  BY <1>1 DEF TypeOK
<1>4. LockOK' /\ LiveOK'
  BY LiveStays DEF StreamInv, LockOK, runVars
<1>5. ASSUME NEW d \in Subscriber, d # c PROVE Quiet(d)
  BY <1>1, <1>5 DEF TypeOK, Quiet, queueVars
<1>6. c \in attached' => CountOK(c)'
  BY DEF queueVars
<1>. QED BY <1>2, <1>3, <1>4, <1>5, <1>6, OneClient

\* After the last frame there is one.
LEMMA DoneHasFrame ==
  ASSUME HistoryOK, done
  PROVE  Len(frames) >= 1 /\ history # <<>> /\ Last(history) = Len(frames) /\ Len(frames) \in Frame
<1>1. history # <<>> /\ Last(history) = Len(frames) /\ history \in Seq(Frame) /\ Len(frames) \in Nat
  BY LenProperties DEF HistoryOK, Retention
<1>2. Last(history) \in Frame
  <2>1. Len(history) \in 1 .. Len(history)
    BY <1>1, EmptySeq
  <2>. QED BY <1>1, <2>1, ElementOfSeq DEF Last
<1>. QED BY <1>1, <1>2 DEF Frame

LEMMA HeadTailFacts ==
  ASSUME NEW F, NEW r \in Seq(F), r # <<>>
  PROVE  /\ Len(r) >= 1 /\ Head(r) = r[1] /\ Head(r) \in F /\ Tail(r) \in Seq(F)
         /\ Len(Tail(r)) = Len(r) - 1
         /\ \A i \in 1 .. Len(Tail(r)) : Tail(r)[i] = r[i + 1]
<1>1. Len(r) \in Nat \ {0}
  BY EmptySeq
<1>2. Head(r) = r[1]
  OBVIOUS
<1>. QED BY <1>1, <1>2, HeadTailProperties

LEMMA ReplayMoves ==
  ASSUME StreamInv, NEW s \in Subscriber, Replay(s)
  PROVE  StreamInv'
<1>1. TypeOK /\ ClientOK(s) /\ (s \in attached => CountOK(s))
  BY DEF StreamInv
<1>. DEFINE r == replay[s]
            h == Head(r)
            N == Len(frames)
<1>2. /\ reader[s] = "streaming" /\ r # <<>>
      /\ seen' = [seen EXCEPT ![s] = Append(seen[s], h)] /\ replay' = [replay EXCEPT ![s] = Tail(r)]
      /\ UNCHANGED <<runVars, holding, todo, queueVars>> /\ queue' = queue /\ reader' = reader
      /\ joined' = joined
  BY DEF Replay
<1>3. /\ N \in Nat /\ Frame = 1 .. N /\ r \in Seq(Frame) /\ seen[s] \in Seq(Frame)
      /\ queue[s] \in Seq(Frame) /\ joined[s] \in Int /\ reader[s] \in ReaderStates /\ Len(r) \in Nat
      /\ joined[s] <= N /\ Position(s) \in 0 .. N
  BY <1>1, ClientTyped
<1>4. /\ Len(r) >= 1 /\ h = r[1] /\ h \in Frame /\ Tail(r) \in Seq(Frame) /\ Len(Tail(r)) = Len(r) - 1
      /\ \A i \in 1 .. Len(Tail(r)) : Tail(r)[i] = r[i + 1]
  BY <1>2, <1>3, HeadTailFacts
<1>5. /\ Append(seen[s], h) \in Seq(Frame) /\ Append(seen[s], h) # <<>>
      /\ Append(seen[s], h)[Len(Append(seen[s], h))] = h
  <2>1. seen[s] \in Seq(Frame) /\ h \in Frame
    BY <1>3, <1>4
  <2>. HIDE DEF h
  <2>. QED BY <2>1, AppendProperties
<1>6. seen'[s] = Append(seen[s], h) /\ replay'[s] = Tail(r) /\ queue'[s] = queue[s]
      /\ reader'[s] = reader[s] /\ joined'[s] = joined[s]
  BY <1>1, <1>2 DEF TypeOK
<1>7. ReplayOK(s) /\ QueueOK(s) /\ joined[s] # -1
  BY <1>1, <1>2 DEF ClientOK, Reading
<1>. HIDE DEF r, h, N
<1>8. /\ \A i, j \in 1 .. Len(r) : i < j => r[i] < r[j]
      /\ \A i \in 1 .. Len(r) : Position(s) < r[i] /\ r[i] <= joined[s]
      /\ \A k \in 1 .. joined[s] : Owed(s, k) /\ k \notin ToSet(r) => frames[k] > MaxRetainedBytes
  BY <1>7 DEF ReplayOK, Ascending, r
<1>9. Position(s) < h /\ h <= joined[s]
  <2>1. 1 \in 1 .. Len(r) /\ h = r[1]
    BY <1>3, <1>4
  <2>2. Position(s) < r[1] /\ r[1] <= joined[s]
    BY <1>8, <2>1
  <2>. QED BY <2>1, <2>2
<1>10. Position(s)' = h
  BY <1>5, <1>6 DEF Position
<1>11. Reached(s) = joined[s] /\ Reached(s)' = joined[s]
  BY <1>3, <1>4, <1>6, <1>9, <1>10 DEF Reached
<1>12. \A i \in 1 .. Len(r) - 1 : Tail(r)[i] = r[i + 1] /\ i + 1 \in 1 .. Len(r)
  BY <1>3, <1>4
<1>13. ReplayOK(s)'
  <2>1. Ascending(Tail(r))
    <3>. SUFFICES ASSUME NEW i \in 1 .. Len(r) - 1, NEW j \in 1 .. Len(r) - 1, i < j
                  PROVE  Tail(r)[i] < Tail(r)[j]
      BY <1>4 DEF Ascending
    <3>1. i + 1 < j + 1
      BY <1>3
    <3>. QED BY <1>8, <1>12, <3>1
  <2>2. ASSUME NEW i \in 1 .. Len(r) - 1 PROVE h < Tail(r)[i] /\ Tail(r)[i] <= joined[s]
    <3>1. 1 \in 1 .. Len(r) /\ 1 < i + 1
      BY <1>3, <1>4
    <3>. QED BY <1>4, <1>8, <1>12, <3>1
  <2>3. ASSUME NEW k \in 1 .. joined[s], k > h, k \notin ToSet(Tail(r))
        PROVE  frames[k] > MaxRetainedBytes
    <3>1. Owed(s, k)
      <4>1. k > Position(s) /\ k > r[1]
        BY <1>3, <1>4, <1>9, <2>3
      <4>. QED BY <1>2, <4>1 DEF Owed, r
    <3>2. k \notin ToSet(r)
      <4>. SUFFICES ASSUME NEW i \in 1 .. Len(r), k = r[i] PROVE FALSE
        BY <1>3, LenProperties DEF ToSet
      <4>1. i # 1
        BY <1>3, <1>4, <2>3
      <4>2. i - 1 \in 1 .. Len(r) - 1 /\ (i - 1) + 1 = i
        BY <1>3, <4>1
      <4>3. Tail(r)[i - 1] = k /\ i - 1 \in DOMAIN Tail(r)
        BY <1>4, <1>12, <4>2, LenProperties
      <4>. QED BY <2>3, <4>3 DEF ToSet
    <3>. QED BY <1>8, <3>1, <3>2
  <2>4. \A k \in 1 .. joined[s] : Owed(s, k)' => k > h
    BY <1>5, <1>6, <1>10 DEF Owed
  <2>5. frames' = frames
    BY <1>2 DEF runVars
  <2>. QED BY <1>4, <1>6, <1>10, <2>1, <2>2, <2>3, <2>4, <2>5 DEF ReplayOK
<1>14. QueueOK(s)'
  <2>1. /\ frames' = frames /\ done' = done /\ attached' = attached /\ evicted' = evicted
        /\ todo' = todo
    BY <1>2 DEF runVars, queueVars
  <2>2. ASSUME IF r = <<>> THEN Position(s) = N ELSE Last(r) = N
        PROVE  IF Tail(r) = <<>> THEN h = N ELSE Last(Tail(r)) = N
    <3>1. r[Len(r)] = N
      BY <1>2, <2>2 DEF r, Last
    <3>2. CASE Tail(r) = <<>>
      <4>1. Len(r) = 1
        <5>1. Len(<<>>) = 0
          OBVIOUS
        <5>2. Len(Tail(r)) = Len(r) - 1
          BY <1>4
        <5>3. Len(r) - 1 = 0
          BY <3>2, <5>1, <5>2, Zenon
        <5>4. Len(r) \in Nat
          BY <1>3
        <5>. QED BY <5>3, <5>4
      <4>. QED BY <1>4, <3>1, <3>2, <4>1
    <3>3. CASE Tail(r) # <<>>
      <4>1. Len(Tail(r)) \in 1 .. Len(r) - 1
        BY <1>3, <1>4, <3>3, EmptySeq
      <4>2. Tail(r)[Len(Tail(r))] = r[Len(r)]
        BY <1>3, <1>4, <1>12, <4>1
      <4>. QED BY <3>1, <3>3, <4>2 DEF Last
    <3>. QED BY <3>2, <3>3
  <2>. QED BY <1>6, <1>7, <1>10, <1>11, <2>1, <2>2 DEF QueueOK, r, N
<1>15. ClientOK(s)'
  BY <1>2, <1>6, <1>7, <1>13, <1>14 DEF ClientOK, Reading
<1>16. s \in attached => CountOK(s)'
  <2>1. Unacknowledged(s)' = Unacknowledged(s)
    BY <1>2, <1>6 DEF Unacknowledged
  <2>2. Bytes(Unacknowledged(s))' = Bytes(Unacknowledged(s))
    BY <1>2, <2>1, BytesAre, NextBytesAre DEF runVars
  <2>. QED BY <1>1, <1>2, <1>6, <2>1, <2>2 DEF CountOK, queueVars
<1>17. queue' = [queue EXCEPT ![s] = queue[s]] /\ reader' = [reader EXCEPT ![s] = reader[s]]
  BY <1>1, <1>2 DEF TypeOK
<1>. QED BY <1>2, <1>3, <1>4, <1>5, <1>15, <1>16, <1>17, ReaderAlone

\* The unacknowledged frames stay the same when the handler takes the first one.
LEMMA HeadAndTail ==
  ASSUME NEW F, NEW q \in Seq(F), q # <<>>
  PROVE  <<Head(q)>> \o Tail(q) = q
<1>. DEFINE p == <<Head(q)>>
            t == Tail(q)
<1>1. /\ Len(q) \in Nat /\ Len(q) >= 1 /\ Head(q) = q[1] /\ Head(q) \in F /\ t \in Seq(F)
      /\ Len(t) = Len(q) - 1 /\ \A i \in 1 .. Len(t) : t[i] = q[i + 1]
  BY HeadTailFacts, LenProperties
<1>2. p \in Seq(F) /\ Len(p) = 1 /\ p[1] = q[1]
  BY <1>1
<1>. HIDE DEF p, t
<1>3. /\ p \o t \in Seq(F) /\ Len(p \o t) = Len(p) + Len(t)
      /\ \A i \in 1 .. Len(p) + Len(t) : (p \o t)[i] = IF i <= Len(p) THEN p[i] ELSE t[i - Len(p)]
  <2>1. p \in Seq(F) /\ t \in Seq(F)
    BY <1>1, <1>2
  <2>. QED BY <2>1, ConcatProperties
<1>4. Len(p \o t) = Len(q)
  BY <1>1, <1>2, <1>3
<1>5. ASSUME NEW i \in 1 .. Len(q) PROVE (p \o t)[i] = q[i]
  <2>1. (p \o t)[i] = IF i <= 1 THEN p[i] ELSE t[i - 1]
    BY <1>1, <1>2, <1>3
  <2>2. CASE i = 1
    BY <1>2, <2>1, <2>2
  <2>3. CASE i # 1
    <3>1. i - 1 \in 1 .. Len(t) /\ (i - 1) + 1 = i /\ ~(i <= 1)
      BY <1>1, <2>3
    <3>. QED BY <1>1, <2>1, <3>1
  <2>. QED BY <2>2, <2>3
<1>6. p \o t = q
  BY <1>3, <1>4, <1>5, SeqEqual
<1>. QED BY <1>6 DEF p, t

LEMMA DeliverMoves ==
  ASSUME StreamInv, NEW s \in Subscriber, Deliver(s)
  PROVE  StreamInv'
<1>1. TypeOK /\ ClientOK(s) /\ (s \in attached => CountOK(s))
  BY DEF StreamInv
<1>. DEFINE q == queue[s]
            h == Head(q)
            N == Len(frames)
<1>2. /\ reader[s] = "streaming" /\ replay[s] = <<>> /\ q # <<>>
      /\ queue' = [queue EXCEPT ![s] = Tail(q)] /\ seen' = [seen EXCEPT ![s] = Append(seen[s], h)]
      /\ reader' = [reader EXCEPT ![s] = "acknowledging"]
      /\ UNCHANGED <<runVars, holding, todo, queueVars>> /\ replay' = replay /\ joined' = joined
  BY DEF Deliver, TakesLive
<1>3. /\ N \in Nat /\ Frame = 1 .. N /\ q \in Seq(Frame) /\ seen[s] \in Seq(Frame) /\ Len(q) \in Nat
      /\ joined[s] \in Int /\ joined[s] <= N /\ Position(s) \in 0 .. N /\ replay[s] \in Seq(Frame)
      /\ Reached(s) \in Int
  BY <1>1, ClientTyped
<1>4. /\ Len(q) >= 1 /\ h = q[1] /\ h \in Frame /\ Tail(q) \in Seq(Frame) /\ Len(Tail(q)) = Len(q) - 1
      /\ \A i \in 1 .. Len(Tail(q)) : Tail(q)[i] = q[i + 1]
  BY <1>2, <1>3, HeadTailFacts
<1>5. /\ Append(seen[s], h) \in Seq(Frame) /\ Append(seen[s], h) # <<>>
      /\ Append(seen[s], h)[Len(Append(seen[s], h))] = h
  <2>1. seen[s] \in Seq(Frame) /\ h \in Frame
    BY <1>3, <1>4
  <2>. HIDE DEF h
  <2>. QED BY <2>1, AppendProperties
<1>6. seen'[s] = Append(seen[s], h) /\ queue'[s] = Tail(q) /\ replay'[s] = replay[s]
      /\ reader'[s] = "acknowledging" /\ joined'[s] = joined[s]
  BY <1>1, <1>2 DEF TypeOK
<1>7. ReplayOK(s) /\ QueueOK(s) /\ joined[s] # -1
  BY <1>1, <1>2 DEF ClientOK, Reading
<1>. HIDE DEF q, h, N
<1>8. /\ \A i \in 1 .. Len(q) : q[i] = Reached(s) + i
      /\ s \in attached => Reached(s) + Len(q) = IF s \in todo THEN N - 1 ELSE N
      /\ s \notin attached /\ s \notin evicted => done /\ Reached(s) + Len(q) = N
  BY <1>7 DEF QueueOK, q, N
<1>9. h = Reached(s) + 1 /\ joined[s] <= Reached(s)
  <2>1. h = Reached(s) + 1
    <3>1. 1 \in 1 .. Len(q)
      BY <1>3, <1>4
    <3>. QED BY <1>4, <1>8, <3>1
  <2>2. joined[s] \in Int /\ Position(s) \in Int
    BY <1>3
  <2>3. joined[s] <= Reached(s)
    BY <2>2 DEF Reached
  <2>. QED BY <2>1, <2>3
<1>10. Position(s)' = h
  BY <1>5, <1>6 DEF Position
<1>11. Reached(s)' = Reached(s) + 1
  BY <1>3, <1>6, <1>9, <1>10 DEF Reached
<1>12. ReplayOK(s)'
  <2>1. Len(replay[s]) = 0
    BY <1>2
  <2>2. ASSUME NEW k \in 1 .. joined[s] PROVE ~Owed(s, k)'
    <3>1. Owed(s, k)' <=> k > h
      BY <1>5, <1>6, <1>10 DEF Owed
    <3>2. ~(k > h)
      BY <1>3, <1>9
    <3>. QED BY <3>1, <3>2
  <2>. QED BY <1>6, <2>1, <2>2 DEF ReplayOK, Ascending
<1>13. QueueOK(s)'
  <2>1. /\ frames' = frames /\ done' = done /\ attached' = attached /\ evicted' = evicted
        /\ todo' = todo
    BY <1>2 DEF runVars, queueVars
  <2>2. ASSUME NEW i \in 1 .. Len(Tail(q)) PROVE Tail(q)[i] = (Reached(s) + 1) + i
    <3>1. i + 1 \in 1 .. Len(q)
      BY <1>3, <1>4
    <3>2. Tail(q)[i] = q[i + 1] /\ q[i + 1] = Reached(s) + (i + 1)
      BY <1>4, <1>8, <3>1
    <3>. QED BY <1>3, <3>2
  <2>3. (Reached(s) + 1) + Len(Tail(q)) = Reached(s) + Len(q)
    BY <1>3, <1>4
  <2>4. s \notin attached /\ s \notin evicted => joined[s] # N
    BY <1>3, <1>4, <1>8, <1>9
  <2>. QED BY <1>6, <1>8, <1>11, <2>1, <2>2, <2>3, <2>4 DEF QueueOK, N
<1>14. ClientOK(s)'
  BY <1>2, <1>5, <1>6, <1>7, <1>12, <1>13 DEF ClientOK, Reading
<1>15. s \in attached => CountOK(s)'
  <2>1. Unacknowledged(s) = q
    BY <1>2 DEF Unacknowledged, q
  <2>2. Unacknowledged(s)' = <<Last(Append(seen[s], h))>> \o Tail(q)
    BY <1>6 DEF Unacknowledged
  <2>3. Last(Append(seen[s], h)) = Head(q)
    BY <1>5 DEF Last, h
  <2>4. Unacknowledged(s)' = Unacknowledged(s)
    BY <1>2, <1>3, <2>1, <2>2, <2>3, HeadAndTail
  <2>5. Bytes(Unacknowledged(s))' = Bytes(Unacknowledged(s))
    BY <1>2, <2>4, BytesAre, NextBytesAre DEF runVars
  <2>6. pendingEvents' = pendingEvents /\ pendingBytes' = pendingBytes
    BY <1>2 DEF queueVars
  <2>7. s \in attached => Len(Tail(q)) <= pendingEvents[s]
    <3>1. s \in attached => Len(q) <= pendingEvents[s] /\ pendingEvents[s] \in Nat
      BY <1>1, ClientTyped DEF CountOK, q
    <3>. QED BY <1>3, <1>4, <3>1
  <2>. QED BY <1>1, <1>2, <1>6, <2>4, <2>5, <2>6, <2>7 DEF CountOK
<1>16. replay' = [replay EXCEPT ![s] = replay[s]] /\ "acknowledging" \in ReaderStates
  BY <1>1, <1>2 DEF TypeOK, ReaderStates
<1>. QED BY <1>2, <1>3, <1>4, <1>5, <1>14, <1>15, <1>16, ReaderAlone

LEMMA EndMoves ==
  ASSUME StreamInv, NEW s \in Subscriber, EndOfStream(s)
  PROVE  StreamInv'
<1>1. TypeOK /\ ClientOK(s) /\ HistoryOK
  BY DEF StreamInv
<1>2. /\ reader[s] = "streaming" /\ replay[s] = <<>> /\ queue[s] = <<>> /\ s \notin attached
      /\ reader' = [reader EXCEPT ![s] = "drained"]
      /\ UNCHANGED <<runVars, holding, todo, queueVars>>
      /\ queue' = queue /\ replay' = replay /\ joined' = joined /\ seen' = seen
  BY DEF EndOfStream
<1>3. reader'[s] = "drained" /\ "drained" \in ReaderStates
  BY <1>1, <1>2 DEF TypeOK, ReaderStates
<1>4. ASSUME s \notin evicted PROVE done /\ seen[s] # <<>> /\ Last(seen[s]) = Len(frames)
  <2>1. /\ done /\ Reached(s) + Len(queue[s]) = Len(frames)
        /\ joined[s] = Len(frames) => Position(s) = Len(frames)
    BY <1>1, <1>2, <1>4 DEF ClientOK, Reading, QueueOK
  <2>2. Len(queue[s]) = 0
    BY <1>2
  <2>3. /\ Reached(s) \in Int /\ Len(frames) \in Nat
        /\ seen[s] # <<>> => Position(s) = Last(seen[s])
    BY <1>1, ClientTyped
  <2>4. Reached(s) = Len(frames)
    <3>1. Reached(s) + 0 = Len(frames)
      BY <2>1, <2>2, Zenon
    <3>. QED BY <2>3, <3>1
  <2>5. Position(s) = Len(frames)
    BY <2>1, <2>4 DEF Reached
  <2>6. Position(s) # 0
    BY <1>1, <2>1, <2>3, <2>5, DoneHasFrame
  <2>7. seen[s] # <<>>
    BY <2>6 DEF Position
  <2>. QED BY <2>1, <2>3, <2>5, <2>7
<1>5. ClientOK(s)'
  BY <1>1, <1>2, <1>3, <1>4 DEF ClientOK, Reading, runVars, queueVars
<1>6. /\ replay' = [replay EXCEPT ![s] = replay[s]] /\ queue' = [queue EXCEPT ![s] = queue[s]]
      /\ seen' = [seen EXCEPT ![s] = seen[s]]
      /\ replay[s] \in Seq(Frame) /\ queue[s] \in Seq(Frame) /\ seen[s] \in Seq(Frame)
  BY <1>1, <1>2 DEF TypeOK
<1>. QED BY <1>2, <1>3, <1>5, <1>6, ReaderAlone

LEMMA BreakMoves ==
  ASSUME StreamInv, NEW s \in Subscriber, Break(s)
  PROVE  StreamInv'
<1>1. TypeOK /\ ClientOK(s) /\ (s \in attached => CountOK(s))
  BY DEF StreamInv
<1>2. /\ reader[s] = "streaming" /\ reader' = [reader EXCEPT ![s] = "broken"]
      /\ UNCHANGED <<runVars, holding, todo, queueVars>>
      /\ joined' = joined /\ seen' = seen
  BY DEF Break
<1>3. reader'[s] = "broken" /\ "broken" \in ReaderStates
  BY <1>1, <1>2 DEF TypeOK, ReaderStates
<1>4. replay[s] \in Seq(Frame) /\ queue[s] \in Seq(Frame) /\ seen[s] \in Seq(Frame)
      /\ Len(queue[s]) \in Nat /\ pendingEvents[s] \in Nat
  BY <1>1, ClientTyped
<1>5. joined[s] # -1
  BY <1>1, <1>2 DEF ClientOK
<1>6. ClientOK(s)'
  BY <1>2, <1>3, <1>5 DEF ClientOK, Reading
<1>7. seen' = [seen EXCEPT ![s] = seen[s]]
  BY <1>1, <1>2 DEF TypeOK
<1>8. ASSUME NEW r \in Seq(Frame), NEW q \in Seq(Frame), Len(q) <= Len(queue[s]),
             replay' = [replay EXCEPT ![s] = r], queue' = [queue EXCEPT ![s] = q]
      PROVE  StreamInv'
  <2>1. queue'[s] = q /\ Len(q) \in Nat
    BY <1>1, <1>8, LenProperties DEF TypeOK
  <2>2. s \in attached => CountOK(s)'
    BY <1>1, <1>2, <1>3, <1>4, <1>8, <2>1 DEF CountOK, queueVars
  <2>. QED BY <1>2, <1>3, <1>4, <1>6, <1>7, <1>8, <2>2, ReaderAlone
<1>9. replay = [replay EXCEPT ![s] = replay[s]] /\ queue = [queue EXCEPT ![s] = queue[s]]
  BY <1>1 DEF TypeOK
<1>10. CASE UNCHANGED <<replay, queue>>
  BY <1>4, <1>8, <1>9, <1>10
<1>11. CASE replay[s] # <<>> /\ replay' = [replay EXCEPT ![s] = Tail(replay[s])] /\ UNCHANGED queue
  <2>1. Tail(replay[s]) \in Seq(Frame)
    BY <1>4, <1>11, HeadTailFacts
  <2>2. queue' = [queue EXCEPT ![s] = queue[s]] /\ Len(queue[s]) <= Len(queue[s])
    BY <1>4, <1>9, <1>11
  <2>. QED BY <1>4, <1>8, <1>11, <2>1, <2>2
<1>12. CASE TakesLive(s) /\ queue' = [queue EXCEPT ![s] = Tail(queue[s])] /\ UNCHANGED replay
  <2>1. queue[s] # <<>>
    BY <1>12 DEF TakesLive
  <2>2. Tail(queue[s]) \in Seq(Frame) /\ Len(Tail(queue[s])) <= Len(queue[s])
    <3>1. Tail(queue[s]) \in Seq(Frame) /\ Len(Tail(queue[s])) = Len(queue[s]) - 1
      BY <1>4, <2>1, HeadTailFacts
    <3>. QED BY <1>4, <3>1
  <2>. QED BY <1>4, <1>8, <1>9, <1>12, <2>2
<1>. QED BY <1>10, <1>11, <1>12 DEF Break

LEMMA RefuseMoves ==
  ASSUME StreamInv, NEW s \in Subscriber, RefuseSubscribe(s)
  PROVE  StreamInv'
<1>1. TypeOK /\ ClientOK(s)
  BY DEF StreamInv
<1>2. /\ reader[s] = "new" /\ reader' = [reader EXCEPT ![s] = "refused"]
      /\ UNCHANGED <<runVars, holding, todo, queueVars>>
      /\ queue' = queue /\ replay' = replay /\ joined' = joined /\ seen' = seen
  BY DEF RefuseSubscribe
<1>3. reader'[s] = "refused" /\ "refused" \in ReaderStates
  BY <1>1, <1>2 DEF TypeOK, ReaderStates
<1>4. ClientOK(s)' /\ s \notin attached
  BY <1>1, <1>2, <1>3 DEF ClientOK, Reading, queueVars
<1>5. /\ replay' = [replay EXCEPT ![s] = replay[s]] /\ queue' = [queue EXCEPT ![s] = queue[s]]
      /\ seen' = [seen EXCEPT ![s] = seen[s]]
      /\ replay[s] \in Seq(Frame) /\ queue[s] \in Seq(Frame) /\ seen[s] \in Seq(Frame)
  BY <1>1, <1>2 DEF TypeOK
<1>. QED BY <1>2, <1>3, <1>4, <1>5, ReaderAlone

-----------------------------------------------------------------------------
(* The steps that change the budgets. *)

LEMMA LiveChanges ==
  ASSUME TypeOK, LiveOK, NEW c \in Subscriber, attached' \subseteq Subscriber,
         attached \ {c} = attached' \ {c}, pendingBytes' \in [Subscriber -> Nat],
         \A d \in Subscriber : d # c => pendingBytes'[d] = pendingBytes[d],
         NEW old, NEW new, old = IF c \in attached THEN pendingBytes[c] ELSE 0,
         new = IF c \in attached' THEN pendingBytes'[c] ELSE 0
  PROVE  /\ liveQueueBytes \in Nat /\ old \in Nat /\ new \in Nat /\ old <= liveQueueBytes
         /\ SumFunctionOnSet(pendingBytes', attached') = liveQueueBytes - old + new
<1>1. attached \subseteq Subscriber /\ pendingBytes \in [Subscriber -> Nat]
  BY DEF TypeOK
<1>2. IsFiniteSet(attached) /\ IsFiniteSet(attached')
  BY <1>1, StreamAssumption, FS_Subset
<1>3. /\ \A x \in attached : pendingBytes[x] \in Nat
      /\ \A x \in attached' : pendingBytes'[x] \in Nat
      /\ \A x \in attached \ {c} : pendingBytes'[x] = pendingBytes[x]
  BY <1>1
<1>4. /\ SumFunctionOnSet(pendingBytes, attached) \in Nat /\ old \in Nat /\ new \in Nat
      /\ old <= SumFunctionOnSet(pendingBytes, attached)
      /\ SumFunctionOnSet(pendingBytes', attached')
           = SumFunctionOnSet(pendingBytes, attached) - old + new
  BY <1>2, <1>3, SumChanges
<1>5. liveQueueBytes = SumFunctionOnSet(pendingBytes, attached)
  BY DEF LiveOK
<1>. QED BY <1>4, <1>5

\* removeSubscriberLocked gives back what its subscriber has pending.
LEMMA RemovedOK ==
  ASSUME StreamInv, NEW s \in Subscriber, s \in attached, maxSubscribers' = maxSubscribers,
         NEW pending \in Nat, NEW live \in Nat, live - pending = liveQueueBytes - pendingBytes[s],
         Removed(s, pending, live)
  PROVE  /\ LiveOK' /\ liveQueueBytes' \in Nat /\ attached' = attached \ {s}
         /\ attached' \subseteq Subscriber
         /\ pendingEvents' \in [Subscriber -> Nat] /\ pendingBytes' \in [Subscriber -> Nat]
         /\ \A d \in Subscriber : d # s =>
              pendingEvents'[d] = pendingEvents[d] /\ pendingBytes'[d] = pendingBytes[d]
         /\ pendingEvents'[s] = 0 /\ pendingBytes'[s] = 0
<1>1. TypeOK /\ LiveOK
  BY DEF StreamInv
<1>2. /\ attached' = attached \ {s}
      /\ liveQueueBytes' = IF pending > live THEN 0 ELSE live - pending
      /\ pendingEvents' = [pendingEvents EXCEPT ![s] = 0]
      /\ pendingBytes' = [pendingBytes EXCEPT ![s] = 0]
  BY DEF Removed
<1>3. /\ attached \subseteq Subscriber /\ pendingEvents' \in [Subscriber -> Nat]
      /\ pendingBytes' \in [Subscriber -> Nat] /\ pendingBytes[s] \in Nat
      /\ \A d \in Subscriber : d # s =>
           pendingEvents'[d] = pendingEvents[d] /\ pendingBytes'[d] = pendingBytes[d]
      /\ pendingEvents'[s] = 0 /\ pendingBytes'[s] = 0
  BY <1>1, <1>2 DEF TypeOK
<1>4. attached' \subseteq Subscriber /\ attached \ {s} = attached' \ {s}
  BY <1>2, <1>3
<1>5. /\ pendingBytes[s] = IF s \in attached THEN pendingBytes[s] ELSE 0
      /\ 0 = IF s \in attached' THEN pendingBytes'[s] ELSE 0
  BY <1>2
<1>6. /\ liveQueueBytes \in Nat /\ pendingBytes[s] <= liveQueueBytes
      /\ SumFunctionOnSet(pendingBytes', attached') = liveQueueBytes - pendingBytes[s] + 0
  BY <1>1, <1>3, <1>4, <1>5, LiveChanges
<1>7. liveQueueBytes' = liveQueueBytes - pendingBytes[s] /\ liveQueueBytes' \in Nat
  BY <1>2, <1>3, <1>6
<1>8. liveQueueBytes' <= MaxLiveQueueBytes
  BY <1>1, <1>3, <1>6, <1>7, StreamAssumption DEF LiveOK
<1>9. Cardinality(attached') <= maxSubscribers'
  <2>1. IsFiniteSet(attached)
    BY <1>3, StreamAssumption, FS_Subset
  <2>2. Cardinality(attached) \in Nat /\ Cardinality(attached') = Cardinality(attached) - 1
    BY <1>2, <2>1, FS_RemoveElement, FS_CardinalityType
  <2>3. maxSubscribers \in Nat /\ Cardinality(attached) <= maxSubscribers
    BY <1>1, StreamAssumption DEF TypeOK, LiveOK
  <2>. QED BY <2>2, <2>3
<1>10. LiveOK'
  <2>1. liveQueueBytes' = SumFunctionOnSet(pendingBytes', attached')
    BY <1>3, <1>6, <1>7
  <2>. QED BY <1>8, <1>9, <2>1 DEF LiveOK
<1>. QED BY <1>2, <1>3, <1>4, <1>7, <1>10

LEMMA UnsubscribeMoves ==
  ASSUME StreamInv, NEW s \in Subscriber, Unsubscribe(s)
  PROVE  StreamInv'
<1>1. TypeOK /\ ClientOK(s) /\ LiveOK
  BY DEF StreamInv
<1>2. /\ holding = "nothing" /\ reader[s] \in {"drained", "broken"}
      /\ reader' = [reader EXCEPT ![s] = "gone"]
      /\ UNCHANGED runVars /\ holding' = holding /\ todo' = todo /\ queue' = queue
      /\ evicted' = evicted /\ replay' = replay /\ joined' = joined /\ seen' = seen
  BY DEF Unsubscribe
<1>3. todo = {} /\ LockOK'
  BY <1>2 DEF StreamInv, LockOK, runVars
<1>4. /\ evicted' \subseteq Subscriber /\ holding' \in {"nothing", "event", "terminal"}
      /\ queue' \in [Subscriber -> Seq(Frame)] /\ replay' \in [Subscriber -> Seq(Frame)]
      /\ reader' \in [Subscriber -> ReaderStates]
      /\ joined' \in [Subscriber -> {-1} \cup 0 .. Len(frames)] /\ seen' \in [Subscriber -> Seq(Frame)]
      /\ reader'[s] = "gone" /\ \A d \in Subscriber : d # s => reader'[d] = reader[d]
  BY <1>1, <1>2 DEF TypeOK, ReaderStates
<1>5. maxSubscribers' = maxSubscribers
  BY <1>2 DEF runVars
<1>6. /\ LiveOK' /\ liveQueueBytes' \in Nat /\ attached' = attached \ {s}
      /\ attached' \subseteq Subscriber
      /\ pendingEvents' \in [Subscriber -> Nat] /\ pendingBytes' \in [Subscriber -> Nat]
      /\ \A d \in Subscriber : d # s =>
           pendingEvents'[d] = pendingEvents[d] /\ pendingBytes'[d] = pendingBytes[d]
  <2>1. CASE s \in attached
    <3>1. pendingBytes[s] \in Nat /\ liveQueueBytes \in Nat
      BY <1>1 DEF TypeOK
    <3>2. Removed(s, pendingBytes[s], liveQueueBytes)
      BY <2>1 DEF Unsubscribe
    <3>. QED BY <1>5, <2>1, <3>1, <3>2, RemovedOK
  <2>2. CASE s \notin attached
    <3>1. UNCHANGED <<attached, liveQueueBytes, pendingEvents, pendingBytes>>
      BY <2>2 DEF Unsubscribe
    <3>. QED BY <1>1, <1>5, <2>2, <3>1 DEF TypeOK, LiveOK
  <2>. QED BY <2>1, <2>2
<1>7. todo' \subseteq attached' /\ s \notin attached'
  BY <1>2, <1>3, <1>6
<1>8. joined[s] # -1
  BY <1>1, <1>2 DEF ClientOK
<1>9. ClientOK(s)'
  BY <1>2, <1>4, <1>8 DEF ClientOK, Reading
<1>10. ASSUME NEW d \in Subscriber, d # s PROVE Quiet(d)
  BY <1>2, <1>4, <1>6, <1>10 DEF Quiet
<1>. QED BY <1>2, <1>3, <1>4, <1>6, <1>7, <1>9, <1>10, OneClient

\* The history leaves out only what was too large to be kept.
LEMMA HistoryComplete ==
  ASSUME HistoryOK
  PROVE  /\ \A i \in 1 .. Len(history) : history[i] \in Frame
         /\ \A k \in Frame : history # <<>> /\ k > history[1] /\ k \notin ToSet(history)
                               => frames[k] > MaxRetainedBytes
<1>1. /\ history \in Seq(Frame) /\ Len(history) \in Nat /\ frames \in Seq(Size \cup TerminalSize)
      /\ \A i \in 1 .. Len(history) : history[i] \in Frame
  BY LenProperties, ElementOfSeq DEF HistoryOK
<1>2. Len(frames) \in Nat /\ Frame = 1 .. Len(frames) /\ \A n \in Frame : frames[n] \in Nat
  BY <1>1, SizesAreNumbers DEF Frame
<1>3. MaxRetainedBytes \in Nat
  BY StreamAssumption
<1>4. ASSUME NEW k \in Frame, history # <<>>, k > history[1], k \notin ToSet(history)
      PROVE  frames[k] > MaxRetainedBytes
  <2>1. 1 \in 1 .. Len(history) /\ Len(history) \in 1 .. Len(history)
    BY <1>1, <1>4, EmptySeq
  <2>2. history[1] \in 1 .. Len(frames)
    BY <1>1, <1>2, <2>1
  <2>3. CASE ~done
    BY <1>2, <1>3, <1>4, <2>2, <2>3, SMTT(30) DEF HistoryOK, Retention, Kept
  <2>4. CASE done
    <3>1. Len(history) # 1
      <4>1. history[Len(history)] = Len(frames)
        BY <2>4 DEF HistoryOK, Retention, Last
      <4>. QED BY <1>2, <1>4, <2>2, <4>1
    <3>2. Kept = SubSeq(history, 1, Len(history) - 1)
      BY <2>4 DEF Kept, Front
    <3>3. /\ Len(SubSeq(history, 1, Len(history) - 1)) = Len(history) - 1
          /\ SubSeq(history, 1, Len(history) - 1)[1] = history[1]
      <4>. DEFINE n == Len(history) - 1
      <4>1. n \in Int /\ n >= 1
        <5>1. Len(history) \in Nat /\ Len(history) >= 1 /\ Len(history) # 1
          BY <1>1, <2>1, <3>1
        <5>2. \A m \in Nat : m >= 1 /\ m # 1 => m - 1 \in Int /\ m - 1 >= 1
          OBVIOUS
        <5>. HIDE DEF n
        <5>3. n = Len(history) - 1
          BY DEF n
        <5>. QED BY <5>1, <5>2, <5>3
      <4>2. \A i \in 1 .. n : history[i] \in Frame
        BY <1>1
      <4>. HIDE DEF n
      <4>3. /\ Len(SubSeq(history, 1, n)) = IF 1 <= n THEN n - 1 + 1 ELSE 0
            /\ \A i \in 1 .. n - 1 + 1 : SubSeq(history, 1, n)[i] = history[1 + i - 1]
        BY <4>1, <4>2, SubSeqProperties
      <4>4. Len(SubSeq(history, 1, n)) = n
        BY <4>1, <4>3
      <4>5. SubSeq(history, 1, n)[1] = history[1]
        <5>1. 1 \in 1 .. n - 1 + 1 /\ 1 + 1 - 1 = 1
          BY <4>1
        <5>2. SubSeq(history, 1, n)[1] = history[1 + 1 - 1]
          BY <4>3, <5>1
        <5>. QED BY <5>1, <5>2
      <4>. QED BY <4>4, <4>5 DEF n
    <3>4. Kept # <<>> /\ Kept[1] = history[1]
      <4>1. Len(Kept) # 0
        BY <1>1, <3>1, <3>2, <3>3, <2>1
      <4>. QED BY <3>2, <3>3, <4>1
    <3>. QED BY <1>2, <1>3, <1>4, <2>2, <3>4 DEF HistoryOK, Retention
  <2>. QED BY <2>3, <2>4
<1>. QED BY <1>1, <1>4

\* What a client has is the same while only its handler moves on.
LEMMA ClientStays ==
  ASSUME NEW s \in Subscriber, UNCHANGED <<frames, done, attached, evicted, todo>>,
         replay'[s] = replay[s], queue'[s] = queue[s], joined'[s] = joined[s], seen'[s] = seen[s]
  PROVE  /\ ReplayOK(s) => ReplayOK(s)'
         /\ QueueOK(s) => QueueOK(s)'
<1>1. Position(s)' = Position(s) /\ Reached(s)' = Reached(s)
  BY DEF Position, Reached
<1>2. \A k : Owed(s, k)' = Owed(s, k)
  BY <1>1 DEF Owed
<1>. QED BY <1>1, <1>2 DEF ReplayOK, Ascending, QueueOK

\* acknowledge gives back the size of the frame its handler has taken, and
\* meets none of its clamps.
LEMMA AcknowledgeGivesBack ==
  ASSUME StreamInv, NEW s \in Subscriber, Acknowledge(s), s \in attached
  PROVE  /\ pendingEvents' = [pendingEvents EXCEPT ![s] = Len(queue[s])]
         /\ pendingBytes' = [pendingBytes EXCEPT ![s] = Bytes(queue[s])]
         /\ liveQueueBytes' = liveQueueBytes - frames[Last(seen[s])]
         /\ frames[Last(seen[s])] \in Nat /\ Bytes(queue[s]) \in Nat /\ liveQueueBytes' \in Nat
         /\ pendingBytes[s] = frames[Last(seen[s])] + Bytes(queue[s])
<1>. DEFINE l == Last(seen[s])
            q == queue[s]
<1>1. TypeOK /\ ClientOK(s) /\ CountOK(s) /\ LiveOK
  BY DEF StreamInv
<1>2. reader[s] = "acknowledging"
  BY DEF Acknowledge
<1>3. /\ \A n \in Frame : frames[n] \in Nat
      /\ q \in Seq(Frame) /\ Len(q) \in Nat /\ l \in Frame /\ Frame = 1 .. Len(frames)
      /\ pendingEvents[s] \in Nat /\ pendingBytes[s] \in Nat
  <2>1. seen[s] # <<>>
    BY <1>1, <1>2 DEF ClientOK
  <2>. QED BY <1>1, <2>1, ClientTyped
<1>. DEFINE f == frames[l]
<1>4. f \in Nat
  BY <1>3
<1>5. <<l>> \in Seq(Frame) /\ Len(<<l>>) = 1
  <2>1. l \in Frame
    BY <1>3
  <2>. HIDE DEF l
  <2>. QED BY <2>1
<1>6. Unacknowledged(s) = <<l>> \o q
  BY <1>2 DEF Unacknowledged
<1>7. pendingEvents[s] = 1 + Len(q) /\ pendingBytes[s] = f + Bytes(q) /\ Bytes(q) \in Nat
  <2>1. pendingEvents[s] = Len(<<l>> \o q) /\ pendingBytes[s] = Bytes(<<l>> \o q)
    BY <1>1, <1>2, <1>6 DEF CountOK
  <2>. HIDE DEF l, q, f
  <2>2. Len(<<l>> \o q) = Len(<<l>>) + Len(q)
    BY <1>3, <1>5, ConcatProperties
  <2>3. Weight(frames, <<l>> \o q) = Weight(frames, <<l>>) + Weight(frames, q)
    BY <1>3, <1>5, WeightConcat
  <2>4. Weight(frames, <<l>>) = frames[l]
    BY <1>3, WeightSingle
  <2>5. Weight(frames, q) \in Nat
    BY <1>3, WeightIs
  <2>6. pendingBytes[s] = Weight(frames, <<l>>) + Weight(frames, q)
    BY <2>1, <2>3, BytesAre, Zenon
  <2>. QED BY <1>5, <2>1, <2>2, <2>4, <2>5, <2>6, BytesAre DEF f
<1>8. liveQueueBytes \in Nat /\ pendingBytes[s] <= liveQueueBytes
  <2>1. /\ attached \subseteq Subscriber /\ pendingBytes \in [Subscriber -> Nat]
        /\ IsFiniteSet(attached) /\ \A x \in attached : pendingBytes[x] \in Nat
        /\ liveQueueBytes = SumFunctionOnSet(pendingBytes, attached)
    BY <1>1, StreamAssumption, FS_Subset DEF TypeOK, LiveOK
  <2>2. pendingBytes[s] <= SumFunctionOnSet(pendingBytes, attached)
    <3>. DEFINE old == IF s \in attached THEN pendingBytes[s] ELSE 0
    <3>1. old <= SumFunctionOnSet(pendingBytes, attached)
      <4>1. /\ attached \ {s} = attached \ {s}
            /\ \A x \in attached \ {s} : pendingBytes[x] = pendingBytes[x]
        OBVIOUS
      <4>. HIDE DEF old
      <4>2. old = IF s \in attached THEN pendingBytes[s] ELSE 0
        BY DEF old
      <4>. QED BY <2>1, <4>1, <4>2, SumChanges
    <3>. QED BY <3>1
  <2>. QED BY <1>1, <2>1, <2>2 DEF TypeOK
<1>9. ~(frames[Last(seen[s])] > pendingBytes[s]) /\ pendingEvents[s] > 0
  BY <1>3, <1>4, <1>7
<1>10. /\ pendingEvents' = [pendingEvents EXCEPT ![s] = IF pendingEvents[s] > 0
                                                   THEN pendingEvents[s] - 1 ELSE pendingEvents[s]]
       /\ pendingBytes' = [pendingBytes EXCEPT ![s] = pendingBytes[s] - f]
       /\ liveQueueBytes' = IF f > liveQueueBytes THEN 0 ELSE liveQueueBytes - f
  BY <1>9 DEF Acknowledge
<1>. HIDE DEF f, q, l
<1>11. /\ (IF pendingEvents[s] > 0 THEN pendingEvents[s] - 1 ELSE pendingEvents[s]) = Len(q)
       /\ pendingBytes[s] - f = Bytes(q)
       /\ ~(f > liveQueueBytes) /\ liveQueueBytes - f \in Nat
  BY <1>3, <1>4, <1>7, <1>8
<1>. QED BY <1>4, <1>7, <1>10, <1>11 DEF f, q, l

LEMMA AcknowledgeMoves ==
  ASSUME StreamInv, NEW s \in Subscriber, Acknowledge(s)
  PROVE  StreamInv'
<1>1. TypeOK /\ ClientOK(s) /\ LiveOK /\ LockOK
  BY DEF StreamInv
<1>2. /\ reader[s] = "acknowledging" /\ reader' = [reader EXCEPT ![s] = "streaming"]
      /\ UNCHANGED runVars /\ holding' = holding /\ todo' = todo /\ queue' = queue
      /\ attached' = attached /\ evicted' = evicted
      /\ replay' = replay /\ joined' = joined /\ seen' = seen
  BY DEF Acknowledge
<1>3. LockOK'
  BY <1>1, <1>2 DEF LockOK, runVars
<1>4. /\ evicted' \subseteq Subscriber /\ holding' \in {"nothing", "event", "terminal"}
      /\ attached' \subseteq Subscriber /\ todo' \subseteq attached'
      /\ queue' \in [Subscriber -> Seq(Frame)] /\ replay' \in [Subscriber -> Seq(Frame)]
      /\ reader' \in [Subscriber -> ReaderStates]
      /\ joined' \in [Subscriber -> {-1} \cup 0 .. Len(frames)] /\ seen' \in [Subscriber -> Seq(Frame)]
      /\ reader'[s] = "streaming" /\ \A d \in Subscriber : d # s => reader'[d] = reader[d]
  BY <1>1, <1>2 DEF TypeOK, ReaderStates
<1>5. ClientOK(s)'
  <2>1. ReplayOK(s) /\ QueueOK(s) /\ joined[s] # -1
    BY <1>1, <1>2 DEF ClientOK, Reading
  <2>2. ReplayOK(s)' /\ QueueOK(s)'
    BY <1>2, <2>1, ClientStays DEF runVars
  <2>. QED BY <1>2, <1>4, <2>1, <2>2 DEF ClientOK, Reading
<1>6. /\ pendingEvents' \in [Subscriber -> Nat] /\ pendingBytes' \in [Subscriber -> Nat]
      /\ \A d \in Subscriber : d # s =>
           pendingEvents'[d] = pendingEvents[d] /\ pendingBytes'[d] = pendingBytes[d]
      /\ liveQueueBytes' \in Nat /\ LiveOK' /\ (s \in attached' => CountOK(s)')
  <2>1. CASE s \notin attached
    <3>1. UNCHANGED <<pendingEvents, pendingBytes, liveQueueBytes>>
      BY <2>1 DEF Acknowledge
    <3>. QED BY <1>1, <1>2, <2>1, <3>1 DEF TypeOK, LiveOK, runVars
  <2>2. CASE s \in attached
    <3>. DEFINE f == frames[Last(seen[s])]
    <3>1. /\ pendingEvents' = [pendingEvents EXCEPT ![s] = Len(queue[s])]
          /\ pendingBytes' = [pendingBytes EXCEPT ![s] = Bytes(queue[s])]
          /\ liveQueueBytes' = liveQueueBytes - f
          /\ f \in Nat /\ Bytes(queue[s]) \in Nat /\ liveQueueBytes' \in Nat
          /\ pendingBytes[s] = f + Bytes(queue[s])
      BY <2>2, AcknowledgeGivesBack
    <3>2. Len(queue[s]) \in Nat
      BY <1>1, ClientTyped
    <3>. HIDE DEF f
    <3>3. /\ pendingEvents' \in [Subscriber -> Nat] /\ pendingBytes' \in [Subscriber -> Nat]
          /\ \A d \in Subscriber : d # s =>
               pendingEvents'[d] = pendingEvents[d] /\ pendingBytes'[d] = pendingBytes[d]
          /\ pendingEvents'[s] = Len(queue[s]) /\ pendingBytes'[s] = Bytes(queue[s])
      BY <1>1, <3>1, <3>2 DEF TypeOK
    <3>4. CountOK(s)'
      <4>1. Unacknowledged(s)' = queue[s]
        BY <1>2, <1>4 DEF Unacknowledged
      <4>2. Bytes(Unacknowledged(s))' = Bytes(queue[s])
        BY <1>2, <4>1, BytesAre, NextBytesAre DEF runVars
      <4>. QED BY <1>2, <3>2, <3>3, <4>1, <4>2 DEF CountOK
    <3>5. LiveOK'
      <4>1. /\ pendingBytes[s] = IF s \in attached THEN pendingBytes[s] ELSE 0
            /\ pendingBytes'[s] = IF s \in attached' THEN pendingBytes'[s] ELSE 0
            /\ attached' \subseteq Subscriber /\ attached \ {s} = attached' \ {s}
        BY <1>2, <1>4, <2>2
      <4>2. /\ liveQueueBytes \in Nat /\ pendingBytes[s] <= liveQueueBytes
            /\ SumFunctionOnSet(pendingBytes', attached')
                 = liveQueueBytes - pendingBytes[s] + pendingBytes'[s]
        BY <1>1, <3>3, <4>1, LiveChanges
      <4>3. liveQueueBytes' = SumFunctionOnSet(pendingBytes', attached')
        BY <3>1, <3>3, <4>2
      <4>4. liveQueueBytes' <= MaxLiveQueueBytes
        <5>1. liveQueueBytes <= MaxLiveQueueBytes /\ MaxLiveQueueBytes \in Nat
          BY <1>1, StreamAssumption DEF LiveOK
        <5>. QED BY <3>1, <4>2, <5>1
      <4>. QED BY <1>1, <1>2, <4>3, <4>4 DEF LiveOK, runVars
    <3>. QED BY <3>1, <3>3, <3>4, <3>5
  <2>. QED BY <2>1, <2>2
<1>7. ASSUME NEW d \in Subscriber, d # s PROVE Quiet(d)
  BY <1>2, <1>4, <1>6, <1>7 DEF Quiet
<1>. QED BY <1>2, <1>3, <1>4, <1>5, <1>6, <1>7, OneClient

\* The copy of the history is all that a later client is owed.
LEMMA SubscriberIsServed ==
  ASSUME StreamInv, NEW s \in Subscriber, Subscribe(s)
  PROVE  /\ ClientOK(s)' /\ queue[s] = <<>> /\ pendingEvents[s] = 0 /\ pendingBytes[s] = 0
         /\ s \notin attached
<1>1. TypeOK /\ ClientOK(s) /\ HistoryOK /\ LockOK
  BY DEF StreamInv
<1>2. /\ reader[s] = "new" /\ holding = "nothing"
      /\ reader' = [reader EXCEPT ![s] = "streaming"]
      /\ replay' = [replay EXCEPT ![s] = history] /\ joined' = [joined EXCEPT ![s] = Len(frames)]
      /\ UNCHANGED runVars /\ todo' = todo /\ queue' = queue /\ evicted' = evicted /\ seen' = seen
      /\ attached' = IF done THEN attached ELSE attached \cup {s}
  BY DEF Subscribe
<1>3. /\ joined[s] = -1 /\ replay[s] = <<>> /\ queue[s] = <<>> /\ seen[s] = <<>> /\ s \notin attached
      /\ pendingEvents[s] = 0 /\ pendingBytes[s] = 0
  BY <1>1, <1>2 DEF ClientOK
<1>4. /\ reader'[s] = "streaming" /\ replay'[s] = history /\ joined'[s] = Len(frames)
      /\ queue'[s] = <<>> /\ seen'[s] = <<>>
  BY <1>1, <1>2, <1>3 DEF TypeOK
<1>5. Len(frames) \in Nat /\ Frame = 1 .. Len(frames)
  BY <1>1, ClientTyped
<1>6. Position(s)' = 0 /\ Reached(s)' = Len(frames)
  BY <1>4, <1>5 DEF Position, Reached
<1>7. ReplayOK(s)'
  <2>1. Ascending(history)'
    BY <1>1, <1>2 DEF HistoryOK, Ascending, runVars
  <2>2. \A i \in 1 .. Len(history) : 0 < history[i] /\ history[i] <= Len(frames)
    BY <1>1, <1>5, HistoryComplete
  <2>3. ASSUME NEW k \in 1 .. Len(frames), Owed(s, k)', k \notin ToSet(history)
        PROVE  frames'[k] > MaxRetainedBytes
    <3>1. history # <<>> /\ k > history[1]
      BY <1>4, <2>3 DEF Owed
    <3>. QED BY <1>1, <1>2, <1>5, <2>3, <3>1, HistoryComplete DEF runVars
  <2>. QED BY <1>2, <1>4, <1>6, <2>1, <2>2, <2>3 DEF ReplayOK, Ascending, runVars
<1>8. QueueOK(s)'
  <2>1. Len(queue'[s]) = 0
    <3>1. Len(<<>>) = 0
      OBVIOUS
    <3>. QED BY <1>4, <3>1, Zenon
  <2>2. s \notin todo' /\ frames' = frames /\ done' = done /\ history' = history
    BY <1>1, <1>2 DEF LockOK, runVars
  <2>3. s \notin attached' => done
    BY <1>2
  <2>4. done => history # <<>> /\ Last(history) = Len(frames)
    BY <1>1, DoneHasFrame
  <2>5. \A i \in 1 .. Len(queue'[s]) : queue'[s][i] = Reached(s)' + i
    BY <2>1
  <2>6. Reached(s)' + Len(queue'[s]) = Len(frames')
    BY <1>5, <1>6, <2>1, <2>2
  <2>. QED BY <1>4, <1>6, <2>2, <2>3, <2>4, <2>5, <2>6 DEF QueueOK
<1>9. ClientOK(s)'
  BY <1>4, <1>5, <1>7, <1>8 DEF ClientOK, Reading
<1>. QED BY <1>3, <1>9

LEMMA SubscribeMoves ==
  ASSUME StreamInv, NEW s \in Subscriber, Subscribe(s)
  PROVE  StreamInv'
<1>1. TypeOK /\ HistoryOK /\ LockOK /\ LiveOK
  BY DEF StreamInv
<1>2. /\ reader' = [reader EXCEPT ![s] = "streaming"]
      /\ replay' = [replay EXCEPT ![s] = history] /\ joined' = [joined EXCEPT ![s] = Len(frames)]
      /\ UNCHANGED runVars /\ holding' = holding /\ todo' = todo /\ queue' = queue
      /\ liveQueueBytes' = liveQueueBytes /\ evicted' = evicted /\ seen' = seen
      /\ pendingEvents' = pendingEvents /\ pendingBytes' = pendingBytes
      /\ attached' = IF done THEN attached ELSE attached \cup {s}
      /\ done \/ Cardinality(attached) < maxSubscribers
  BY DEF Subscribe
<1>3. /\ ClientOK(s)' /\ queue[s] = <<>> /\ pendingEvents[s] = 0 /\ pendingBytes[s] = 0
      /\ s \notin attached
  BY SubscriberIsServed
<1>4. LockOK'
  BY <1>1, <1>2 DEF LockOK, runVars
<1>5. attached' \subseteq Subscriber /\ attached \subseteq attached' /\ todo' \subseteq attached'
  BY <1>1, <1>2 DEF TypeOK
<1>6. /\ evicted' \subseteq Subscriber /\ holding' \in {"nothing", "event", "terminal"}
      /\ liveQueueBytes' \in Nat
      /\ pendingEvents' \in [Subscriber -> Nat] /\ pendingBytes' \in [Subscriber -> Nat]
      /\ queue' \in [Subscriber -> Seq(Frame)] /\ seen' \in [Subscriber -> Seq(Frame)]
  BY <1>1, <1>2 DEF TypeOK
<1>7. /\ replay' \in [Subscriber -> Seq(Frame)]
      /\ joined' \in [Subscriber -> {-1} \cup 0 .. Len(frames)]
      /\ reader' \in [Subscriber -> ReaderStates]
      /\ reader'[s] = "streaming"
      /\ \A d \in Subscriber : d # s =>
           replay'[d] = replay[d] /\ joined'[d] = joined[d] /\ reader'[d] = reader[d]
  <2>1. Len(frames) \in {-1} \cup 0 .. Len(frames) /\ history \in Seq(Frame)
    BY <1>1, ClientTyped DEF TypeOK
  <2>. QED BY <1>1, <1>2, <2>1 DEF TypeOK, ReaderStates
<1>8. ASSUME NEW d \in Subscriber, d # s PROVE Quiet(d)
  <2>1. (d \in attached') = (d \in attached)
    BY <1>2, <1>8
  <2>. QED BY <1>2, <1>7, <1>8, <2>1 DEF Quiet
<1>9. CountOK(s)'
  <2>1. Unacknowledged(s)' = <<>>
    BY <1>2, <1>3, <1>7 DEF Unacknowledged
  <2>2. Len(<<>>) = 0
    OBVIOUS
  <2>3. Bytes(Unacknowledged(s))' = 0
    BY <2>1, NextBytesAre, WeightEmpty
  <2>. QED BY <1>2, <1>3, <2>1, <2>2, <2>3 DEF CountOK
<1>10. LiveOK'
  <2>1. /\ 0 = IF s \in attached THEN pendingBytes[s] ELSE 0
        /\ 0 = IF s \in attached' THEN pendingBytes'[s] ELSE 0
        /\ attached \ {s} = attached' \ {s}
        /\ \A d \in Subscriber : d # s => pendingBytes'[d] = pendingBytes[d]
    BY <1>2, <1>3
  <2>2. liveQueueBytes \in Nat /\ SumFunctionOnSet(pendingBytes', attached') = liveQueueBytes - 0 + 0
    BY <1>1, <1>5, <1>6, <2>1, LiveChanges
  <2>3. liveQueueBytes' = SumFunctionOnSet(pendingBytes', attached')
    BY <1>2, <2>2
  <2>4. liveQueueBytes' <= MaxLiveQueueBytes
    BY <1>1, <1>2 DEF LiveOK
  <2>5. Cardinality(attached') <= maxSubscribers'
    <3>1. CASE done
      BY <1>1, <1>2, <3>1 DEF LiveOK, runVars
    <3>2. CASE ~done
      <4>1. IsFiniteSet(attached) /\ maxSubscribers \in Nat
        BY <1>1, StreamAssumption, FS_Subset DEF TypeOK
      <4>2. Cardinality(attached \cup {s}) = Cardinality(attached) + 1 /\ Cardinality(attached) \in Nat
        BY <1>3, <4>1, FS_AddElement, FS_CardinalityType
      <4>. QED BY <1>2, <3>2, <4>1, <4>2 DEF runVars
    <3>. QED BY <3>1, <3>2
  <2>. QED BY <2>3, <2>4, <2>5 DEF LiveOK
<1>. QED BY <1>2, <1>3, <1>4, <1>5, <1>6, <1>7, <1>8, <1>9, <1>10, OneClient

\* The frame being published and the client it is meant for.
LEMMA EnqueueFacts ==
  ASSUME StreamInv, NEW s \in Subscriber, Enqueue(s)
  PROVE  /\ Len(frames) \in Frame /\ Last(frames) = frames[Len(frames)] /\ Last(frames) \in Nat
         /\ s \in attached /\ joined[s] # -1 /\ CountOK(s) /\ (holding = "terminal" => done)
         /\ \A n \in Frame : frames[n] \in Nat
         /\ UNCHANGED <<runVars, holding, readVars>> /\ todo' = todo \ {s}
<1>1. TypeOK /\ ClientOK(s) /\ LockOK /\ (s \in attached => CountOK(s))
  BY DEF StreamInv
<1>2. s \in todo /\ UNCHANGED <<runVars, holding, readVars>> /\ todo' = todo \ {s}
  BY DEF Enqueue
<1>3. s \in attached
  BY <1>1, <1>2 DEF TypeOK
<1>4. Len(frames) >= 1 /\ (holding = "terminal" => done)
  BY <1>1, <1>2 DEF LockOK
<1>5. Len(frames) \in Frame /\ \A n \in Frame : frames[n] \in Nat
  BY <1>1, <1>4, ClientTyped
<1>. QED BY <1>1, <1>2, <1>3, <1>4, <1>5 DEF Last, ClientOK

\* A frame that the queue takes continues it.
LEMMA QueueContinues ==
  ASSUME StreamInv, NEW s \in Subscriber, Enqueue(s),
         queue' = [queue EXCEPT ![s] = Append(queue[s], Len(frames))], evicted' = evicted,
         s \notin attached' => done
  PROVE  /\ ClientOK(s)' /\ queue' \in [Subscriber -> Seq(Frame)]
         /\ queue'[s] = queue[s] \o <<Len(frames)>> /\ Len(queue'[s]) = Len(queue[s]) + 1
         /\ \A d \in Subscriber : d # s => queue'[d] = queue[d]
<1>. DEFINE q == queue[s]
            N == Len(frames)
<1>1. /\ N \in Frame /\ s \in attached /\ joined[s] # -1
      /\ UNCHANGED <<runVars, holding, readVars>> /\ todo' = todo \ {s} /\ s \in todo
  BY EnqueueFacts DEF Enqueue
<1>2. TypeOK /\ ClientOK(s)
  BY DEF StreamInv
<1>3. /\ q \in Seq(Frame) /\ Len(q) \in Nat /\ N \in Nat /\ joined[s] \in Int
      /\ Reached(s) \in Int /\ Position(s) \in 0 .. N
  BY <1>2, ClientTyped
<1>4. queue'[s] = Append(q, N) /\ \A d \in Subscriber : d # s => queue'[d] = queue[d]
  BY <1>2 DEF TypeOK
<1>5. /\ Append(q, N) \in Seq(Frame) /\ Len(Append(q, N)) = Len(q) + 1
      /\ Append(q, N)[Len(q) + 1] = N
      /\ \A i \in 1 .. Len(q) : Append(q, N)[i] = q[i]
      /\ Append(q, N) = q \o <<N>>
  <2>. HIDE DEF q, N
  <2>. QED BY <1>1, <1>3, AppendProperties, AppendIsConcat
<1>6. queue' \in [Subscriber -> Seq(Frame)]
  BY <1>2, <1>5 DEF TypeOK
<1>7. frames' = frames /\ done' = done /\ replay'[s] = replay[s] /\ joined'[s] = joined[s]
      /\ seen'[s] = seen[s] /\ reader'[s] = reader[s]
  BY <1>1 DEF runVars, readVars
<1>8. Position(s)' = Position(s) /\ Reached(s)' = Reached(s)
  BY <1>7 DEF Position, Reached
<1>. HIDE DEF q, N
<1>9. ReplayOK(s) => ReplayOK(s)'
  <2>1. \A k : Owed(s, k)' = Owed(s, k)
    BY <1>7, <1>8 DEF Owed
  <2>. QED BY <1>7, <1>8, <2>1 DEF ReplayOK, Ascending
<1>10. QueueOK(s) => QueueOK(s)'
  <2>. SUFFICES ASSUME QueueOK(s) PROVE QueueOK(s)'
    OBVIOUS
  <2>1. (\A i \in 1 .. Len(q) : q[i] = Reached(s) + i) /\ Reached(s) + Len(q) = N - 1
    BY <1>1 DEF QueueOK, q, N
  <2>2. Reached(s) + (Len(q) + 1) = N
    BY <1>3, <2>1
  <2>3. ASSUME NEW i \in 1 .. Len(q) + 1 PROVE Append(q, N)[i] = Reached(s) + i
    <3>1. CASE i = Len(q) + 1
      BY <1>5, <2>2, <3>1
    <3>2. CASE i # Len(q) + 1
      <4>1. i \in 1 .. Len(q)
        BY <1>3, <3>2
      <4>. QED BY <1>5, <2>1, <4>1
    <3>. QED BY <3>1, <3>2
  <2>4. joined[s] # N
    <3>1. joined[s] <= Reached(s)
      BY <1>3 DEF Reached
    <3>. QED BY <1>3, <2>2, <3>1
  <2>5. s \notin todo'
    BY <1>1
  <2>6. s \notin attached' => done'
    BY <1>7
  <2>. QED BY <1>4, <1>5, <1>7, <1>8, <2>2, <2>3, <2>4, <2>5, <2>6 DEF QueueOK, N
<1>11. ClientOK(s)'
  BY <1>1, <1>2, <1>7, <1>9, <1>10 DEF ClientOK, Reading
<1>. QED BY <1>4, <1>5, <1>6, <1>11 DEF q, N

\* An event that fits is counted with its size.
LEMMA EventIsCounted ==
  ASSUME StreamInv, NEW s \in Subscriber, Enqueue(s),
         queue'[s] = queue[s] \o <<Len(frames)>>, Len(queue'[s]) = Len(queue[s]) + 1,
         pendingEvents'[s] = pendingEvents[s] + 1,
         pendingBytes'[s] = pendingBytes[s] + Last(frames)
  PROVE  CountOK(s)'
<1>. DEFINE q == queue[s]
            N == Len(frames)
            p == IF reader[s] = "acknowledging" THEN <<Last(seen[s])>> ELSE <<>>
<1>1. /\ N \in Frame /\ Last(frames) = frames[N] /\ Last(frames) \in Nat /\ CountOK(s)
      /\ UNCHANGED <<runVars, holding, readVars>> /\ \A n \in Frame : frames[n] \in Nat
  BY EnqueueFacts
<1>2. TypeOK /\ ClientOK(s)
  BY DEF StreamInv
<1>3. /\ q \in Seq(Frame) /\ Len(q) \in Nat /\ pendingEvents[s] \in Nat /\ pendingBytes[s] \in Nat
  BY <1>2, ClientTyped
<1>4. p \in Seq(Frame)
  <2>1. CASE reader[s] = "acknowledging"
    <3>1. Last(seen[s]) \in Frame
      BY <1>2, <2>1, ClientTyped DEF ClientOK
    <3>. QED BY <2>1, <3>1
  <2>2. CASE reader[s] # "acknowledging"
    BY <2>2
  <2>. QED BY <2>1, <2>2
<1>5. <<N>> \in Seq(Frame) /\ q \o <<N>> \in Seq(Frame)
  <2>1. N \in Frame /\ q \in Seq(Frame)
    BY <1>1, <1>3
  <2>. HIDE DEF N, q
  <2>. QED BY <2>1
<1>6. Unacknowledged(s) = p \o q
  <2>1. CASE reader[s] = "acknowledging"
    BY <2>1 DEF Unacknowledged
  <2>2. CASE reader[s] # "acknowledging"
    <3>1. <<>> \o q = q
      <4>. HIDE DEF q
      <4>. QED BY <1>3, ConcatEmptySeq
    <3>. QED BY <2>2, <3>1 DEF Unacknowledged
  <2>. QED BY <2>1, <2>2
<1>7. /\ reader'[s] = reader[s] /\ seen'[s] = seen[s] /\ frames' = frames
  BY <1>1 DEF readVars, runVars
<1>8. Unacknowledged(s)' = p \o (q \o <<N>>)
  <2>1. CASE reader[s] = "acknowledging"
    BY <1>7, <2>1 DEF Unacknowledged
  <2>2. CASE reader[s] # "acknowledging"
    <3>1. <<>> \o (q \o <<N>>) = q \o <<N>>
      <4>. HIDE DEF q, N
      <4>. QED BY <1>5, ConcatEmptySeq
    <3>. QED BY <1>7, <2>2, <3>1 DEF Unacknowledged
  <2>. QED BY <2>1, <2>2
<1>. HIDE DEF p, q, N
<1>9. Len(p) \in Nat /\ Len(p \o q) = Len(p) + Len(q) /\ Len(p \o (q \o <<N>>)) = Len(p) + (Len(q) + 1)
  <2>1. Len(p \o q) = Len(p) + Len(q) /\ Len(p \o (q \o <<N>>)) = Len(p) + Len(q \o <<N>>)
    BY <1>3, <1>4, <1>5, ConcatProperties
  <2>2. Len(q \o <<N>>) = Len(q) + 1
    BY DEF q, N
  <2>3. Len(p) \in Nat
    BY <1>4, LenProperties
  <2>. QED BY <2>1, <2>2, <2>3
<1>10. /\ Weight(frames, p \o q) \in Nat
       /\ Weight(frames, p \o (q \o <<N>>)) = Weight(frames, p \o q) + frames[N]
  <2>1. /\ Weight(frames, p \o q) = Weight(frames, p) + Weight(frames, q)
        /\ Weight(frames, p \o (q \o <<N>>)) = Weight(frames, p) + Weight(frames, q \o <<N>>)
        /\ Weight(frames, q \o <<N>>) = Weight(frames, q) + Weight(frames, <<N>>)
    BY <1>1, <1>3, <1>4, <1>5, WeightConcat, ZenonT(40)
  <2>2. Weight(frames, <<N>>) = frames[N]
    BY <1>1, WeightSingle
  <2>3. Weight(frames, p) \in Nat /\ Weight(frames, q) \in Nat /\ frames[N] \in Nat
    BY <1>1, <1>3, <1>4, WeightIs
  <2>. QED BY <2>1, <2>2, <2>3
<1>11. ASSUME reader[s] # "broken"
       PROVE  /\ pendingEvents'[s] = Len(Unacknowledged(s)')
              /\ pendingBytes'[s] = Bytes(Unacknowledged(s))'
  <2>1. pendingEvents[s] = Len(p \o q) /\ pendingBytes[s] = Weight(frames, p \o q)
    BY <1>1, <1>6, <1>11, BytesAre DEF CountOK
  <2>2. Bytes(Unacknowledged(s))' = Weight(frames, p \o (q \o <<N>>))
    BY <1>7, <1>8, NextBytesAre
  <2>3. pendingBytes'[s] = Weight(frames, p \o q) + frames[N]
    BY <1>1, <2>1, Zenon
  <2>4. pendingEvents'[s] = Len(p) + (Len(q) + 1)
    BY <1>3, <1>9, <2>1
  <2>. QED BY <1>8, <1>9, <1>10, <2>2, <2>3, <2>4, Zenon
<1>12. Len(queue'[s]) <= pendingEvents'[s]
  <2>1. Len(q) <= pendingEvents[s]
    BY <1>1 DEF CountOK, q
  <2>. QED BY <1>3, <2>1 DEF q
<1>. QED BY <1>7, <1>11, <1>12 DEF CountOK

LEMMA EnqueueMoves ==
  ASSUME StreamInv, NEW s \in Subscriber, Enqueue(s)
  PROVE  StreamInv'
<1>. DEFINE size == Last(frames)
<1>1. TypeOK /\ ClientOK(s) /\ LiveOK /\ LockOK
  BY DEF StreamInv
<1>2. /\ s \in attached /\ joined[s] # -1 /\ size \in Nat /\ (holding = "terminal" => done)
      /\ UNCHANGED <<runVars, holding, readVars>> /\ todo' = todo \ {s} /\ s \in todo
  BY EnqueueFacts DEF Enqueue
<1>3. LockOK'
  BY <1>1, <1>2 DEF LockOK, runVars
<1>4. /\ holding' \in {"nothing", "event", "terminal"} /\ replay' \in [Subscriber -> Seq(Frame)]
      /\ reader' \in [Subscriber -> ReaderStates]
      /\ joined' \in [Subscriber -> {-1} \cup 0 .. Len(frames)] /\ seen' \in [Subscriber -> Seq(Frame)]
      /\ \A d \in Subscriber : reader'[d] = reader[d] /\ replay'[d] = replay[d]
                               /\ joined'[d] = joined[d] /\ seen'[d] = seen[d]
  BY <1>1, <1>2 DEF TypeOK, readVars
<1>5. todo \subseteq attached /\ attached \subseteq Subscriber /\ evicted \subseteq Subscriber
      /\ pendingBytes \in [Subscriber -> Nat] /\ pendingEvents \in [Subscriber -> Nat]
      /\ liveQueueBytes \in Nat /\ queue \in [Subscriber -> Seq(Frame)]
  BY <1>1 DEF TypeOK
<1>6. maxSubscribers' = maxSubscribers /\ frames' = frames
  BY <1>2 DEF runVars
<1>. HIDE DEF size
<1>7. ASSUME NEW pending \in Nat, NEW live \in Nat, Removed(s, pending, live),
             live - pending = liveQueueBytes - pendingBytes[s],
             evicted' \subseteq Subscriber, queue' \in [Subscriber -> Seq(Frame)],
             \A d \in Subscriber : d # s => queue'[d] = queue[d] /\ ((d \in evicted') = (d \in evicted)),
             attached' = attached \ {s} => ClientOK(s)'
      PROVE  StreamInv'
  <2>1. /\ LiveOK' /\ liveQueueBytes' \in Nat /\ attached' = attached \ {s}
        /\ attached' \subseteq Subscriber
        /\ pendingEvents' \in [Subscriber -> Nat] /\ pendingBytes' \in [Subscriber -> Nat]
        /\ \A d \in Subscriber : d # s =>
             pendingEvents'[d] = pendingEvents[d] /\ pendingBytes'[d] = pendingBytes[d]
    BY <1>2, <1>6, <1>7, RemovedOK
  <2>2. todo' \subseteq attached' /\ s \notin attached'
    BY <1>2, <1>5, <2>1
  <2>3. ASSUME NEW d \in Subscriber, d # s PROVE Quiet(d)
    <3>1. (d \in attached') = (d \in attached) /\ (d \in todo') = (d \in todo)
      BY <1>2, <2>1, <2>3
    <3>. QED BY <1>4, <1>7, <2>1, <2>3, <3>1 DEF Quiet
  <2>4. UNCHANGED runVars /\ ClientOK(s)'
    BY <1>2, <1>7, <2>1
  <2>. QED BY <1>3, <1>4, <1>7, <2>1, <2>2, <2>3, <2>4, OneClient
<1>8. CASE Fits(s, size) /\ holding = "terminal"
  <2>1. /\ queue' = [queue EXCEPT ![s] = Append(queue[s], Len(frames))] /\ evicted' = evicted
        /\ Removed(s, pendingBytes[s] + size, liveQueueBytes + size)
    BY <1>8 DEF Enqueue, size
  <2>2. /\ ClientOK(s)' /\ queue' \in [Subscriber -> Seq(Frame)]
        /\ \A d \in Subscriber : d # s => queue'[d] = queue[d]
    BY <1>2, <1>8, <2>1, QueueContinues
  <2>3. /\ pendingBytes[s] + size \in Nat /\ liveQueueBytes + size \in Nat
        /\ (liveQueueBytes + size) - (pendingBytes[s] + size) = liveQueueBytes - pendingBytes[s]
    <3>1. pendingBytes[s] \in Nat
      BY <1>5
    <3>. QED BY <1>2, <1>5, <3>1
  <2>4. evicted' \subseteq Subscriber
        /\ \A d \in Subscriber : d # s => queue'[d] = queue[d] /\ ((d \in evicted') = (d \in evicted))
    BY <1>5, <2>1, <2>2
  <2>. QED BY <1>7, <2>1, <2>2, <2>3, <2>4
<1>9. CASE Fits(s, size) /\ holding # "terminal"
  <2>1. /\ queue' = [queue EXCEPT ![s] = Append(queue[s], Len(frames))] /\ evicted' = evicted
        /\ pendingEvents' = [pendingEvents EXCEPT ![s] = pendingEvents[s] + 1]
        /\ pendingBytes' = [pendingBytes EXCEPT ![s] = pendingBytes[s] + size]
        /\ liveQueueBytes' = liveQueueBytes + size /\ attached' = attached
    BY <1>9 DEF Enqueue, size
  <2>2. /\ ClientOK(s)' /\ queue' \in [Subscriber -> Seq(Frame)]
        /\ queue'[s] = queue[s] \o <<Len(frames)>> /\ Len(queue'[s]) = Len(queue[s]) + 1
        /\ \A d \in Subscriber : d # s => queue'[d] = queue[d]
    BY <1>2, <2>1, QueueContinues
  <2>3. /\ pendingEvents' \in [Subscriber -> Nat] /\ pendingBytes' \in [Subscriber -> Nat]
        /\ pendingEvents'[s] = pendingEvents[s] + 1 /\ pendingBytes'[s] = pendingBytes[s] + size
        /\ \A d \in Subscriber : d # s =>
             pendingEvents'[d] = pendingEvents[d] /\ pendingBytes'[d] = pendingBytes[d]
    BY <1>2, <1>5, <2>1
  <2>4. CountOK(s)'
    BY <2>2, <2>3, EventIsCounted DEF size
  <2>5. LiveOK'
    <3>1. /\ pendingBytes[s] = IF s \in attached THEN pendingBytes[s] ELSE 0
          /\ pendingBytes'[s] = IF s \in attached' THEN pendingBytes'[s] ELSE 0
          /\ attached' \subseteq Subscriber /\ attached \ {s} = attached' \ {s}
      BY <1>2, <1>5, <2>1
    <3>2. SumFunctionOnSet(pendingBytes', attached')
            = liveQueueBytes - pendingBytes[s] + pendingBytes'[s]
      BY <1>1, <2>3, <3>1, LiveChanges
    <3>3. liveQueueBytes' = SumFunctionOnSet(pendingBytes', attached')
      <4>1. pendingBytes[s] \in Nat
        BY <1>5
      <4>. QED BY <1>2, <1>5, <2>1, <2>3, <3>2, <4>1
    <3>4. liveQueueBytes' <= MaxLiveQueueBytes
      BY <1>9, <2>1 DEF Fits
    <3>5. Cardinality(attached') <= maxSubscribers'
      BY <1>1, <1>6, <2>1 DEF LiveOK
    <3>. QED BY <3>3, <3>4, <3>5 DEF LiveOK
  <2>6. todo' \subseteq attached' /\ attached' \subseteq Subscriber /\ evicted' \subseteq Subscriber
        /\ liveQueueBytes' \in Nat /\ UNCHANGED runVars
    BY <1>2, <1>5, <2>1
  <2>7. ASSUME NEW d \in Subscriber, d # s PROVE Quiet(d)
    <3>1. (d \in todo') = (d \in todo)
      BY <1>2, <2>7
    <3>. QED BY <1>4, <2>1, <2>2, <2>3, <2>7, <3>1 DEF Quiet
  <2>. QED BY <1>3, <1>4, <2>2, <2>3, <2>4, <2>5, <2>6, <2>7, OneClient
<1>10. CASE ~Fits(s, size)
  <2>1. /\ Removed(s, pendingBytes[s], liveQueueBytes) /\ evicted' = evicted \cup {s}
        /\ queue' = queue
    BY <1>10 DEF Enqueue, Overflow, size
  <2>2. ASSUME attached' = attached \ {s} PROVE ClientOK(s)'
    <3>1. /\ Position(s)' = Position(s) /\ Reached(s)' = Reached(s)
      BY <1>2, <1>4 DEF Position, Reached
    <3>2. \A k : Owed(s, k)' = Owed(s, k)
      BY <1>4, <3>1 DEF Owed
    <3>3. ReplayOK(s) => ReplayOK(s)'
      BY <1>4, <1>6, <3>1, <3>2 DEF ReplayOK, Ascending
    <3>4. QueueOK(s) => QueueOK(s)'
      BY <2>1, <2>2, <3>1 DEF QueueOK
    <3>. QED BY <1>1, <1>2, <1>4, <2>1, <3>3, <3>4 DEF ClientOK, Reading
  <2>3. /\ evicted' \subseteq Subscriber /\ queue' \in [Subscriber -> Seq(Frame)]
        /\ \A d \in Subscriber : d # s => queue'[d] = queue[d] /\ ((d \in evicted') = (d \in evicted))
    BY <1>5, <2>1
  <2>4. pendingBytes[s] \in Nat
    BY <1>5
  <2>. QED BY <1>5, <1>7, <2>1, <2>2, <2>3, <2>4
<1>. QED BY <1>8, <1>9, <1>10

LEMMA UnlockMoves ==
  ASSUME StreamInv, Unlock
  PROVE  StreamInv'
<1>1. /\ UNCHANGED <<runVars, todo, queue, queueVars, readVars>> /\ holding' = "nothing" /\ todo = {}
      /\ TypeOK /\ HistoryOK /\ LiveOK
  BY DEF Unlock, StreamInv
<1>2. Frame' = Frame
  BY <1>1 DEF Frame, runVars
<1>3. TypeOK'
  BY <1>1, <1>2 DEF TypeOK, runVars, queueVars, readVars
<1>4. HistoryOK' /\ LockOK' /\ LiveOK'
  BY <1>1, HistoryStays, LiveStays DEF LockOK, runVars
<1>5. ASSUME NEW s \in Subscriber PROVE ClientOK(s)' /\ (s \in attached' => CountOK(s)')
  <2>1. Quiet(s) /\ frames' = frames /\ done' = done
    BY <1>1 DEF Quiet, runVars, queueVars, readVars
  <2>. QED BY <2>1, QuietClient DEF StreamInv
<1>. QED BY <1>3, <1>4, <1>5 DEF StreamInv

-----------------------------------------------------------------------------
(* The steps of the publisher. *)

\* A client when a frame is published that nobody has been given yet.
LEMMA ClientAwaitsFrame ==
  ASSUME StreamInv, ~done, holding = "nothing", NEW size \in Size \cup TerminalSize,
         frames' = Append(frames, size), todo' = attached, UNCHANGED <<queue, queueVars, readVars>>,
         NEW s \in Subscriber
  PROVE  ClientOK(s)' /\ (s \in attached' => CountOK(s)')
<1>1. TypeOK /\ ClientOK(s) /\ (s \in attached => CountOK(s)) /\ todo = {}
  BY DEF StreamInv, LockOK
<1>2. /\ replay'[s] = replay[s] /\ queue'[s] = queue[s] /\ reader'[s] = reader[s]
      /\ joined'[s] = joined[s] /\ seen'[s] = seen[s] /\ pendingEvents' = pendingEvents
      /\ pendingBytes' = pendingBytes /\ attached' = attached /\ evicted' = evicted
  BY DEF queueVars, readVars
<1>3. /\ Len(frames) \in Nat /\ Frame = 1 .. Len(frames) /\ \A n \in Frame : frames[n] \in Nat
      /\ queue[s] \in Seq(Frame) /\ joined[s] \in Int /\ joined[s] <= Len(frames)
      /\ Len(queue[s]) \in Nat /\ Reached(s) \in Int
      /\ (seen[s] # <<>> => Last(seen[s]) \in Frame)
  BY <1>1, ClientTyped
<1>4. Len(frames') = Len(frames) + 1 /\ \A n \in Frame : frames'[n] = frames[n]
  BY <1>1, <1>3, AppendProperties DEF TypeOK
<1>5. Position(s)' = Position(s) /\ Reached(s)' = Reached(s)
  BY <1>2 DEF Position, Reached
<1>6. ReplayOK(s) => ReplayOK(s)'
  <2>1. \A k : Owed(s, k)' = Owed(s, k)
    BY <1>2, <1>5 DEF Owed
  <2>2. \A k \in 1 .. joined[s] : frames'[k] = frames[k]
    BY <1>3, <1>4
  <2>. QED BY <1>2, <1>5, <2>1, <2>2 DEF ReplayOK, Ascending
<1>7. QueueOK(s) => QueueOK(s)'
  <2>. SUFFICES ASSUME QueueOK(s) PROVE QueueOK(s)'
    OBVIOUS
  <2>1. /\ \A i \in 1 .. Len(queue[s]) : queue[s][i] = Reached(s) + i
        /\ s \in attached => Reached(s) + Len(queue[s]) = Len(frames)
        /\ ~(s \notin attached /\ s \notin evicted)
    BY <1>1 DEF QueueOK
  <2>2. s \in attached => s \in todo' /\ Reached(s) + Len(queue[s]) = Len(frames') - 1
    BY <1>3, <1>4, <2>1
  <2>. QED BY <1>2, <1>5, <2>1, <2>2 DEF QueueOK
<1>8. ClientOK(s)'
  BY <1>1, <1>2, <1>6, <1>7 DEF ClientOK, Reading
<1>9. CASE s \in attached
  <2>1. Unacknowledged(s)' = Unacknowledged(s)
    BY <1>2 DEF Unacknowledged
  <2>2. Unacknowledged(s) \in Seq(Frame)
    <3>1. CASE reader[s] = "acknowledging"
      <4>1. Last(seen[s]) \in Frame
        BY <1>1, <1>3, <3>1 DEF ClientOK
      <4>2. <<Last(seen[s])>> \in Seq(Frame)
        BY <4>1
      <4>3. <<Last(seen[s])>> \o queue[s] \in Seq(Frame)
        BY <1>3, <4>2, ConcatProperties
      <4>. QED BY <3>1, <4>3 DEF Unacknowledged
    <3>2. CASE reader[s] # "acknowledging"
      BY <1>3, <3>2 DEF Unacknowledged
    <3>. QED BY <3>1, <3>2
  <2>3. Weight(frames', Unacknowledged(s)) = Weight(frames, Unacknowledged(s))
    <3>1. \A n \in Frame : frames[n] \in Nat /\ frames'[n] = frames[n]
      BY <1>3, <1>4
    <3>. QED BY <2>2, <3>1, WeightSame, ZenonT(40)
  <2>4. Bytes(Unacknowledged(s))' = Bytes(Unacknowledged(s))
    BY <2>1, <2>3, BytesAre, NextBytesAre
  <2>5. CountOK(s)'
    BY <1>1, <1>2, <1>9, <2>1, <2>4 DEF CountOK
  <2>. QED BY <1>8, <2>5
<1>. QED BY <1>2, <1>8, <1>9

\* What a new frame does to all clients and to the lock.
LEMMA FramePublished ==
  ASSUME StreamInv, ~done, holding = "nothing", NEW size \in Size \cup TerminalSize,
         frames' = Append(frames, size), todo' = attached, UNCHANGED <<queue, queueVars, readVars>>,
         maxSubscribers' = maxSubscribers, holding' \in {"event", "terminal"},
         holding' = "terminal" => done', HistoryOK'
  PROVE  StreamInv'
<1>1. TypeOK /\ LiveOK
  BY DEF StreamInv
<1>2. Len(frames) \in Nat /\ Len(frames') = Len(frames) + 1
  BY <1>1, AppendProperties, LenProperties DEF TypeOK
<1>3. Seq(Frame) \subseteq Seq(Frame')
  <2>1. Frame \subseteq Frame'
    BY <1>2 DEF Frame
  <2>. QED BY <2>1, SeqMonotonic
<1>4. /\ queue' \in [Subscriber -> Seq(Frame')] /\ replay' \in [Subscriber -> Seq(Frame')]
      /\ seen' \in [Subscriber -> Seq(Frame')]
  <2>1. /\ queue \in [Subscriber -> Seq(Frame)] /\ replay \in [Subscriber -> Seq(Frame)]
        /\ seen \in [Subscriber -> Seq(Frame)]
    BY <1>1 DEF TypeOK
  <2>2. queue' = queue /\ replay' = replay /\ seen' = seen
    BY DEF readVars
  <2>. HIDE DEF Frame
  <2>. QED BY <1>3, <2>1, <2>2
<1>5. joined' \in [Subscriber -> {-1} \cup 0 .. Len(frames')]
  <2>1. {-1} \cup 0 .. Len(frames) \subseteq {-1} \cup 0 .. Len(frames')
    BY <1>2
  <2>. QED BY <1>1, <2>1 DEF TypeOK, readVars
<1>6. /\ frames' \in Seq(Size \cup TerminalSize) /\ history' \in Seq(Frame')
      /\ normalEvents' \in Nat /\ normalBytes' \in Nat /\ done' \in BOOLEAN
  BY DEF HistoryOK
<1>7. TypeOK'
  BY <1>1, <1>4, <1>5, <1>6 DEF TypeOK, queueVars, readVars
<1>8. LockOK' /\ LiveOK'
  <2>1. Len(frames') >= 1
    BY <1>2
  <2>. QED BY <1>1, <2>1, LiveStays DEF LockOK
<1>9. \A s \in Subscriber : ClientOK(s)' /\ (s \in attached' => CountOK(s)')
  BY ClientAwaitsFrame
<1>. QED BY <1>7, <1>8, <1>9 DEF StreamInv

LEMMA PublishMoves ==
  ASSUME StreamInv, NEW size \in Size, Publish(size)
  PROVE  StreamInv'
<1>1. /\ holding = "nothing" /\ ~done /\ frames' = Append(frames, size) /\ Retain(size)
      /\ holding' = "event" /\ todo' = attached /\ done' = done /\ maxSubscribers' = maxSubscribers
      /\ UNCHANGED <<queue, queueVars, readVars>>
  BY DEF Publish
<1>2. HistoryOK'
  BY <1>1, Retains DEF StreamInv
<1>3. size \in Size \cup TerminalSize /\ holding' \in {"event", "terminal"}
      /\ (holding' = "terminal" => done')
  BY <1>1
<1>. QED BY <1>1, <1>2, <1>3, FramePublished

LEMMA PublishTerminalMoves ==
  ASSUME StreamInv, NEW size \in TerminalSize, PublishTerminal(size)
  PROVE  StreamInv'
<1>1. /\ holding = "nothing" /\ ~done /\ frames' = Append(frames, size)
      /\ history' = Append(history, Len(frames) + 1) /\ UNCHANGED <<normalEvents, normalBytes>>
      /\ holding' = "terminal" /\ todo' = attached /\ done' = TRUE /\ maxSubscribers' = maxSubscribers
      /\ UNCHANGED <<queue, queueVars, readVars>>
  BY DEF PublishTerminal
<1>2. HistoryOK'
  BY <1>1, RetainsTerminal DEF StreamInv
<1>3. size \in Size \cup TerminalSize /\ holding' \in {"event", "terminal"}
      /\ (holding' = "terminal" => done')
  BY <1>1
<1>. QED BY <1>1, <1>2, <1>3, FramePublished

-----------------------------------------------------------------------------
(* The invariant and what follows from it. *)

LEMMA StreamStarts ==
  ASSUME Init
  PROVE  StreamInv
<1>1. /\ maxSubscribers \in SubscriberLimit /\ frames = <<>> /\ history = <<>>
      /\ normalEvents = 0 /\ normalBytes = 0 /\ liveQueueBytes = 0
      /\ attached = {} /\ evicted = {} /\ done = FALSE /\ holding = "nothing" /\ todo = {}
      /\ queue = [s \in Subscriber |-> <<>>]
      /\ pendingEvents = [s \in Subscriber |-> 0] /\ pendingBytes = [s \in Subscriber |-> 0]
      /\ replay = [s \in Subscriber |-> <<>>] /\ reader = [s \in Subscriber |-> "new"]
      /\ joined = [s \in Subscriber |-> -1] /\ seen = [s \in Subscriber |-> <<>>]
  BY DEF Init
<1>2. Len(<<>>) = 0 /\ Frame = 1 .. 0
  BY <1>1 DEF Frame
<1>3. frames \in Seq(Size \cup TerminalSize) /\ history \in Seq(Frame)
  BY <1>1
<1>4. TypeOK
  <2>1. /\ queue \in [Subscriber -> Seq(Frame)] /\ replay \in [Subscriber -> Seq(Frame)]
        /\ seen \in [Subscriber -> Seq(Frame)]
    BY <1>1
  <2>2. reader \in [Subscriber -> ReaderStates] /\ joined \in [Subscriber -> {-1} \cup 0 .. Len(frames)]
    BY <1>1 DEF ReaderStates
  <2>. QED BY <1>1, <1>3, <2>1, <2>2 DEF TypeOK
<1>5. HistoryOK
  <2>1. Kept = <<>> /\ Bytes(Kept) = 0
    BY <1>1, BytesAre, WeightEmpty DEF Kept
  <2>2. MaxRetainedEvents \in Nat /\ MaxRetainedBytes \in Nat
    BY StreamAssumption
  <2>3. Ascending(history)
    BY <1>1 DEF Ascending
  <2>4. Retention
    BY <1>1, <1>2, <2>1, <2>2 DEF Retention
  <2>. QED BY <1>1, <1>3, <2>3, <2>4 DEF HistoryOK
<1>6. LiveOK
  <2>1. SumFunctionOnSet(pendingBytes, {}) = 0
    <3>1. IsFiniteSet({}) /\ \A x \in {} : pendingBytes[x] \in Nat
      BY FS_EmptySet
    <3>. QED BY <3>1, SumLaws
  <2>2. Cardinality({}) = 0
    BY FS_EmptySet
  <2>3. maxSubscribers \in Nat /\ MaxLiveQueueBytes \in Nat
    BY <1>1, StreamAssumption
  <2>. QED BY <1>1, <2>1, <2>2, <2>3 DEF LiveOK
<1>7. LockOK
  BY <1>1 DEF LockOK
<1>8. ASSUME NEW s \in Subscriber PROVE ClientOK(s) /\ s \notin attached
  BY <1>1 DEF ClientOK, Reading
<1>. QED BY <1>4, <1>5, <1>6, <1>7, <1>8 DEF StreamInv

LEMMA StreamStep ==
  ASSUME StreamInv, [Next]_vars
  PROVE  StreamInv'
<1>1. CASE UNCHANGED vars
  <2>1. /\ UNCHANGED <<runVars, holding, todo, queue, queueVars, readVars>>
        /\ TypeOK /\ HistoryOK /\ LiveOK /\ LockOK
    BY <1>1 DEF vars, StreamInv
  <2>2. TypeOK' /\ LockOK'
    BY <2>1 DEF TypeOK, LockOK, Frame, runVars, queueVars, readVars
  <2>3. HistoryOK' /\ LiveOK'
    BY <2>1, HistoryStays, LiveStays DEF runVars
  <2>4. ASSUME NEW s \in Subscriber PROVE ClientOK(s)' /\ (s \in attached' => CountOK(s)')
    <3>1. Quiet(s) /\ frames' = frames /\ done' = done
      BY <2>1 DEF Quiet, runVars, queueVars, readVars
    <3>. QED BY <3>1, QuietClient DEF StreamInv
  <2>. QED BY <2>2, <2>3, <2>4 DEF StreamInv
<1>2. CASE \E size \in Size : Publish(size)
  BY <1>2, PublishMoves
<1>3. CASE \E size \in TerminalSize : PublishTerminal(size)
  BY <1>3, PublishTerminalMoves
<1>4. CASE Unlock
  BY <1>4, UnlockMoves
<1>5. ASSUME NEW s \in Subscriber, Enqueue(s) PROVE StreamInv'
  BY <1>5, EnqueueMoves
<1>6. ASSUME NEW s \in Subscriber, Subscribe(s) \/ RefuseSubscribe(s) PROVE StreamInv'
  BY <1>6, SubscribeMoves, RefuseMoves
<1>7. ASSUME NEW s \in Subscriber, Client(s) PROVE StreamInv'
  BY <1>7, ReplayMoves, DeliverMoves, AcknowledgeMoves, EndMoves, UnsubscribeMoves DEF Client
<1>8. ASSUME NEW s \in Subscriber, Break(s) PROVE StreamInv'
  BY <1>8, BreakMoves
<1>. QED BY <1>1, <1>2, <1>3, <1>4, <1>5, <1>6, <1>7, <1>8 DEF Next, Publisher

\* Every reachable state of a run's event stream, with any number of clients
\* that subscribe, read, acknowledge, fall behind and leave in any order, and a
\* publisher that serves them one by one (runState.publish, subscribeLocked,
\* acknowledge, removeSubscriberLocked), satisfies the inductive invariant.
THEOREM StreamKeepsInv == Spec => []StreamInv
<1>1. Init => StreamInv
  BY StreamStarts
<1>2. StreamInv /\ [Next]_vars => StreamInv'
  BY StreamStep
<1>. QED BY <1>1, <1>2, PTL DEF Spec

\* What runState counts is what is there: in each live queue together with the
\* frame its handler has taken, over all live queues, and in the history; the
\* counts stay within the configured limits, the newest frames that may be kept
\* are kept, and the send under r.mu finds room in the channel.
THEOREM BudgetsAreExact == Spec => []Budgets
<1>1. ASSUME StreamInv PROVE Budgets
  <2>1. TypeOK /\ Retention /\ LiveOK
    BY <1>1 DEF StreamInv, HistoryOK
  <2>2. ASSUME NEW s \in todo, Fits(s, Last(frames))
        PROVE  Len(queue[s]) < MaxSubscriberQueueEvents
    <3>1. s \in attached /\ s \in Subscriber
      BY <2>1 DEF TypeOK
    <3>2. Len(queue[s]) <= pendingEvents[s] /\ Len(queue[s]) \in Nat /\ pendingEvents[s] \in Nat
      BY <1>1, <2>1, <3>1, ClientTyped DEF StreamInv, CountOK
    <3>3. pendingEvents[s] + 1 <= MaxSubscriberQueueEvents /\ MaxSubscriberQueueEvents \in Nat
      BY <2>2, StreamAssumption DEF Fits
    <3>. QED BY <3>2, <3>3
  <2>3. ASSUME NEW s \in attached, reader[s] # "broken"
        PROVE  /\ pendingEvents[s] = Len(Unacknowledged(s))
               /\ pendingBytes[s] = Bytes(Unacknowledged(s))
    <3>1. s \in Subscriber
      BY <2>1 DEF TypeOK
    <3>. QED BY <1>1, <2>3, <3>1 DEF StreamInv, CountOK
  <2>. QED BY <2>1, <2>2, <2>3 DEF Budgets, NeverBlocks, LiveBudget, LiveOK
<1>2. StreamInv => Budgets
  BY <1>1
<1>. QED BY <1>2, StreamKeepsInv, PTL

\* A stream that the handler ends by itself, because its queue is closed and
\* empty, has delivered the run's terminal event, unless its client was evicted.
THEOREM StreamEndsWithTerminal == Spec => []EndsWithTerminal
<1>1. StreamInv => EndsWithTerminal
  BY DEF StreamInv, ClientOK, EndsWithTerminal
<1>. QED BY <1>1, StreamKeepsInv, PTL

-----------------------------------------------------------------------------
(* The refinement of RunLog: what one client receives. *)

LEMMA LogPosition == ASSUME NEW s PROVE Log!Position(s) = Position(s)
  BY DEF Log!Position, Position

\* Between two frames of the replay only frames too large to be kept are missing.
LEMMA ReplayReceives ==
  ASSUME StreamInv, NEW s \in Subscriber, Replay(s)
  PROVE  Log!Receive(s, Head(replay[s])) /\ Head(replay[s]) \in 1 .. Len(frames)
<1>. DEFINE r == replay[s]
            h == Head(r)
<1>1. TypeOK /\ ClientOK(s)
  BY DEF StreamInv
<1>2. /\ reader[s] = "streaming" /\ r # <<>> /\ seen' = [seen EXCEPT ![s] = Append(seen[s], h)]
      /\ frames' = frames /\ done' = done /\ joined' = joined
  BY DEF Replay, runVars
<1>3. /\ Len(frames) \in Nat /\ Frame = 1 .. Len(frames) /\ r \in Seq(Frame) /\ Len(r) \in Nat
      /\ joined[s] \in Int /\ joined[s] <= Len(frames) /\ Position(s) \in 0 .. Len(frames)
      /\ (seen[s] # <<>> => Position(s) \in Frame)
  BY <1>1, ClientTyped
<1>4. Len(r) >= 1 /\ h = r[1] /\ h \in Frame
  BY <1>2, <1>3, HeadTailFacts
<1>5. /\ \A i, j \in 1 .. Len(r) : i < j => r[i] < r[j]
      /\ \A i \in 1 .. Len(r) : Position(s) < r[i] /\ r[i] <= joined[s]
      /\ \A k \in 1 .. joined[s] : Owed(s, k) /\ k \notin ToSet(r) => frames[k] > MaxRetainedBytes
      /\ joined[s] # -1
  BY <1>1, <1>2 DEF ClientOK, Reading, ReplayOK, Ascending
<1>. HIDE DEF h, r
<1>6. Position(s) < h /\ h <= joined[s]
  BY <1>3, <1>4, <1>5
<1>7. ASSUME NEW k \in (Position(s) + 1) .. (h - 1)
      PROVE  k <= joined[s] /\ (seen[s] = <<>> \/ frames[k] > MaxRetainedBytes)
  <2>1. k \in 1 .. joined[s] /\ k > Position(s) /\ k < h
    BY <1>3, <1>4, <1>6
  <2>2. k \notin ToSet(r)
    <3>. SUFFICES ASSUME NEW i \in 1 .. Len(r), k = r[i] PROVE FALSE
      BY <1>3, LenProperties DEF ToSet
    <3>1. i = 1 \/ 1 < i
      BY <1>3
    <3>2. 1 \in 1 .. Len(r)
      BY <1>3, <1>4
    <3>3. h \in Int
      BY <1>3, <1>4
    <3>4. h <= k
      BY <1>4, <1>5, <3>1, <3>2, <3>3
    <3>. QED BY <2>1, <3>3, <3>4
  <2>3. seen[s] # <<>> => Owed(s, k)
    BY <2>1 DEF Owed
  <2>. QED BY <1>5, <2>1, <2>2, <2>3
<1>8. Log!Receive(s, h)
  BY <1>2, <1>5, <1>6, <1>7, LogPosition DEF Log!Receive
<1>. QED BY <1>3, <1>4, <1>8 DEF h, r

\* The queue goes on right after the history, or after the frame received last.
LEMMA DeliverReceives ==
  ASSUME StreamInv, NEW s \in Subscriber, Deliver(s)
  PROVE  Log!Receive(s, Head(queue[s])) /\ Head(queue[s]) \in 1 .. Len(frames)
<1>. DEFINE q == queue[s]
            h == Head(q)
<1>1. TypeOK /\ ClientOK(s)
  BY DEF StreamInv
<1>2. /\ reader[s] = "streaming" /\ replay[s] = <<>> /\ q # <<>>
      /\ seen' = [seen EXCEPT ![s] = Append(seen[s], h)]
      /\ frames' = frames /\ done' = done /\ joined' = joined
  BY DEF Deliver, TakesLive, runVars
<1>3. /\ Len(frames) \in Nat /\ Frame = 1 .. Len(frames) /\ q \in Seq(Frame) /\ Len(q) \in Nat
      /\ joined[s] \in Int /\ Position(s) \in 0 .. Len(frames) /\ Reached(s) \in Int
  BY <1>1, ClientTyped
<1>4. Len(q) >= 1 /\ h = q[1] /\ h \in Frame
  BY <1>2, <1>3, HeadTailFacts
<1>5. /\ \A i \in 1 .. Len(q) : q[i] = Reached(s) + i
      /\ \A k \in 1 .. joined[s] : Owed(s, k) /\ k \notin ToSet(replay[s]) => frames[k] > MaxRetainedBytes
      /\ joined[s] # -1
  BY <1>1, <1>2 DEF ClientOK, Reading, ReplayOK, QueueOK
<1>. HIDE DEF h, q
<1>6. h = Reached(s) + 1
  BY <1>3, <1>4, <1>5
<1>7. Position(s) < h /\ (Reached(s) = Position(s) \/ Reached(s) = joined[s])
  <2>1. Reached(s) >= Position(s) /\ (Reached(s) = Position(s) \/ Reached(s) = joined[s])
    BY <1>3 DEF Reached
  <2>. QED BY <1>3, <1>6, <2>1
<1>8. ASSUME NEW k \in (Position(s) + 1) .. (h - 1)
      PROVE  k <= joined[s] /\ (seen[s] = <<>> \/ frames[k] > MaxRetainedBytes)
  <2>1. k \in 1 .. joined[s] /\ k > Position(s)
    BY <1>3, <1>6, <1>7
  <2>2. k \notin ToSet(replay[s])
    BY <1>2 DEF ToSet
  <2>3. seen[s] # <<>> => Owed(s, k)
    BY <2>1 DEF Owed
  <2>. QED BY <1>5, <2>1, <2>2, <2>3
<1>9. Log!Receive(s, h)
  BY <1>2, <1>5, <1>7, <1>8, LogPosition DEF Log!Receive
<1>. QED BY <1>3, <1>4, <1>9 DEF h, q

\* A run's event stream implements the log its clients may rely on: with all
\* its queues, budgets, evictions and locks, a client of GET
\* /api/runs/{id}/events receives events in their order and none twice, and
\* between two of them it misses only events that were published before it
\* subscribed and were too large to be retained (subscribeLocked, next).
THEOREM StreamImplementsLog == Spec => LogSpec
<1>1. Init => Log!Init
  BY DEF Init, Log!Init
<1>2. ASSUME StreamInv, [Next]_vars
      PROVE  [Log!Next]_(Log!logVars)
  <2>. DEFINE Same == UNCHANGED <<frames, done, joined, seen>>
  <2>1. Same => UNCHANGED Log!logVars
    BY DEF Log!logVars
  <2>. HIDE DEF Same
  <2>2. CASE UNCHANGED vars
    BY <2>1, <2>2 DEF Same, vars, runVars, readVars
  <2>3. ASSUME NEW size \in Size \cup TerminalSize, ~done, done' \in BOOLEAN,
               frames' = Append(frames, size), UNCHANGED <<joined, seen>>
        PROVE  Log!Next
    BY <2>3 DEF Log!Next, Log!Write
  <2>4. ASSUME NEW size \in Size, Publish(size) PROVE Log!Next
    <3>1. ~done /\ done' = done /\ frames' = Append(frames, size) /\ UNCHANGED <<joined, seen>>
      BY <2>4 DEF Publish, readVars
    <3>2. done' \in BOOLEAN
      BY <1>2, <3>1 DEF StreamInv, TypeOK
    <3>. QED BY <2>3, <3>1, <3>2
  <2>5. ASSUME NEW size \in TerminalSize, PublishTerminal(size) PROVE Log!Next
    <3>1. ~done /\ done' = TRUE /\ frames' = Append(frames, size) /\ UNCHANGED <<joined, seen>>
      BY <2>5 DEF PublishTerminal, readVars
    <3>. QED BY <2>3, <3>1
  <2>6. Unlock => Same
    BY DEF Unlock, Same, runVars, readVars
  <2>7. ASSUME NEW s \in Subscriber PROVE Enqueue(s) => Same
    BY DEF Enqueue, Same, runVars, readVars
  <2>8. ASSUME NEW s \in Subscriber, Subscribe(s) PROVE Log!Next
    <3>1. joined[s] = -1
      BY <1>2, <2>8 DEF StreamInv, ClientOK, Subscribe
    <3>2. joined' = [joined EXCEPT ![s] = Len(frames)] /\ UNCHANGED <<frames, done, seen>>
      BY <2>8 DEF Subscribe, runVars
    <3>3. Log!Join(s)
      BY <3>1, <3>2 DEF Log!Join
    <3>. QED BY <3>3 DEF Log!Next
  <2>9. ASSUME NEW s \in Subscriber, Replay(s) \/ Deliver(s) PROVE Log!Next
    <3>1. \E n \in 1 .. Len(frames) : Log!Receive(s, n)
      BY <1>2, <2>9, ReplayReceives, DeliverReceives
    <3>. QED BY <3>1 DEF Log!Next
  <2>10. ASSUME NEW s \in Subscriber
         PROVE  RefuseSubscribe(s) \/ Acknowledge(s) \/ EndOfStream(s) \/ Unsubscribe(s) \/ Break(s)
                  => Same
    BY DEF RefuseSubscribe, Acknowledge, EndOfStream, Unsubscribe, Break, Same, runVars, readVars
  <2>. QED BY <1>2, <2>1, <2>2, <2>4, <2>5, <2>6, <2>7, <2>8, <2>9, <2>10
           DEF Next, Publisher, Client
<1>. QED BY <1>1, <1>2, StreamKeepsInv, PTL DEF Spec, LogSpec, Log!Spec

-----------------------------------------------------------------------------
(* ProviderStream: the contents of a message. *)

Item == {"thinking", "text"} \cup Id

EventRecord ==
  [type : {"begin", "start", "delta", "end", "done", "error"}, at : Nat, partial : Seq(Item)]

Names(e, x) == e.at \in DOMAIN e.partial /\ e.partial[e.at] = x

LEMMA ContainsBoth ==
  ASSUME NEW s \in Seq(Item), NEW t \in Seq(Item)
  PROVE  /\ s \o t \in Seq(Item)
         /\ \A x : Contains(s \o t, x) <=> Contains(s, x) \/ Contains(t, x)
<1>1. /\ s \o t \in Seq(Item) /\ Len(s \o t) = Len(s) + Len(t) /\ Len(s) \in Nat /\ Len(t) \in Nat
      /\ \A i \in 1..Len(s) : (s \o t)[i] = s[i]
      /\ \A i \in 1..Len(t) : (s \o t)[Len(s) + i] = t[i]
  <2>1. \A i \in 1..Len(t) : (s \o t)[Len(s) + i] = t[i]
    <3>. SUFFICES ASSUME NEW i \in 1..Len(t) PROVE (s \o t)[Len(s) + i] = t[i]
      OBVIOUS
    <3>1. Len(s) + i \in 1..(Len(s) + Len(t)) /\ ~(Len(s) + i <= Len(s)) /\ (Len(s) + i) - Len(s) = i
      OBVIOUS
    <3>. QED BY <3>1
  <2>. QED BY <2>1
<1>. DEFINE u == s \o t
<1>. HIDE DEF u
<1>2. ASSUME NEW x PROVE Contains(u, x) <=> Contains(s, x) \/ Contains(t, x)
  <2>1. ASSUME NEW i \in 1..Len(u), u[i] = x PROVE Contains(s, x) \/ Contains(t, x)
    <3>1. CASE i <= Len(s)
      BY <1>1, <2>1, <3>1 DEF Contains, u
    <3>2. CASE ~(i <= Len(s))
      <4>1. i - Len(s) \in 1..Len(t) /\ Len(s) + (i - Len(s)) = i
        BY <1>1, <3>2 DEF u
      <4>. QED BY <1>1, <2>1, <4>1 DEF Contains, u
    <3>. QED BY <3>1, <3>2
  <2>2. ASSUME NEW i \in 1..Len(s), s[i] = x PROVE Contains(u, x)
    BY <1>1, <2>2 DEF Contains, u
  <2>3. ASSUME NEW i \in 1..Len(t), t[i] = x PROVE Contains(u, x)
    <3>1. Len(s) + i \in 1..Len(u)
      BY <1>1 DEF u
    <3>. QED BY <1>1, <2>3, <3>1 DEF Contains, u
  <2>. QED BY <2>1, <2>2, <2>3 DEF Contains
<1>. QED BY <1>1, <1>2 DEF u

LEMMA ContainsOne ==
  ASSUME NEW y \in Item
  PROVE  <<y>> \in Seq(Item) /\ \A x : Contains(<<y>>, x) <=> x = y
BY DEF Contains

LEMMA ContainsNone == <<>> \in Seq(Item) /\ \A x : ~Contains(<<>>, x)
BY DEF Contains

\* What is in a sequence is somewhere first.
LEMMA FirstOf ==
  ASSUME NEW s, Len(s) \in Nat, NEW x, Contains(s, x)
  PROVE  \E i \in 1..Len(s) : s[i] = x /\ \A j \in 1..(i - 1) : s[j] # x
<1>. DEFINE T == {i \in 1..Len(s) : s[i] = x}
            R == OpToRel(<, Nat)
<1>1. T # {} /\ T \subseteq Nat
  BY DEF Contains
<1>2. PICK i \in T : \A j \in T : ~(<<j, i>> \in R)
  BY <1>1, WFMin, NatLessThanWellFounded
<1>3. i \in 1..Len(s) /\ s[i] = x /\ \A j \in T : ~(j < i)
  <2>1. i \in Nat /\ \A j \in T : j \in Nat
    BY <1>1, <1>2
  <2>2. \A j \in T : ~(j < i)
    <3>. HIDE DEF T
    <3>. QED BY <1>2, <2>1 DEF OpToRel
  <2>. QED BY <1>2, <2>2
<1>4. ASSUME NEW j \in 1..(i - 1) PROVE s[j] # x
  <2>1. j \in 1..Len(s) /\ j < i
    BY <1>3
  <2>. QED BY <1>3, <2>1
<1>. QED BY <1>3, <1>4

\* An index of an item is one.
LEMMA AtNames ==
  ASSUME NEW content \in Seq(Item), NEW x, Contains(content, x),
         NEW type \in {"begin", "start", "delta", "end", "done", "error"}
  PROVE  /\ At(type, x, content) \in EventRecord /\ Names(At(type, x, content), x)
         /\ At(type, x, content).type = type
<1>1. PICK i \in 1..Len(content) : content[i] = x /\ \A j \in 1..(i - 1) : content[j] # x
  <2>1. Len(content) \in Nat
    OBVIOUS
  <2>. QED BY <2>1, FirstOf
<1>2. i \in DOMAIN content /\ DOMAIN content \subseteq Nat
  OBVIOUS
<1>3. IndexOf(x, content) \in DOMAIN content /\ content[IndexOf(x, content)] = x
  BY <1>1, <1>2 DEF IndexOf
<1>. QED BY <1>2, <1>3 DEF At, Event, EventRecord, Names

LEMMA TextsContain ==
  ASSUME NEW th \in Nat, NEW tx \in Nat
  PROVE  /\ Texts(th, tx) \in Seq(Item)
         /\ \A x : Contains(Texts(th, tx), x) <=> (x = "thinking" /\ th > 0) \/ (x = "text" /\ tx > 0)
<1>1. "thinking" \in Item /\ "text" \in Item
  BY DEF Item
<1>. DEFINE a == IF th > 0 THEN <<"thinking">> ELSE <<>>
            b == IF tx > 0 THEN <<"text">> ELSE <<>>
<1>2. a \in Seq(Item) /\ \A x : Contains(a, x) <=> x = "thinking" /\ th > 0
  BY <1>1, ContainsOne, ContainsNone
<1>3. b \in Seq(Item) /\ \A x : Contains(b, x) <=> x = "text" /\ tx > 0
  BY <1>1, ContainsOne, ContainsNone
<1>4. Texts(th, tx) = a \o b
  BY DEF Texts
<1>. HIDE DEF a, b
<1>. QED BY <1>2, <1>3, <1>4, ContainsBoth

Distinct(s) == \A k, l \in 1..Len(s) : s[k] = s[l] => k = l

\* The members of s that are not "none" are there once, up to n.
OnceIn(s, n) == \A k, l \in 1..n : s[k] = s[l] /\ s[k] # "none" => k = l

\* f(n) is what the loop of Given has made of the first n members.
LoopOf(f, s, k) ==
  /\ f \in [0..k -> Seq(Item)] /\ f[0] = <<>>
  /\ \A n \in 1..k : f[n] = IF s[n] = "none" THEN f[n - 1] ELSE Append(f[n - 1], s[n])
  /\ \A n \in 0..k : \A x : Contains(f[n], x) <=> x # "none" /\ \E i \in 1..n : s[i] = x
  /\ \A n \in 0..k : OnceIn(s, n) => Distinct(f[n])

LEMMA LoopGoesOn ==
  ASSUME NEW s \in Seq(Item \cup {"none"}), NEW k \in Nat, k < Len(s), NEW f, LoopOf(f, s, k)
  PROVE  \E g : LoopOf(g, s, k + 1)
<1>. DEFINE y    == s[k + 1]
            last == IF y = "none" THEN f[k] ELSE Append(f[k], y)
            g    == [n \in 0..(k + 1) |-> IF n = k + 1 THEN last ELSE f[n]]
<1>1. /\ k + 1 \in 1..Len(s) /\ k \in 0..k /\ f[k] \in Seq(Item) /\ y \in Item \cup {"none"}
      /\ \A x : Contains(f[k], x) <=> x # "none" /\ \E i \in 1..k : s[i] = x
      /\ OnceIn(s, k) => Distinct(f[k])
  BY DEF LoopOf
<1>. HIDE DEF y
<1>2. /\ last \in Seq(Item)
      /\ \A x : Contains(last, x) <=> Contains(f[k], x) \/ (x = y /\ x # "none")
      /\ ~Contains(f[k], y) /\ Distinct(f[k]) => Distinct(last)
      /\ y = "none" /\ Distinct(f[k]) => Distinct(last)
  <2>1. CASE y = "none"
    BY <1>1, <2>1
  <2>2. CASE y # "none"
    <3>1. y \in Item /\ last = Append(f[k], y)
      BY <1>1, <2>2
    <3>. HIDE DEF last
    <3>2. /\ last \in Seq(Item) /\ Len(f[k]) \in Nat /\ Len(last) = Len(f[k]) + 1
          /\ last[Len(f[k]) + 1] = y /\ \A i \in 1..Len(f[k]) : last[i] = f[k][i]
      BY <1>1, <3>1
    <3>3. \A i : i \in 1..Len(last) <=> i \in 1..Len(f[k]) \/ i = Len(f[k]) + 1
      BY <3>2
    <3>4. \A x : Contains(last, x) <=> Contains(f[k], x) \/ x = y
      BY <3>2, <3>3 DEF Contains
    <3>5. ~Contains(f[k], y) /\ Distinct(f[k]) => Distinct(last)
      <4>1. SUFFICES ASSUME ~Contains(f[k], y), Distinct(f[k]),
                            NEW i \in 1..Len(last), NEW j \in 1..Len(last), last[i] = last[j]
                     PROVE  i = j
        BY DEF Distinct
      <4>2. \A n \in 1..Len(f[k]) : f[k][n] # y
        BY <4>1 DEF Contains
      <4>. QED BY <3>2, <3>3, <4>1, <4>2 DEF Distinct
    <3>. QED BY <2>2, <3>2, <3>4, <3>5
  <2>. QED BY <2>1, <2>2
<1>. HIDE DEF last
<1>3. g \in [0..(k + 1) -> Seq(Item)] /\ g[0] = <<>> /\ g[k + 1] = last
  BY <1>2 DEF LoopOf
<1>4. ASSUME NEW n \in 0..k PROVE g[n] = f[n]
  OBVIOUS
<1>. HIDE DEF g
<1>5. ASSUME NEW n \in 1..(k + 1)
      PROVE  g[n] = IF s[n] = "none" THEN g[n - 1] ELSE Append(g[n - 1], s[n])
  <2>1. CASE n = k + 1
    <3>1. n - 1 = k /\ g[k] = f[k]
      BY <1>4, <2>1
    <3>. QED BY <1>3, <2>1, <3>1 DEF last, y
  <2>2. CASE n # k + 1
    <3>1. n \in 1..k /\ n \in 0..k /\ n - 1 \in 0..k
      BY <2>2
    <3>. QED BY <1>4, <3>1 DEF LoopOf
  <2>. QED BY <2>1, <2>2
<1>6. ASSUME NEW n \in 0..(k + 1)
      PROVE  /\ \A x : Contains(g[n], x) <=> x # "none" /\ \E i \in 1..n : s[i] = x
             /\ OnceIn(s, n) => Distinct(g[n])
  <2>1. CASE n = k + 1
    <3>1. \A i : i \in 1..n <=> i \in 1..k \/ i = k + 1
      BY <2>1
    <3>2. \A x : Contains(g[n], x) <=> x # "none" /\ \E i \in 1..n : s[i] = x
      <4>. SUFFICES ASSUME NEW x PROVE Contains(last, x) <=> x # "none" /\ \E i \in 1..n : s[i] = x
        BY <1>3, <2>1
      <4>1. (\E i \in 1..n : s[i] = x) <=> (\E i \in 1..k : s[i] = x) \/ x = y
        BY <3>1 DEF y
      <4>. QED BY <1>1, <1>2, <4>1
    <3>3. ASSUME OnceIn(s, n) PROVE Distinct(last)
      <4>1. Distinct(f[k])
        BY <1>1, <3>1, <3>3 DEF OnceIn
      <4>2. CASE y = "none"
        BY <1>2, <4>1, <4>2
      <4>3. CASE y # "none"
        <5>1. ASSUME NEW i \in 1..k, s[i] = y PROVE FALSE
          <6>1. i \in 1..n /\ k + 1 \in 1..n /\ s[i] = s[k + 1] /\ s[i] # "none" /\ i # k + 1
            BY <2>1, <3>1, <4>3, <5>1 DEF y
          <6>. QED BY <3>3, <6>1 DEF OnceIn
        <5>2. ~Contains(f[k], y)
          BY <1>1, <5>1
        <5>. QED BY <1>2, <4>1, <5>2
      <4>. QED BY <4>2, <4>3
    <3>. QED BY <1>3, <2>1, <3>2, <3>3
  <2>2. CASE n # k + 1
    <3>1. n \in 0..k
      BY <2>2
    <3>. QED BY <1>4, <3>1 DEF LoopOf
  <2>. QED BY <2>1, <2>2
<1>7. LoopOf(g, s, k + 1)
  BY <1>3, <1>5, <1>6 DEF LoopOf
<1>. QED BY <1>7

LEMMA LoopEnds ==
  ASSUME NEW s \in Seq(Item \cup {"none"})
  PROVE  \E f : LoopOf(f, s, Len(s))
<1>. DEFINE C == {k \in Nat : k <= Len(s) => \E f : LoopOf(f, s, k)}
<1>1. 0 \in C
  <2>. DEFINE f == [n \in 0..0 |-> <<>>]
  <2>1. f \in [0..0 -> Seq(Item)] /\ f[0] = <<>>
    OBVIOUS
  <2>2. \A n \in 0..0 : n = 0 /\ \A i \in 1..n : FALSE
    OBVIOUS
  <2>. HIDE DEF f
  <2>3. (\A n \in 1..0 : FALSE) /\ Distinct(<<>>) /\ \A x : ~Contains(<<>>, x)
    BY ContainsNone DEF Distinct
  <2>4. LoopOf(f, s, 0)
    BY <2>1, <2>2, <2>3 DEF LoopOf
  <2>. QED BY <2>4
<1>2. ASSUME NEW k \in Nat, k \in C PROVE k + 1 \in C
  <2>. SUFFICES ASSUME k + 1 <= Len(s) PROVE \E f : LoopOf(f, s, k + 1)
    OBVIOUS
  <2>1. k < Len(s) /\ k <= Len(s)
    OBVIOUS
  <2>2. PICK f : LoopOf(f, s, k)
    BY <1>2, <2>1
  <2>. QED BY <2>1, <2>2, LoopGoesOn
<1>3. Nat \subseteq C
  <2>. HIDE DEF C
  <2>. QED BY <1>1, <1>2, SetInduction
<1>4. Len(s) \in Nat
  OBVIOUS
<1>. QED BY <1>3, <1>4

\* Given keeps what is not "none".
LEMMA GivenIs ==
  ASSUME NEW s \in Seq(Item \cup {"none"})
  PROVE  /\ Given(s) \in Seq(Item)
         /\ \A x : Contains(Given(s), x) <=> x # "none" /\ \E i \in 1..Len(s) : s[i] = x
         /\ OnceIn(s, Len(s)) => Distinct(Given(s))
<1>. DEFINE step(h) == [n \in 0..Len(s) |->
                          IF n = 0 THEN <<>>
                          ELSE IF s[n] = "none" THEN h[n - 1]
                          ELSE Append(h[n - 1], s[n])]
            given == CHOOSE h : h = step(h)
<1>0. Len(s) \in Nat
  OBVIOUS
<1>1. PICK f : LoopOf(f, s, Len(s))
  BY LoopEnds
<1>2. f = step(f)
  <2>1. f = [n \in 0..Len(s) |-> f[n]]
    BY <1>1 DEF LoopOf
  <2>2. ASSUME NEW n \in 0..Len(s)
        PROVE  f[n] = IF n = 0 THEN <<>>
                      ELSE IF s[n] = "none" THEN f[n - 1]
                      ELSE Append(f[n - 1], s[n])
    <3>1. n = 0 \/ n \in 1..Len(s)
      BY <1>0
    <3>. QED BY <1>1, <3>1 DEF LoopOf
  <2>. QED BY <2>1, <2>2
<1>3. given = step(given)
  <2>. HIDE DEF step
  <2>. QED BY <1>2
<1>4. Given(s) = given[Len(s)]
  BY DEF Given
<1>5. /\ given[0] = <<>>
      /\ \A n \in 1..Len(s) : given[n] = IF s[n] = "none" THEN given[n - 1] ELSE Append(given[n - 1], s[n])
  <2>. HIDE DEF given
  <2>1. /\ step(given)[0] = <<>>
        /\ \A n \in 1..Len(s) : step(given)[n] = IF s[n] = "none" THEN given[n - 1] ELSE Append(given[n - 1], s[n])
    BY <1>0
  <2>. HIDE DEF step
  <2>. QED BY <1>3, <2>1
<1>. HIDE DEF given, step
<1>. DEFINE C == {k \in Nat : k <= Len(s) => given[k] = f[k]}
<1>6. 0 \in C
  BY <1>1, <1>5 DEF LoopOf
<1>7. ASSUME NEW k \in Nat, k \in C PROVE k + 1 \in C
  <2>. SUFFICES ASSUME k + 1 <= Len(s) PROVE given[k + 1] = f[k + 1]
    OBVIOUS
  <2>1. k + 1 \in 1..Len(s) /\ (k + 1) - 1 = k /\ given[k] = f[k]
    BY <1>0, <1>7
  <2>. QED BY <1>1, <1>5, <2>1 DEF LoopOf
<1>8. Nat \subseteq C
  <2>. HIDE DEF C
  <2>. QED BY <1>6, <1>7, SetInduction
<1>9. given[Len(s)] = f[Len(s)] /\ Len(s) \in 0..Len(s)
  BY <1>0, <1>8
<1>. QED BY <1>1, <1>4, <1>9 DEF LoopOf

CallRecord == [id : Id \cup {"none"}, named : BOOLEAN, started : BOOLEAN]

\* The content of a message has its texts and the calls that have an id and a name.
LEMMA ContentContains ==
  ASSUME NEW th \in Nat, NEW tx \in Nat, NEW cs \in [Key -> CallRecord], NEW ord \in Seq(Key)
  PROVE  /\ WithCalls(th, tx, cs, ord) \in Seq(Item)
         /\ \A k \in Key : Contains(ord, k) /\ IsKnown(cs[k]) => Contains(WithCalls(th, tx, cs, ord), cs[k].id)
<1>. DEFINE s == [n \in DOMAIN ord |-> IF IsKnown(cs[ord[n]]) THEN cs[ord[n]].id ELSE "none"]
<1>1. DOMAIN ord = 1..Len(ord) /\ Len(ord) \in Nat /\ \A n \in 1..Len(ord) : ord[n] \in Key
  OBVIOUS
<1>2. \A n \in 1..Len(ord) : (IF IsKnown(cs[ord[n]]) THEN cs[ord[n]].id ELSE "none") \in Item \cup {"none"}
  BY <1>1 DEF CallRecord, Item
<1>3. /\ s \in Seq(Item \cup {"none"}) /\ Len(s) = Len(ord)
      /\ \A n \in 1..Len(ord) : s[n] = IF IsKnown(cs[ord[n]]) THEN cs[ord[n]].id ELSE "none"
  BY <1>1, <1>2
<1>4. WithCalls(th, tx, cs, ord) = Texts(th, tx) \o Given(s)
  BY DEF WithCalls
<1>. HIDE DEF s
<1>5. /\ Given(s) \in Seq(Item)
      /\ \A x : Contains(Given(s), x) <=> x # "none" /\ \E i \in 1..Len(s) : s[i] = x
  BY <1>3, GivenIs
<1>6. /\ WithCalls(th, tx, cs, ord) \in Seq(Item)
      /\ \A x : Contains(Given(s), x) => Contains(WithCalls(th, tx, cs, ord), x)
  <2>1. Texts(th, tx) \in Seq(Item)
    BY TextsContain
  <2>. QED BY ONLY <1>4, <1>5, <2>1, ContainsBoth
<1>7. ASSUME NEW k \in Key, Contains(ord, k), IsKnown(cs[k]) PROVE Contains(Given(s), cs[k].id)
  <2>1. PICK n \in 1..Len(ord) : ord[n] = k
    BY <1>7 DEF Contains
  <2>2. n \in 1..Len(s) /\ s[n] = cs[k].id
    BY <1>3, <1>7, <2>1
  <2>3. cs[k].id # "none"
    BY <1>7 DEF IsKnown
  <2>. QED BY <1>5, <2>2, <2>3
<1>. QED BY <1>6, <1>7

\* Once keeps each item, and each one time.
LEMMA OnceIs ==
  ASSUME NEW content \in Seq(Item)
  PROVE  /\ Once(content) \in Seq(Item) /\ Distinct(Once(content))
         /\ \A x : Contains(Once(content), x) <=> Contains(content, x)
<1>. DEFINE s == [i \in DOMAIN content |->
                    IF \E j \in 1..(i - 1) : content[j] = content[i] THEN "none" ELSE content[i]]
<1>1. DOMAIN content = 1..Len(content) /\ Len(content) \in Nat /\ \A i \in 1..Len(content) : content[i] \in Item
  OBVIOUS
<1>2. "none" \notin Item
  BY StreamConstants DEF Item
<1>3. /\ s \in Seq(Item \cup {"none"}) /\ Len(s) = Len(content)
      /\ \A i \in 1..Len(content) :
           s[i] = IF \E j \in 1..(i - 1) : content[j] = content[i] THEN "none" ELSE content[i]
  BY <1>1
<1>4. Once(content) = Given(s)
  BY DEF Once
<1>. HIDE DEF s
<1>5. /\ Given(s) \in Seq(Item)
      /\ \A x : Contains(Given(s), x) <=> x # "none" /\ \E i \in 1..Len(s) : s[i] = x
      /\ OnceIn(s, Len(s)) => Distinct(Given(s))
  BY <1>3, GivenIs
<1>6. ASSUME NEW x, Contains(content, x) PROVE x # "none" /\ \E i \in 1..Len(s) : s[i] = x
  <2>1. PICK i \in 1..Len(content) : content[i] = x /\ \A j \in 1..(i - 1) : content[j] # x
    BY <1>1, <1>6, FirstOf
  <2>. QED BY <1>1, <1>2, <1>3, <2>1
<1>7. ASSUME NEW x, x # "none", NEW i \in 1..Len(s), s[i] = x PROVE Contains(content, x)
  BY <1>3, <1>7 DEF Contains
<1>8. ASSUME NEW k \in 1..Len(s), NEW l \in 1..Len(s), s[k] = s[l], s[k] # "none", k < l PROVE FALSE
  <2>1. content[k] = s[k] /\ content[l] = s[l]
    BY <1>3, <1>8
  <2>2. k \in 1..(l - 1) /\ content[k] = content[l]
    BY <1>1, <1>3, <1>8, <2>1
  <2>. QED BY <1>3, <1>8, <2>2
<1>9. OnceIn(s, Len(s))
  <2>. SUFFICES ASSUME NEW k \in 1..Len(s), NEW l \in 1..Len(s), s[k] = s[l], s[k] # "none" PROVE k = l
    BY DEF OnceIn
  <2>1. k < l \/ l < k \/ k = l
    BY <1>1, <1>3
  <2>. QED BY <1>8, <2>1
<1>. QED BY <1>4, <1>5, <1>6, <1>7, <1>9

-----------------------------------------------------------------------------
(* The events of a stream. *)

Telling == {"start", "delta", "end"}

AboutIn(p, x) == {i \in DOMAIN p : p[i].type \in Telling /\ p[i].partial[p[i].at] = x}

\* A stream under way that has told of no items but those of S, and has started,
\* once and first, those of S that are in J.
Grows(p, S, J) ==
  /\ p \in Seq(EventRecord)
  /\ \A i \in DOMAIN p :
       /\ p[i].type \in {"begin", "start", "delta"} /\ (p[i].type = "begin" <=> i = 1)
       /\ i # 1 => p[i].at \in DOMAIN p[i].partial
  /\ J \subseteq Item
  /\ \A x \in Item : AboutIn(p, x) # {} => x \in S
  /\ \A x \in J : /\ x \in S => AboutIn(p, x) # {}
                  /\ \A i \in AboutIn(p, x) : p[i].type = "start" <=> \A j \in AboutIn(p, x) : i <= j

\* EventsFit, of a stream p that is closed, where each item of J is told of in order.
FitsIn(p, J) ==
  /\ p \in Seq(EventRecord) /\ p # <<>> /\ p[Len(p)].type \in Terminal
  /\ \A i \in DOMAIN p :
       /\ p[i].type = "begin" <=> (i = 1 /\ ~(p[1].type \in Terminal))
       /\ p[i].type \in Terminal => i = Len(p)
       /\ p[i].type \in Telling => p[i].at \in DOMAIN p[i].partial
  /\ \A x \in J : \A i \in AboutIn(p, x) :
       /\ p[i].type = "start" <=> \A j \in AboutIn(p, x) : i <= j
       /\ p[i].type = "end" => \A j \in AboutIn(p, x) : j <= i
  /\ p[Len(p)].type = "done" =>
       \A x \in Item :
         IF Contains(p[Len(p)].partial, x)
         THEN \E i \in AboutIn(p, x) : \A j \in AboutIn(p, x) : p[j].type = "end" <=> j = i
         ELSE AboutIn(p, x) = {}

LEMMA PushedOne ==
  ASSUME NEW p \in Seq(EventRecord), NEW e \in EventRecord
  PROVE  LET q == Append(p, e)
         IN  /\ q \in Seq(EventRecord) /\ q # <<>> /\ Len(q) = Len(p) + 1 /\ Len(p) \in Nat
             /\ DOMAIN q = DOMAIN p \cup {Len(p) + 1} /\ q[Len(p) + 1] = e
             /\ \A i \in DOMAIN p : q[i] = p[i] /\ i \in 1..Len(p) /\ i # Len(p) + 1
<1>1. Append(p, e) # <<>>
  BY AppendProperties
<1>. QED BY <1>1

LEMMA AboutAfter ==
  ASSUME NEW p \in Seq(EventRecord), NEW e \in EventRecord, NEW y, e.type \in Telling, Names(e, y), NEW x
  PROVE  AboutIn(Append(p, e), x) = AboutIn(p, x) \cup (IF x = y THEN {Len(p) + 1} ELSE {})
<1>. DEFINE q == Append(p, e)
<1>1. /\ DOMAIN q = DOMAIN p \cup {Len(p) + 1} /\ q[Len(p) + 1] = e
      /\ \A i \in DOMAIN p : q[i] = p[i] /\ i # Len(p) + 1
  BY PushedOne
<1>. HIDE DEF q
<1>. QED BY <1>1 DEF AboutIn, Names, q

LEMMA AboutUnmoved ==
  ASSUME NEW p \in Seq(EventRecord), NEW e \in EventRecord, e.type \notin Telling, NEW x
  PROVE  AboutIn(Append(p, e), x) = AboutIn(p, x)
<1>. DEFINE q == Append(p, e)
<1>1. /\ DOMAIN q = DOMAIN p \cup {Len(p) + 1} /\ q[Len(p) + 1] = e
      /\ \A i \in DOMAIN p : q[i] = p[i] /\ i # Len(p) + 1
  BY PushedOne
<1>. HIDE DEF q
<1>. QED BY <1>1 DEF AboutIn, q

LEMMA NothingGrows == \A J \in SUBSET Item : Grows(<<>>, {}, J)
<1>1. <<>> \in Seq(EventRecord) /\ DOMAIN <<>> = {}
  OBVIOUS
<1>. QED BY <1>1 DEF Grows, AboutIn

LEMMA BeginGrows == \A J \in SUBSET Item : Grows(<<Event("begin", 1, <<>>)>>, {}, J)
<1>. DEFINE e == Event("begin", 1, <<>>)
<1>1. e \in EventRecord /\ e.type = "begin"
  BY DEF Event, EventRecord
<1>. HIDE DEF e
<1>2. <<e>> \in Seq(EventRecord) /\ DOMAIN <<e>> = {1} /\ <<e>>[1] = e
  BY <1>1
<1>. QED BY <1>1, <1>2 DEF Grows, AboutIn, Telling, e

\* The start of an item that has none.
LEMMA StartGrows ==
  ASSUME NEW p, NEW S, NEW J, Grows(p, S, J), p # <<>>, NEW y \in Item, y \in J => y \notin S,
         NEW content \in Seq(Item), Contains(content, y)
  PROVE  Grows(Append(p, At("start", y, content)), S \cup {y}, J)
<1>. DEFINE e == At("start", y, content)
            q == Append(p, e)
<1>1. e \in EventRecord /\ Names(e, y) /\ e.type = "start" /\ p \in Seq(EventRecord) /\ J \subseteq Item
  BY AtNames DEF Grows
<1>. HIDE DEF e
<1>2. /\ q \in Seq(EventRecord) /\ DOMAIN q = DOMAIN p \cup {Len(p) + 1} /\ q[Len(p) + 1] = e
      /\ \A i \in DOMAIN p : q[i] = p[i] /\ i \in 1..Len(p) /\ i # Len(p) + 1
      /\ Len(p) + 1 # 1 /\ Len(p) \in Nat
  BY <1>1, PushedOne
<1>3. \A x \in Item : AboutIn(q, x) = AboutIn(p, x) \cup (IF x = y THEN {Len(p) + 1} ELSE {})
  BY <1>1, AboutAfter DEF Telling
<1>. HIDE DEF q
<1>4. ASSUME NEW i \in DOMAIN q
      PROVE  /\ q[i].type \in {"begin", "start", "delta"} /\ (q[i].type = "begin" <=> i = 1)
             /\ i # 1 => q[i].at \in DOMAIN q[i].partial
  BY <1>1, <1>2 DEF Grows, Names
<1>5. ASSUME NEW x \in Item PROVE AboutIn(q, x) # {} => x \in S \cup {y}
  BY <1>3 DEF Grows
<1>6. ASSUME NEW x \in J
      PROVE  /\ x \in S \cup {y} => AboutIn(q, x) # {}
             /\ \A i \in AboutIn(q, x) : q[i].type = "start" <=> \A j \in AboutIn(q, x) : i <= j
  <2>0. x \in Item
    BY <1>1
  <2>1. AboutIn(p, x) \subseteq DOMAIN p /\ AboutIn(p, x) \subseteq 1..Len(p)
    BY <1>2 DEF AboutIn
  <2>2. CASE x = y
    <3>1. AboutIn(p, x) = {}
      BY <2>0, <2>2 DEF Grows
    <3>2. AboutIn(q, x) = {Len(p) + 1}
      BY <1>3, <2>0, <2>2, <3>1
    <3>. QED BY <1>1, <1>2, <2>2, <3>2
  <2>3. CASE x # y
    <3>1. AboutIn(q, x) = AboutIn(p, x)
      BY <1>3, <2>0, <2>3
    <3>. QED BY <1>2, <2>1, <2>3, <3>1 DEF Grows
  <2>. QED BY <2>2, <2>3
<1>. QED BY <1>1, <1>2, <1>4, <1>5, <1>6 DEF Grows, q, e

\* More of an item that has been started.
LEMMA DeltaGrows ==
  ASSUME NEW p, NEW S, NEW J, Grows(p, S, J), p # <<>>, NEW y \in Item, y \in S,
         NEW content \in Seq(Item), Contains(content, y)
  PROVE  Grows(Append(p, At("delta", y, content)), S, J)
<1>. DEFINE e == At("delta", y, content)
            q == Append(p, e)
<1>1. e \in EventRecord /\ Names(e, y) /\ e.type = "delta" /\ p \in Seq(EventRecord) /\ J \subseteq Item
  BY AtNames DEF Grows
<1>. HIDE DEF e
<1>2. /\ q \in Seq(EventRecord) /\ DOMAIN q = DOMAIN p \cup {Len(p) + 1} /\ q[Len(p) + 1] = e
      /\ \A i \in DOMAIN p : q[i] = p[i] /\ i \in 1..Len(p) /\ i # Len(p) + 1
      /\ Len(p) + 1 # 1 /\ Len(p) \in Nat
  BY <1>1, PushedOne
<1>3. \A x \in Item : AboutIn(q, x) = AboutIn(p, x) \cup (IF x = y THEN {Len(p) + 1} ELSE {})
  BY <1>1, AboutAfter DEF Telling
<1>. HIDE DEF q
<1>4. ASSUME NEW i \in DOMAIN q
      PROVE  /\ q[i].type \in {"begin", "start", "delta"} /\ (q[i].type = "begin" <=> i = 1)
             /\ i # 1 => q[i].at \in DOMAIN q[i].partial
  BY <1>1, <1>2 DEF Grows, Names
<1>5. ASSUME NEW x \in Item PROVE AboutIn(q, x) # {} => x \in S
  BY <1>3 DEF Grows
<1>6. ASSUME NEW x \in J
      PROVE  /\ x \in S => AboutIn(q, x) # {}
             /\ \A i \in AboutIn(q, x) : q[i].type = "start" <=> \A j \in AboutIn(q, x) : i <= j
  <2>0. x \in Item
    BY <1>1
  <2>1. AboutIn(p, x) \subseteq DOMAIN p /\ AboutIn(p, x) \subseteq 1..Len(p)
    BY <1>2 DEF AboutIn
  <2>2. CASE x = y
    <3>1. AboutIn(q, x) = AboutIn(p, x) \cup {Len(p) + 1} /\ AboutIn(p, x) # {}
      BY <1>3, <2>0, <2>2 DEF Grows
    <3>2. ASSUME NEW i \in AboutIn(p, x) PROVE q[i].type = "start" <=> \A j \in AboutIn(q, x) : i <= j
      <4>1. p[i].type = "start" <=> \A j \in AboutIn(p, x) : i <= j
        BY DEF Grows
      <4>2. q[i] = p[i] /\ i <= Len(p) + 1
        BY <1>2, <2>1
      <4>. QED BY <3>1, <4>1, <4>2
    <3>3. ~(\A j \in AboutIn(q, x) : Len(p) + 1 <= j)
      BY <1>2, <2>1, <3>1
    <3>. QED BY <1>1, <1>2, <2>2, <3>1, <3>2, <3>3
  <2>3. CASE x # y
    <3>1. AboutIn(q, x) = AboutIn(p, x)
      BY <1>3, <2>0, <2>3
    <3>. QED BY <1>2, <2>1, <2>3, <3>1 DEF Grows
  <2>. QED BY <2>2, <2>3
<1>. QED BY <1>1, <1>2, <1>4, <1>5, <1>6 DEF Grows, q, e

\* A failure ends the stream; the message is what went wrong.
LEMMA ErrorFits ==
  ASSUME NEW p, NEW S, NEW J, Grows(p, S, J)
  PROVE  FitsIn(Append(p, Event("error", 1, <<"text">>)), J)
<1>. DEFINE e == Event("error", 1, <<"text">>)
            q == Append(p, e)
<1>1. e \in EventRecord /\ e.type = "error" /\ p \in Seq(EventRecord)
  BY DEF Event, EventRecord, Grows, Item
<1>. HIDE DEF e
<1>2. /\ q \in Seq(EventRecord) /\ DOMAIN q = DOMAIN p \cup {Len(p) + 1} /\ q[Len(p) + 1] = e
      /\ \A i \in DOMAIN p : q[i] = p[i] /\ i \in 1..Len(p) /\ i # Len(p) + 1
      /\ Len(p) \in Nat /\ Len(q) = Len(p) + 1 /\ q # <<>>
  BY <1>1, PushedOne
<1>3. \A x \in Item : AboutIn(q, x) = AboutIn(p, x)
  BY <1>1, AboutUnmoved DEF Telling
<1>. HIDE DEF q
<1>4. ASSUME NEW i \in DOMAIN q
      PROVE  /\ q[i].type = "begin" <=> (i = 1 /\ ~(q[1].type \in Terminal))
             /\ q[i].type \in Terminal => i = Len(q)
             /\ q[i].type \in Telling => q[i].at \in DOMAIN q[i].partial
  BY <1>1, <1>2 DEF Grows, Terminal, Telling
<1>5. ASSUME NEW x \in J, NEW i \in AboutIn(q, x)
      PROVE  /\ q[i].type = "start" <=> \A j \in AboutIn(q, x) : i <= j
             /\ q[i].type # "end"
  <2>0. x \in Item
    BY DEF Grows
  <2>1. i \in AboutIn(p, x) /\ i \in DOMAIN p /\ q[i] = p[i]
    BY <1>2, <1>3, <2>0 DEF AboutIn
  <2>. QED BY <1>3, <2>0, <2>1 DEF Grows
<1>. QED BY <1>1, <1>2, <1>4, <1>5 DEF FitsIn, Terminal, q, e

\* The end of each item that has been started, and the last event of a stream.
LEMMA EndsFit ==
  ASSUME NEW p, NEW S, NEW J, Grows(p, S, J), p # <<>>,
         NEW F \in Seq(Item), NEW E \in Seq(EventRecord), NEW G \in Seq(Item),
         Len(E) = Len(F), \A k \in 1..Len(F) : E[k].type = "end" /\ Names(E[k], F[k]),
         \A k, l \in 1..Len(F) : F[k] = F[l] => k = l,
         \A x \in Item : Contains(F, x) <=> Contains(G, x),
         \A x \in Item : x \in S => Contains(F, x),
         \A x \in J : Contains(F, x) => x \in S,
         NEW type \in Terminal
  PROVE  FitsIn((p \o E) \o <<Event(type, 1, G)>>, J)
<1>. DEFINE e == Event(type, 1, G)
            r == p \o E
            q == Append(r, e)
<1>1. e \in EventRecord /\ e.type = type /\ e.partial = G /\ p \in Seq(EventRecord) /\ type \notin Telling
  BY DEF Event, EventRecord, Grows, Item, Terminal, Telling
<1>. HIDE DEF e
<1>2. /\ r \in Seq(EventRecord) /\ Len(r) = Len(p) + Len(F) /\ Len(p) \in Nat /\ Len(F) \in Nat /\ Len(p) >= 1
      /\ \A i \in 1..(Len(p) + Len(F)) : r[i] = IF i <= Len(p) THEN p[i] ELSE E[i - Len(p)]
  <2>1. Len(p) >= 1 /\ Len(p) \in Nat /\ Len(F) \in Nat
    BY <1>1, EmptySeq
  <2>2. /\ r \in Seq(EventRecord) /\ Len(r) = Len(p) + Len(E)
        /\ \A i \in 1..(Len(p) + Len(E)) : r[i] = IF i <= Len(p) THEN p[i] ELSE E[i - Len(p)]
    <3>1. \A t, u \in Seq(EventRecord) :
            /\ t \o u \in Seq(EventRecord) /\ Len(t \o u) = Len(t) + Len(u)
            /\ \A i \in 1..(Len(t) + Len(u)) : (t \o u)[i] = IF i <= Len(t) THEN t[i] ELSE u[i - Len(t)]
      BY ONLY ConcatProperties, Zenon
    <3>. QED BY ONLY <1>1, <3>1, E \in Seq(EventRecord), Zenon
  <2>. HIDE DEF r
  <2>. QED BY <2>1, <2>2
<1>3. /\ \A i \in 1..Len(p) : r[i] = p[i]
      /\ \A k \in 1..Len(F) : Len(p) + k \in 1..Len(r) /\ r[Len(p) + k] = E[k]
      /\ \A i \in 1..Len(r) : i \in 1..Len(p) \/ (i - Len(p) \in 1..Len(F) /\ i = Len(p) + (i - Len(p)))
  <2>1. \A i \in 1..Len(p) : i \in 1..(Len(p) + Len(F)) /\ i <= Len(p)
    BY <1>2
  <2>2. \A k \in 1..Len(F) : /\ Len(p) + k \in 1..(Len(p) + Len(F))
                             /\ ~(Len(p) + k <= Len(p)) /\ (Len(p) + k) - Len(p) = k
    BY <1>2
  <2>. HIDE DEF r
  <2>3. \A i \in 1..Len(r) : i \in 1..Len(p) \/ (i - Len(p) \in 1..Len(F) /\ i = Len(p) + (i - Len(p)))
    BY <1>2
  <2>. QED BY <1>2, <2>1, <2>2, <2>3
<1>4. r \o <<e>> = q
  <2>. HIDE DEF r
  <2>1. \A t \in Seq(EventRecord), u \in EventRecord : Append(t, u) = t \o <<u>>
    BY ONLY AppendIsConcat, Zenon
  <2>. QED BY <1>1, <1>2, <2>1, Zenon
<1>. HIDE DEF r
<1>5. /\ q \in Seq(EventRecord) /\ DOMAIN q = 1..Len(r) \cup {Len(r) + 1} /\ q[Len(r) + 1] = e
      /\ \A i \in 1..Len(r) : q[i] = r[i] /\ i # Len(r) + 1
      /\ Len(q) = Len(r) + 1 /\ q # <<>>
  <2>1. DOMAIN r = 1..Len(r)
    BY <1>2
  <2>2. \A t \in Seq(EventRecord), u \in EventRecord :
          LET v == Append(t, u)
          IN  /\ v \in Seq(EventRecord) /\ v # <<>> /\ Len(v) = Len(t) + 1
              /\ DOMAIN v = DOMAIN t \cup {Len(t) + 1} /\ v[Len(t) + 1] = u
              /\ \A i \in DOMAIN t : v[i] = t[i] /\ i # Len(t) + 1
    BY ONLY PushedOne
  <2>3. r \in Seq(EventRecord) /\ e \in EventRecord
    BY <1>1, <1>2
  <2>. HIDE DEF r, e
  <2>. QED BY ONLY <2>1, <2>2, <2>3 DEF q
<1>6. \A x \in Item : AboutIn(q, x) = AboutIn(r, x)
  BY <1>1, <1>2, AboutUnmoved
<1>. HIDE DEF q
<1>7. 1 \in 1..Len(p) /\ 1 \in 1..Len(r) /\ q[1] = p[1] /\ p[1].type = "begin"
  <2>1. 1 \in 1..Len(p) /\ 1 \in 1..Len(r)
    BY <1>2
  <2>2. 1 \in DOMAIN p
    BY <1>1, <2>1
  <2>. QED BY <1>3, <1>5, <2>1, <2>2 DEF Grows
<1>8. ASSUME NEW i \in DOMAIN q
      PROVE  /\ q[i].type = "begin" <=> (i = 1 /\ ~(q[1].type \in Terminal))
             /\ q[i].type \in Terminal => i = Len(q)
             /\ q[i].type \in Telling => q[i].at \in DOMAIN q[i].partial
  <2>1. CASE i \in 1..Len(p)
    <3>1. i \in DOMAIN p /\ i \in 1..Len(r) /\ q[i] = p[i]
      BY <1>1, <1>2, <1>3, <1>5, <2>1
    <3>. QED BY <1>7, <3>1 DEF Grows, Terminal, Telling
  <2>2. CASE i \in 1..Len(r) /\ i \notin 1..Len(p)
    <3>1. i - Len(p) \in 1..Len(F) /\ q[i] = E[i - Len(p)] /\ i # 1
      BY <1>3, <1>5, <1>7, <2>2
    <3>. QED BY <3>1 DEF Names, Terminal, Telling
  <2>3. CASE i = Len(r) + 1
    <3>1. q[i] = e /\ i = Len(q) /\ i # 1
      BY <1>2, <1>5, <2>3
    <3>. QED BY <1>1, <3>1 DEF Terminal, Telling
  <2>. QED BY <1>5, <2>1, <2>2, <2>3
<1>9. ASSUME NEW x \in Item, NEW i \in AboutIn(q, x)
      PROVE  \/ i \in AboutIn(p, x) /\ i \in 1..Len(p) /\ q[i] = p[i]
             \/ \E k \in 1..Len(F) : F[k] = x /\ i = Len(p) + k /\ q[i].type = "end"
  <2>1. i \in DOMAIN r /\ r[i].type \in Telling /\ r[i].partial[r[i].at] = x /\ i \in 1..Len(r) /\ q[i] = r[i]
    BY <1>2, <1>5, <1>6 DEF AboutIn
  <2>2. CASE i \in 1..Len(p)
    BY <1>1, <1>3, <2>1, <2>2 DEF AboutIn
  <2>3. CASE i \notin 1..Len(p)
    <3>1. i - Len(p) \in 1..Len(F) /\ r[i] = E[i - Len(p)] /\ i = Len(p) + (i - Len(p))
      BY <1>3, <2>1, <2>3
    <3>. QED BY <2>1, <3>1 DEF Names
  <2>. QED BY <2>2, <2>3
<1>10. ASSUME NEW x \in Item, NEW i \in AboutIn(p, x)
       PROVE  i \in AboutIn(q, x) /\ i \in 1..Len(p) /\ q[i] = p[i]
  <2>1. i \in 1..Len(p) /\ i \in 1..Len(r) /\ p[i].type \in Telling /\ p[i].partial[p[i].at] = x
    BY <1>1, <1>2 DEF AboutIn
  <2>. QED BY <1>2, <1>3, <1>5, <1>6, <2>1 DEF AboutIn
<1>11. ASSUME NEW x \in Item, NEW k \in 1..Len(F), F[k] = x
       PROVE  Len(p) + k \in AboutIn(q, x) /\ q[Len(p) + k].type = "end"
  <2>1. /\ Len(p) + k \in 1..Len(r) /\ r[Len(p) + k] = E[k]
        /\ E[k].type = "end" /\ E[k].partial[E[k].at] = x
    BY <1>3, <1>11 DEF Names
  <2>. QED BY <1>2, <1>5, <1>6, <2>1 DEF AboutIn, Telling
<1>12. ASSUME NEW x \in J, NEW i \in AboutIn(q, x)
       PROVE  /\ q[i].type = "start" <=> \A j \in AboutIn(q, x) : i <= j
              /\ q[i].type = "end" => \A j \in AboutIn(q, x) : j <= i
  <2>0. x \in Item
    BY DEF Grows
  <2>1. ASSUME NEW k \in 1..Len(F), F[k] = x
        PROVE  \E j \in AboutIn(p, x) : j \in AboutIn(q, x) /\ j < Len(p) + k
    <3>1. x \in S
      BY <2>1 DEF Contains
    <3>2. PICK j : j \in AboutIn(p, x)
      BY <3>1 DEF Grows
    <3>. QED BY <1>2, <1>10, <2>0, <3>2
  <2>2. ASSUME i \in AboutIn(p, x), i \in 1..Len(p), q[i] = p[i]
        PROVE  /\ q[i].type = "start" <=> \A j \in AboutIn(q, x) : i <= j
               /\ q[i].type # "end"
    <3>1. p[i].type = "start" <=> \A j \in AboutIn(p, x) : i <= j
      BY <2>2 DEF Grows
    <3>2. \A j \in AboutIn(q, x) : j \in AboutIn(p, x) \/ i <= j
      BY <1>2, <1>9, <2>0, <2>2
    <3>3. \A j \in AboutIn(p, x) : j \in AboutIn(q, x)
      BY <1>10, <2>0
    <3>4. p[i].type # "end"
      BY <1>1, <2>2 DEF Grows, AboutIn
    <3>. QED BY <2>2, <3>1, <3>2, <3>3, <3>4
  <2>3. ASSUME NEW k \in 1..Len(F), F[k] = x, i = Len(p) + k, q[i].type = "end"
        PROVE  /\ ~(\A j \in AboutIn(q, x) : i <= j)
               /\ \A j \in AboutIn(q, x) : j <= i
    <3>1. \E j \in AboutIn(q, x) : ~(i <= j)
      <4>1. PICK j \in AboutIn(p, x) : j \in AboutIn(q, x) /\ j < Len(p) + k
        BY <2>1, <2>3
      <4>2. j \in Nat
        BY <1>10, <2>0, <4>1
      <4>. QED BY <1>2, <2>3, <4>1, <4>2
    <3>2. ASSUME NEW j \in AboutIn(q, x) PROVE j <= i
      <4>1. CASE j \in 1..Len(p)
        BY <1>2, <2>3, <4>1
      <4>2. CASE \E l \in 1..Len(F) : F[l] = x /\ j = Len(p) + l
        BY <1>2, <2>3, <4>2
      <4>. QED BY <1>9, <2>0, <4>1, <4>2
    <3>. QED BY <3>1, <3>2
  <2>4. CASE i \in AboutIn(p, x) /\ i \in 1..Len(p) /\ q[i] = p[i]
    BY <2>2, <2>4
  <2>5. CASE \E k \in 1..Len(F) : F[k] = x /\ i = Len(p) + k /\ q[i].type = "end"
    BY <2>3, <2>5
  <2>. QED BY <1>9, <2>0, <2>4, <2>5
<1>14. ASSUME NEW x \in Item
       PROVE  IF Contains(G, x)
              THEN \E i \in AboutIn(q, x) : \A j \in AboutIn(q, x) : q[j].type = "end" <=> j = i
              ELSE AboutIn(q, x) = {}
  <2>1. ASSUME NEW j \in AboutIn(q, x), j \in AboutIn(p, x), q[j] = p[j]
        PROVE  q[j].type # "end" /\ Contains(F, x)
    <3>1. p[j].type # "end"
      BY <1>1, <2>1 DEF Grows, AboutIn
    <3>2. x \in S
      BY <2>1 DEF Grows
    <3>. QED BY <2>1, <3>1, <3>2
  <2>2. CASE Contains(G, x)
    <3>1. PICK k \in 1..Len(F) : F[k] = x
      BY <2>2 DEF Contains
    <3>2. Len(p) + k \in AboutIn(q, x) /\ q[Len(p) + k].type = "end"
      BY <1>11, <3>1
    <3>3. ASSUME NEW j \in AboutIn(q, x), q[j].type = "end" PROVE j = Len(p) + k
      <4>1. PICK l \in 1..Len(F) : F[l] = x /\ j = Len(p) + l
        BY <1>9, <2>1, <3>3
      <4>. QED BY <3>1, <4>1
    <3>. QED BY <2>2, <3>2, <3>3
  <2>3. CASE ~Contains(G, x)
    <3>1. ~Contains(F, x)
      BY <2>3
    <3>2. ASSUME NEW j \in AboutIn(q, x) PROVE FALSE
      <4>1. PICK l \in 1..Len(F) : F[l] = x
        BY <1>9, <2>1, <3>1, <3>2
      <4>. QED BY <3>1, <4>1 DEF Contains
    <3>. QED BY <2>3, <3>2
  <2>. QED BY <2>2, <2>3
<1>13. q[Len(q)] = e
  BY <1>5
<1>15. FitsIn(q, J)
  BY <1>1, <1>5, <1>8, <1>12, <1>13, <1>14 DEF FitsIn
<1>. QED BY <1>4, <1>15 DEF r, e

-----------------------------------------------------------------------------
(* What a chunk pushes, and what the end does. *)

LEMMA GrowsSame ==
  ASSUME NEW p, NEW S, NEW J, NEW T, NEW K, Grows(p, S, J), K \subseteq J,
         \A x \in Item : x \in S => x \in T, \A x \in K : x \in T => x \in S
  PROVE  Grows(p, T, K)
BY DEF Grows

\* Sequences of events in general; the others are instances.
LEMMA EventsConcat ==
  /\ <<>> \in Seq(EventRecord)
  /\ \A s, t, u \in Seq(EventRecord) : s \o t \in Seq(EventRecord) /\ (s \o t) \o u = s \o (t \o u)
  /\ \A s \in Seq(EventRecord) : s \o <<>> = s /\ <<>> \o s = s
  /\ \A s \in Seq(EventRecord), e \in EventRecord :
       <<e>> \in Seq(EventRecord) /\ s \o <<e>> = Append(s, e) /\ Append(s, e) \in Seq(EventRecord)
<1>1. \A s, t, u \in Seq(EventRecord) : s \o t \in Seq(EventRecord) /\ (s \o t) \o u = s \o (t \o u)
  <2>1. \A s, t \in Seq(EventRecord) : s \o t \in Seq(EventRecord)
    OBVIOUS
  <2>2. \A s, t, u \in Seq(EventRecord) : (s \o t) \o u = s \o (t \o u)
    BY ONLY ConcatAssociative
  <2>. QED BY ONLY <2>1, <2>2
<1>2. \A s \in Seq(EventRecord) : s \o <<>> = s /\ <<>> \o s = s
  BY ConcatEmptySeq, Zenon
<1>3. \A s \in Seq(EventRecord), e \in EventRecord : s \o <<e>> = Append(s, e)
  BY AppendIsConcat, Zenon
<1>4. \A s \in Seq(EventRecord), e \in EventRecord :
        <<e>> \in Seq(EventRecord) /\ Append(s, e) \in Seq(EventRecord)
  OBVIOUS
<1>. QED BY <1>1, <1>2, <1>3, <1>4

\* The start of an item, which one of J has unless it has been started, and maybe
\* a delta.
Starts(A, S, J, y, first) ==
  /\ A = <<>> \/ A = <<At("start", y, first)>>
  /\ y \in J => (A = <<>> <=> y \in S)
Continues(B, y, content) == B = <<>> \/ B = <<At("delta", y, content)>>

LEMMA ItemGrows ==
  ASSUME NEW p, NEW S, NEW J, Grows(p, S, J), p # <<>>, NEW y \in Item,
         NEW first \in Seq(Item), Contains(first, y), NEW content \in Seq(Item), Contains(content, y),
         NEW A, Starts(A, S, J, y, first), NEW B, Continues(B, y, content)
  PROVE  /\ A \in Seq(EventRecord) /\ B \in Seq(EventRecord) /\ A \o B \in Seq(EventRecord)
         /\ Grows(p \o (A \o B), S \cup {y}, J) /\ p \o (A \o B) # <<>>
<1>. DEFINE e == At("start", y, first)
            d == At("delta", y, content)
<1>1. e \in EventRecord /\ d \in EventRecord /\ p \in Seq(EventRecord) /\ J \subseteq Item
  BY AtNames DEF Grows
<1>0. (A = <<>> \/ A = <<e>>) /\ (y \in J => (A = <<>> <=> y \in S)) /\ (B = <<>> \/ B = <<d>>)
  BY DEF Starts, Continues
<1>. HIDE DEF e, d
<1>2. A \in Seq(EventRecord) /\ B \in Seq(EventRecord)
  BY <1>0, <1>1, EventsConcat
<1>3. Grows(p \o A, S \cup {y}, J) /\ p \o A # <<>>
  <2>1. CASE A = <<>>
    <3>1. p \o A = p
      BY <1>1, <2>1, EventsConcat
    <3>2. /\ \A x \in Item : x \in S => x \in S \cup {y}
          /\ \A x \in J : x \in S \cup {y} => x \in S
      BY <1>0, <2>1
    <3>. QED BY <3>1, <3>2, GrowsSame
  <2>2. CASE A = <<e>>
    <3>1. p \o A = Append(p, e) /\ Append(p, e) # <<>>
      BY <1>1, <2>2, EventsConcat, PushedOne
    <3>2. A # <<>>
      BY <2>2
    <3>3. y \in J => y \notin S
      BY <1>0, <3>2
    <3>4. Grows(Append(p, e), S \cup {y}, J)
      BY <3>3, StartGrows DEF e
    <3>. QED BY <3>1, <3>4, Zenon
  <2>. QED BY <1>0, <2>1, <2>2
<1>4. p \o A \in Seq(EventRecord)
  BY <1>1, <1>2, EventsConcat
<1>5. Grows((p \o A) \o B, S \cup {y}, J) /\ (p \o A) \o B # <<>>
  <2>1. CASE B = <<>>
    BY <1>3, <1>4, <2>1, EventsConcat
  <2>2. CASE B = <<d>>
    <3>1. (p \o A) \o B = Append(p \o A, d) /\ Append(p \o A, d) # <<>>
      BY <1>1, <1>4, <2>2, EventsConcat, PushedOne
    <3>. QED BY <1>3, <3>1, DeltaGrows DEF d
  <2>. QED BY <1>0, <2>1, <2>2
<1>6. (p \o A) \o B = p \o (A \o B) /\ A \o B \in Seq(EventRecord)
  BY ONLY <1>1, <1>2
<1>. QED BY <1>2, <1>5, <1>6

LEMMA NoneGrows ==
  ASSUME NEW p, NEW S, NEW J, Grows(p, S, J), p # <<>>
  PROVE  Grows(p \o (<<>> \o <<>>), S, J) /\ p \o (<<>> \o <<>>) # <<>>
<1>1. p \in Seq(EventRecord)
  BY DEF Grows
<1>2. <<>> \o <<>> = <<>> /\ p \o <<>> = p
  BY <1>1, EventsConcat
<1>. QED BY <1>2

LEMMA TextsGrow ==
  ASSUME NEW p, NEW S, NEW J, Grows(p, S, J), p # <<>>, thinking \in Nat, text \in Nat,
         "thinking" \in S <=> thinking > 0, "text" \in S <=> text > 0,
         NEW chunk \in Chunk
  PROVE  /\ TextUpdates(chunk) \in Seq(EventRecord)
         /\ Grows(p \o TextUpdates(chunk),
                  (S \cup {x \in {"thinking"} : chunk.thinking}) \cup {x \in {"text"} : chunk.text}, J)
         /\ p \o TextUpdates(chunk) # <<>>
<1>. DEFINE th == thinking + (IF chunk.thinking THEN 1 ELSE 0)
            tx == text + (IF chunk.text THEN 1 ELSE 0)
            A == IF chunk.thinking /\ thinking = 0
                 THEN <<At("start", "thinking", <<"thinking">> \o Texts(0, text))>> ELSE <<>>
            B == IF chunk.thinking THEN <<At("delta", "thinking", Texts(th, text))>> ELSE <<>>
            C == IF chunk.text /\ text = 0 THEN <<At("start", "text", Append(Texts(th, 0), "text"))>> ELSE <<>>
            D == IF chunk.text THEN <<At("delta", "text", Texts(th, tx))>> ELSE <<>>
            S1 == S \cup {x \in {"thinking"} : chunk.thinking}
            p1 == p \o (A \o B)
<1>1. TextUpdates(chunk) = ((A \o B) \o C) \o D
  BY DEF TextUpdates
<1>2. th \in Nat /\ tx \in Nat /\ (chunk.thinking => th > 0) /\ (chunk.text => tx > 0) /\ 0 \in Nat
  OBVIOUS
<1>3. "thinking" \in Item /\ "text" \in Item
  BY DEF Item
<1>4. /\ <<"thinking">> \o Texts(0, text) \in Seq(Item) /\ Contains(<<"thinking">> \o Texts(0, text), "thinking")
      /\ Texts(th, text) \in Seq(Item) /\ (chunk.thinking => Contains(Texts(th, text), "thinking"))
  <2>1. <<"thinking">> \in Seq(Item) /\ Contains(<<"thinking">>, "thinking") /\ Texts(0, text) \in Seq(Item)
    BY <1>2, <1>3, ContainsOne, TextsContain
  <2>. HIDE DEF th
  <2>2. Texts(th, text) \in Seq(Item) /\ (chunk.thinking => Contains(Texts(th, text), "thinking"))
    BY <1>2, TextsContain
  <2>. QED BY <2>1, <2>2, ContainsBoth
<1>5. /\ Append(Texts(th, 0), "text") \in Seq(Item) /\ Contains(Append(Texts(th, 0), "text"), "text")
      /\ Texts(th, tx) \in Seq(Item) /\ (chunk.text => Contains(Texts(th, tx), "text"))
  <2>. HIDE DEF th, tx
  <2>1. <<"text">> \in Seq(Item) /\ Contains(<<"text">>, "text") /\ Texts(th, 0) \in Seq(Item)
    BY <1>2, <1>3, ContainsOne, TextsContain
  <2>2. Append(Texts(th, 0), "text") = Texts(th, 0) \o <<"text">>
    BY <1>3, <2>1, AppendIsConcat
  <2>3. Texts(th, tx) \in Seq(Item) /\ (chunk.text => Contains(Texts(th, tx), "text"))
    BY <1>2, TextsContain
  <2>. QED BY <2>1, <2>2, <2>3, ContainsBoth
<1>. HIDE DEF th, tx
<1>6. /\ A \in Seq(EventRecord) /\ B \in Seq(EventRecord) /\ A \o B \in Seq(EventRecord)
      /\ Grows(p1, S1, J) /\ p1 # <<>>
  <2>1. CASE chunk.thinking
    <3>1. Starts(A, S, J, "thinking", <<"thinking">> \o Texts(0, text))
      BY <2>1 DEF Starts
    <3>2. Continues(B, "thinking", Texts(th, text)) /\ S1 = S \cup {"thinking"}
      BY <2>1 DEF Continues
    <3>3. /\ "thinking" \in Item /\ Grows(p, S, J) /\ p # <<>>
          /\ <<"thinking">> \o Texts(0, text) \in Seq(Item)
          /\ Contains(<<"thinking">> \o Texts(0, text), "thinking")
          /\ Texts(th, text) \in Seq(Item) /\ Contains(Texts(th, text), "thinking")
      BY <1>3, <1>4, <2>1
    <3>. HIDE DEF A, B, S1
    <3>4. /\ A \in Seq(EventRecord) /\ B \in Seq(EventRecord) /\ A \o B \in Seq(EventRecord)
          /\ Grows(p \o (A \o B), S \cup {"thinking"}, J) /\ p \o (A \o B) # <<>>
      BY ONLY <3>1, <3>2, <3>3, ItemGrows, Zenon
    <3>. QED BY <3>2, <3>4, Zenon
  <2>2. CASE ~chunk.thinking
    <3>1. A = <<>> /\ B = <<>> /\ S1 = S
      BY <2>2
    <3>. HIDE DEF A, B, S1
    <3>. QED BY <3>1, NoneGrows, EventsConcat
  <2>. QED BY <2>1, <2>2
<1>7. "text" \in S1 <=> text > 0
  OBVIOUS
<1>. HIDE DEF A, B, S1, p1
<1>. DEFINE S2 == S1 \cup {x \in {"text"} : chunk.text}
<1>8. /\ C \in Seq(EventRecord) /\ D \in Seq(EventRecord) /\ C \o D \in Seq(EventRecord)
      /\ Grows(p1 \o (C \o D), S2, J) /\ p1 \o (C \o D) # <<>>
  <2>1. CASE chunk.text
    <3>1. Starts(C, S1, J, "text", Append(Texts(th, 0), "text"))
      BY <1>7, <2>1 DEF Starts
    <3>2. Continues(D, "text", Texts(th, tx)) /\ S2 = S1 \cup {"text"}
      BY <2>1 DEF Continues
    <3>3. /\ "text" \in Item /\ Grows(p1, S1, J) /\ p1 # <<>>
          /\ Append(Texts(th, 0), "text") \in Seq(Item) /\ Contains(Append(Texts(th, 0), "text"), "text")
          /\ Texts(th, tx) \in Seq(Item) /\ Contains(Texts(th, tx), "text")
      BY <1>3, <1>5, <1>6, <2>1
    <3>. HIDE DEF C, D, S2
    <3>4. /\ C \in Seq(EventRecord) /\ D \in Seq(EventRecord) /\ C \o D \in Seq(EventRecord)
          /\ Grows(p1 \o (C \o D), S1 \cup {"text"}, J) /\ p1 \o (C \o D) # <<>>
      BY ONLY <3>1, <3>2, <3>3, ItemGrows, Zenon
    <3>. QED BY <3>2, <3>4, Zenon
  <2>2. CASE ~chunk.text
    <3>1. C = <<>> /\ D = <<>> /\ S2 = S1
      BY <2>2
    <3>. HIDE DEF C, D, S2
    <3>. QED BY <1>6, <3>1, NoneGrows, EventsConcat
  <2>. QED BY <2>1, <2>2
<1>. HIDE DEF C, D
<1>9. p \in Seq(EventRecord)
  BY DEF Grows
<1>10. /\ ((A \o B) \o C) \o D = (A \o B) \o (C \o D)
       /\ (p \o (A \o B)) \o (C \o D) = p \o ((A \o B) \o (C \o D))
       /\ (A \o B) \o (C \o D) \in Seq(EventRecord)
  <2>. DEFINE U == A \o B
              V == C \o D
  <2>1. U \in Seq(EventRecord) /\ V \in Seq(EventRecord)
    BY <1>6, <1>8
  <2>2. (U \o C) \o D = U \o V
    <3>. HIDE DEF U
    <3>. HIDE DEF C, D
    <3>. QED BY ONLY <1>8, <2>1 DEF V
  <2>. HIDE DEF U, V
  <2>3. (p \o U) \o V = p \o (U \o V) /\ U \o V \in Seq(EventRecord)
    BY ONLY <1>9, <2>1
  <2>. QED BY <2>2, <2>3, Zenon DEF U, V
<1>. QED BY <1>1, <1>8, <1>10 DEF S1, p1

\* A piece of a call with its key.
KeyedPiece ==
  {piece \in [index : Key \cup {NoIndex}, key : Key, id : Id \cup {"none"}, named : BOOLEAN, args : BOOLEAN] :
     piece.index # NoIndex => piece.key = piece.index}

\* The calls of the keys and the order of these, after the pieces of g.
CallsKept(cs, ord, g) ==
  /\ cs \in [Key -> CallRecord] /\ ord \in Seq(Key) /\ g \in Seq(KeyedPiece)
  /\ \A k \in Key :
       /\ cs[k].started <=> IsKnown(cs[k])
       /\ cs[k].id # "none" => /\ Contains(ord, k)
                               /\ \E i \in DOMAIN g : g[i].key = k /\ g[i].id = cs[k].id
  /\ \A i \in DOMAIN g : /\ g[i].id # "none" => cs[g[i].key].id # "none"
                         /\ g[i].named => cs[g[i].key].named

\* The items that are told of in order.
Regular == {"thinking", "text"} \cup {id \in Id : OneKey(id)}

\* The items that may have been told of; of those that are regular, that have been.
Started ==
  {x \in Item :
     \/ x = "thinking" /\ thinking > 0
     \/ x = "text" /\ text > 0
     \/ x \in Id /\ IF OneKey(x) THEN \E k \in Key : calls[k].started /\ calls[k].id = x
                    ELSE \E i \in DOMAIN got : got[i].id = x}

DrainInv ==
  /\ chunks \in 0..MaxChunks /\ thinking \in 0..chunks /\ text \in 0..chunks
  /\ draining \in {"none", "running", "over"}
  /\ pieces \in Seq(KeyedPiece)
  /\ CallsKept(calls, order, got)
  /\ draining # "over" => Grows(pushed, Started, Regular) /\ (chunks = 0 <=> pushed = <<>>)
  /\ draining = "over" => FitsIn(pushed, Regular)
  /\ draining = "none" => chunks = 0
  /\ chunks = 0 => pieces = <<>>

PumpInv ==
  /\ pump \in {"idle", "sending", "ended"}
  /\ read \in Nat /\ sent \in Nat /\ read <= sent /\ sent <= read + Buffer /\ sent <= Len(pushed)
  /\ pump = "sending" => sent < Len(pushed)

Returned == {"done", "error", "refused", "aborted"}

LoopInv ==
  /\ loop \in {"new", "calling", "reading", "failed"} \cup Returned
  /\ cancelled \in BOOLEAN /\ (loop = "aborted" => cancelled)
  /\ loop \in {"new", "calling"} => draining = "none" /\ read = 0 /\ told = <<>>
  /\ loop = "reading" => (read = 0 <=> told = <<>>)
  /\ told \in Seq({"start", "update", "end"})
  /\ told # <<>> => told[1] = "start"
  /\ \A i \in 1..Len(told) : /\ told[i] = "start" => i = 1
                             /\ told[i] = "end" <=> i = Len(told) /\ loop \in Returned

WholeInv == DrainInv /\ PumpInv /\ LoopInv

\* What CallsAfter says of each call.
LEMMA AfterIs ==
  ASSUME CallsKept(calls, order, got), NEW piece \in KeyedPiece
  PROVE  LET cs == CallsAfter(piece)
             k  == piece.key
         IN  /\ k \in Key /\ piece.id \in Id \cup {"none"} /\ piece.named \in BOOLEAN
             /\ cs \in [Key -> CallRecord] /\ \A c \in Key : c # k => cs[c] = calls[c]
             /\ cs[k].id = IF piece.id = "none" THEN calls[k].id ELSE piece.id
             /\ cs[k].named <=> calls[k].named \/ piece.named
             /\ cs[k].started <=> IsKnown(cs[k])
<1>. DEFINE k == piece.key
            id == IF piece.id = "none" THEN calls[k].id ELSE piece.id
            named == calls[k].named \/ piece.named
            r == [id |-> id, named |-> named, started |-> id # "none" /\ named]
<1>1. k \in Key /\ piece.id \in Id \cup {"none"} /\ piece.named \in BOOLEAN /\ calls \in [Key -> CallRecord]
  BY DEF KeyedPiece, CallsKept
<1>2. calls[k].id \in Id \cup {"none"} /\ calls[k].named \in BOOLEAN
  BY <1>1 DEF CallRecord
<1>3. id \in Id \cup {"none"} /\ named \in BOOLEAN
  BY <1>1, <1>2
<1>4. CallsAfter(piece) = [calls EXCEPT ![k] = r]
  BY DEF CallsAfter, IsKnown
<1>. HIDE DEF id, named
<1>5. /\ r \in CallRecord /\ r.id = id /\ (r.named <=> named) /\ (r.started <=> IsKnown(r))
  BY <1>3 DEF CallRecord, IsKnown
<1>. HIDE DEF r, k
<1>6. /\ CallsAfter(piece) \in [Key -> CallRecord] /\ CallsAfter(piece)[k] = r
      /\ \A c \in Key : c # k => CallsAfter(piece)[c] = calls[c]
  BY <1>1, <1>4, <1>5
<1>. QED BY <1>1, <1>5, <1>6 DEF id, named, k

LEMMA CallsAfterKept ==
  ASSUME CallsKept(calls, order, got), NEW piece \in KeyedPiece
  PROVE  /\ CallsKept(CallsAfter(piece), OrderAfter(piece), Append(got, piece))
         /\ DOMAIN Append(got, piece) = DOMAIN got \cup {Len(got) + 1}
         /\ Append(got, piece)[Len(got) + 1] = piece
         /\ \A i \in DOMAIN got : Append(got, piece)[i] = got[i]
         /\ Contains(OrderAfter(piece), piece.key)
<1>. DEFINE k == piece.key
            cs == CallsAfter(piece)
            ord == OrderAfter(piece)
            g == Append(got, piece)
<1>1. /\ calls \in [Key -> CallRecord] /\ order \in Seq(Key) /\ got \in Seq(KeyedPiece)
      /\ \A i \in DOMAIN got : got[i].key \in Key
  BY DEF CallsKept, KeyedPiece
<1>2. /\ g \in Seq(KeyedPiece) /\ DOMAIN g = DOMAIN got \cup {Len(got) + 1} /\ g[Len(got) + 1] = piece
      /\ \A i \in DOMAIN got : g[i] = got[i]
  BY <1>1
<1>3. /\ k \in Key /\ cs \in [Key -> CallRecord] /\ \A c \in Key : c # k => cs[c] = calls[c]
      /\ cs[k].id = IF piece.id = "none" THEN calls[k].id ELSE piece.id
      /\ cs[k].named <=> calls[k].named \/ piece.named
      /\ cs[k].started <=> IsKnown(cs[k])
  BY AfterIs
<1>4. /\ ord \in Seq(Key) /\ Contains(ord, k) /\ \A c \in Key : Contains(order, c) => Contains(ord, c)
  <2>1. CASE Contains(order, k)
    <3>1. ord = order
      BY <2>1 DEF OrderAfter
    <3>. HIDE DEF ord, k
    <3>. QED BY <1>1, <2>1, <3>1
  <2>2. CASE ~Contains(order, k)
    <3>1. ord = Append(order, k)
      BY <2>2 DEF OrderAfter
    <3>. HIDE DEF ord, k
    <3>2. /\ ord \in Seq(Key) /\ Len(order) \in Nat /\ Len(ord) = Len(order) + 1 /\ ord[Len(order) + 1] = k
          /\ \A i \in 1..Len(order) : i \in 1..Len(ord) /\ ord[i] = order[i]
      BY <1>1, <1>3, <3>1
    <3>3. Len(order) + 1 \in 1..Len(ord)
      BY <3>2
    <3>. QED BY <3>2, <3>3 DEF Contains
  <2>. QED BY <2>1, <2>2
<1>. HIDE DEF cs, ord, g, k
<1>5. ASSUME NEW c \in Key
      PROVE  /\ cs[c].started <=> IsKnown(cs[c])
             /\ cs[c].id # "none" => /\ Contains(ord, c)
                                     /\ \E i \in DOMAIN g : g[i].key = c /\ g[i].id = cs[c].id
  <2>1. CASE c # k
    <3>1. cs[c] = calls[c]
      BY <1>3, <2>1
    <3>2. calls[c].started <=> IsKnown(calls[c])
      BY DEF CallsKept
    <3>3. calls[c].id # "none" => Contains(order, c) /\ \E i \in DOMAIN got : got[i].key = c /\ got[i].id = calls[c].id
      BY DEF CallsKept
    <3>. QED BY <1>2, <1>4, <3>1, <3>2, <3>3
  <2>2. CASE c = k /\ piece.id # "none"
    <3>1. cs[c].id = piece.id /\ g[Len(got) + 1].key = k /\ g[Len(got) + 1].id = piece.id
      BY <1>2, <1>3, <2>2 DEF k
    <3>. QED BY <1>2, <1>3, <1>4, <2>2, <3>1
  <2>3. CASE c = k /\ piece.id = "none"
    <3>1. cs[c].id = calls[c].id
      BY <1>3, <2>3
    <3>2. calls[c].id # "none" => \E i \in DOMAIN got : got[i].key = c /\ got[i].id = calls[c].id
      BY DEF CallsKept
    <3>. QED BY <1>2, <1>3, <1>4, <2>3, <3>1, <3>2
  <2>. QED BY <2>1, <2>2, <2>3
<1>6. ASSUME NEW i \in DOMAIN g
      PROVE  /\ g[i].id # "none" => cs[g[i].key].id # "none"
             /\ g[i].named => cs[g[i].key].named
  <2>1. CASE i \in DOMAIN got
    <3>1. /\ g[i] = got[i] /\ got[i].key \in Key
          /\ got[i].id # "none" => calls[got[i].key].id # "none"
          /\ got[i].named => calls[got[i].key].named
      BY <1>1, <1>2, <2>1 DEF CallsKept
    <3>. QED BY <1>3, <3>1
  <2>2. CASE i = Len(got) + 1
    <3>1. g[i] = piece /\ piece.key = k
      BY <1>2, <2>2 DEF k
    <3>. QED BY <1>3, <3>1
  <2>. QED BY <1>2, <2>1, <2>2
<1>7. CallsKept(cs, ord, g)
  BY <1>2, <1>3, <1>4, <1>5, <1>6 DEF CallsKept
<1>. QED BY <1>2, <1>4, <1>7 DEF cs, ord, g, k

\* An id whose pieces have one key is that of the call of this key.
LEMMA OneKeyIs ==
  ASSUME CallsKept(calls, order, got), NEW x \in Id, OneKey(x)
  PROVE  /\ \A i \in DOMAIN got : got[i].id = x => calls[got[i].key].id = x
         /\ \A k \in Key : calls[k].id = x => \E i \in DOMAIN got : got[i].key = k /\ got[i].id = x
<1>0. x # "none"
  BY StreamConstants
<1>1. ASSUME NEW i \in DOMAIN got, got[i].id = x PROVE calls[got[i].key].id = x
  <2>1. got[i].key \in Key
    BY DEF CallsKept, KeyedPiece
  <2>2. calls[got[i].key].id # "none"
    BY <1>0, <1>1 DEF CallsKept
  <2>3. PICK j \in DOMAIN got : got[j].key = got[i].key /\ got[j].id = calls[got[i].key].id
    BY <2>1, <2>2 DEF CallsKept
  <2>. QED BY <1>1, <2>2, <2>3 DEF OneKey
<1>2. ASSUME NEW k \in Key, calls[k].id = x PROVE \E i \in DOMAIN got : got[i].key = k /\ got[i].id = x
  BY <1>0, <1>2 DEF CallsKept
<1>. QED BY <1>1, <1>2

\* The pieces of a chunk get keys.
LEMMA KeyedIs == ASSUME NEW chunk \in Chunk PROVE Keyed(chunk.pieces) \in Seq(KeyedPiece)
<1>. DEFINE ps == chunk.pieces
<1>1. ps \in Seq(Piece) /\ Len(ps) <= MaxCalls /\ Len(ps) \in Nat /\ DOMAIN ps = 1..Len(ps) /\ MaxCalls \in Nat
  BY StreamConstants DEF Chunk
<1>. DEFINE q(n) == [index |-> ps[n].index, key |-> IF ps[n].index = NoIndex THEN n - 1 ELSE ps[n].index,
                     id |-> ps[n].id, named |-> ps[n].named, args |-> ps[n].args]
<1>2. ASSUME NEW n \in 1..Len(ps) PROVE q(n) \in KeyedPiece
  <2>1. ps[n] \in Piece
    BY <1>1
  <2>2. /\ ps[n].index \in Key \cup {NoIndex} /\ ps[n].id \in Id \cup {"none"}
        /\ ps[n].named \in BOOLEAN /\ ps[n].args \in BOOLEAN
    BY <2>1 DEF Piece
  <2>3. n - 1 \in Key
    BY <1>1 DEF Key
  <2>. HIDE DEF ps
  <2>4. (IF ps[n].index = NoIndex THEN n - 1 ELSE ps[n].index) \in Key
    BY <2>2, <2>3
  <2>. QED BY <2>2, <2>4 DEF KeyedPiece
<1>3. Keyed(ps) = [n \in 1..Len(ps) |-> q(n)]
  BY <1>1 DEF Keyed
<1>. HIDE DEF q, ps
<1>4. [n \in 1..Len(ps) |-> q(n)] \in Seq(KeyedPiece)
  BY <1>1, <1>2
<1>. QED BY <1>3, <1>4 DEF ps

\* The ends are of each item of the message once.
LEMMA EndsAre ==
  ASSUME Final \in Seq(Item)
  PROVE  /\ Once(Final) \in Seq(Item) /\ Ends \in Seq(EventRecord) /\ Len(Ends) = Len(Once(Final))
         /\ \A k \in 1..Len(Once(Final)) : Ends[k].type = "end" /\ Names(Ends[k], Once(Final)[k])
         /\ \A k, l \in 1..Len(Once(Final)) : Once(Final)[k] = Once(Final)[l] => k = l
         /\ \A x \in Item : Contains(Once(Final), x) <=> Contains(Final, x)
<1>. DEFINE F == Final
            O == Once(F)
<1>1. O \in Seq(Item) /\ Distinct(O) /\ \A x : Contains(O, x) <=> Contains(F, x)
  BY OnceIs
<1>2. Ends = [i \in DOMAIN O |-> At("end", O[i], F)]
  BY DEF Ends
<1>. HIDE DEF F, O
<1>3. DOMAIN O = 1..Len(O) /\ Len(O) \in Nat
  BY <1>1
<1>4. ASSUME NEW i \in 1..Len(O)
      PROVE  At("end", O[i], F) \in EventRecord /\ Names(At("end", O[i], F), O[i]) /\ At("end", O[i], F).type = "end"
  <2>1. Contains(F, O[i])
    BY <1>1 DEF Contains
  <2>2. F \in Seq(Item)
    BY DEF F
  <2>. QED BY <2>1, <2>2, AtNames
<1>. DEFINE e(i) == At("end", O[i], F)
<1>5. Ends = [i \in 1..Len(O) |-> e(i)]
  BY <1>2, <1>3
<1>6. \A i \in 1..Len(O) : e(i) \in EventRecord /\ Names(e(i), O[i]) /\ e(i).type = "end"
  BY <1>4
<1>. HIDE DEF e
<1>7. Ends \in Seq(EventRecord) /\ Len(Ends) = Len(O) /\ \A i \in 1..Len(O) : Ends[i] = e(i)
  BY <1>3, <1>5, <1>6
<1>8. \A k \in 1..Len(O) : Ends[k].type = "end" /\ Names(Ends[k], O[k])
  BY <1>6, <1>7
<1>. HIDE DEF Ends
<1>9. \A k, l \in 1..Len(O) : O[k] = O[l] => k = l
  BY <1>1 DEF Distinct
<1>. QED BY <1>1, <1>7, <1>8, <1>9 DEF O, F

\* A message that can be converted has its texts, and the ids that were given.
LEMMA FinalIs ==
  ASSUME thinking \in Nat, text \in Nat, got \in Seq(KeyedPiece), Complete
  PROVE  /\ Final \in Seq(Item)
         /\ \A x \in Item : Contains(Final, x) <=> \/ x = "thinking" /\ thinking > 0
                                                   \/ x = "text" /\ text > 0
                                                   \/ x \in Id /\ \E i \in DOMAIN got : got[i].id = x
<1>. DEFINE merged(n) == IF IdsOf(n - 1) = {} THEN "none" ELSE CHOOSE id \in IdsOf(n - 1) : TRUE
            loose(i) == IF got[i].index = NoIndex THEN got[i].id ELSE "none"
            s == [i \in DOMAIN got |-> loose(i)]
            t == [n \in 1..MaxCalls |-> merged(n)]
            T == Texts(thinking, text)
<1>1. /\ DOMAIN got = 1..Len(got) /\ Len(got) \in Nat /\ MaxCalls \in Nat
      /\ "none" \notin Id /\ "thinking" \notin Id /\ "text" \notin Id
  BY StreamConstants
<1>2. \A i \in DOMAIN got : got[i].id \in Id \cup {"none"} /\ got[i].index \in Key \cup {NoIndex}
  BY DEF KeyedPiece
<1>3. ASSUME NEW k PROVE IdsOf(k) \subseteq Id
  BY <1>2 DEF IdsOf
<1>4. Final = (T \o Given(s)) \o Given(t)
  BY DEF Final
<1>5. \A i \in DOMAIN got : loose(i) \in Item \cup {"none"}
  BY <1>2 DEF Item
<1>6. ASSUME NEW n \in 1..MaxCalls
      PROVE  /\ merged(n) \in Id \cup {"none"} /\ (merged(n) # "none" => merged(n) \in IdsOf(n - 1))
             /\ \A y \in Id : IdsOf(n - 1) = {y} => merged(n) = y
  BY <1>3
<1>. HIDE DEF merged
<1>7. /\ s \in Seq(Item \cup {"none"}) /\ Len(s) = Len(got) /\ \A i \in 1..Len(got) : s[i] = loose(i)
  BY <1>1, <1>5
<1>8. /\ t \in Seq(Item \cup {"none"}) /\ Len(t) = MaxCalls /\ \A n \in 1..MaxCalls : t[n] = merged(n)
  BY <1>1, <1>6 DEF Item
<1>. HIDE DEF s, t, T
<1>9. /\ T \in Seq(Item) /\ Given(s) \in Seq(Item) /\ Given(t) \in Seq(Item)
      /\ \A x : Contains(T, x) <=> (x = "thinking" /\ thinking > 0) \/ (x = "text" /\ text > 0)
      /\ \A x : Contains(Given(s), x) <=> x # "none" /\ \E i \in 1..Len(s) : s[i] = x
      /\ \A x : Contains(Given(t), x) <=> x # "none" /\ \E i \in 1..Len(t) : t[i] = x
  BY <1>7, <1>8, GivenIs, TextsContain DEF T
<1>10. /\ Final \in Seq(Item)
       /\ \A x : Contains(Final, x) <=> Contains(T, x) \/ Contains(Given(s), x) \/ Contains(Given(t), x)
  <2>1. T \o Given(s) \in Seq(Item) /\ \A x : Contains(T \o Given(s), x) <=> Contains(T, x) \/ Contains(Given(s), x)
    BY ONLY <1>9, ContainsBoth
  <2>. QED BY ONLY <1>4, <1>9, <2>1, ContainsBoth
<1>11. ASSUME NEW x, Contains(Given(s), x) PROVE x \in Id /\ \E i \in DOMAIN got : got[i].id = x
  <2>1. PICK i \in 1..Len(s) : s[i] = x /\ x # "none"
    BY <1>9, <1>11
  <2>2. i \in DOMAIN got /\ got[i].id = x
    BY <1>1, <1>7, <2>1
  <2>. QED BY <1>2, <2>1, <2>2
<1>12. ASSUME NEW x, Contains(Given(t), x) PROVE x \in Id /\ \E i \in DOMAIN got : got[i].id = x
  <2>1. PICK n \in 1..Len(t) : t[n] = x /\ x # "none"
    BY <1>9, <1>12
  <2>2. x \in IdsOf(n - 1)
    BY <1>6, <1>8, <2>1
  <2>. QED BY <1>3, <2>2 DEF IdsOf
<1>13. ASSUME NEW x \in Id, NEW i \in DOMAIN got, got[i].id = x PROVE Contains(Given(s), x) \/ Contains(Given(t), x)
  <2>1. CASE got[i].index = NoIndex
    <3>1. i \in 1..Len(s) /\ s[i] = x
      BY <1>1, <1>7, <1>13, <2>1
    <3>. QED BY <1>1, <1>9, <3>1
  <2>2. CASE got[i].index # NoIndex
    <3>1. got[i].index \in Key
      BY <1>2, <2>2
    <3>2. got[i].index + 1 \in 1..MaxCalls /\ (got[i].index + 1) - 1 = got[i].index
      BY <1>1, <3>1 DEF Key
    <3>3. PICK y \in Id : IdsOf(got[i].index) = {y}
      BY <2>2 DEF Complete
    <3>4. x \in IdsOf(got[i].index)
      BY <1>1, <1>13 DEF IdsOf
    <3>5. IdsOf((got[i].index + 1) - 1) = {x}
      BY <3>2, <3>3, <3>4
    <3>6. t[got[i].index + 1] = x
      BY <1>6, <1>8, <3>2, <3>5
    <3>. QED BY <1>1, <1>8, <1>9, <3>2, <3>6
  <2>. QED BY <2>1, <2>2
<1>. HIDE DEF Final
<1>. QED BY <1>9, <1>10, <1>11, <1>12, <1>13

\* A chunk starts the texts that are new in it.
LEMMA ReceiveKeeps ==
  ASSUME DrainInv, NEW chunk \in Chunk, Receive(chunk)
  PROVE  DrainInv' /\ pushed' \in Seq(EventRecord) /\ Len(pushed') >= Len(pushed)
<1>. DEFINE th == thinking + (IF chunk.thinking THEN 1 ELSE 0)
            tx == text + (IF chunk.text THEN 1 ELSE 0)
            first == IF chunks = 0 THEN <<Event("begin", 1, <<>>)>> ELSE <<>>
            T == TextUpdates(chunk)
            S1 == (Started \cup {x \in {"thinking"} : chunk.thinking}) \cup {x \in {"text"} : chunk.text}
<1>1. /\ draining = "running" /\ chunks < MaxChunks /\ pushed' = (pushed \o first) \o T
      /\ thinking' = th /\ text' = tx /\ chunks' = chunks + 1 /\ pieces' = Keyed(chunk.pieces)
      /\ calls' = calls /\ order' = order /\ got' = got /\ draining' = draining
  BY DEF Receive
<1>2. /\ chunks \in Nat /\ thinking \in Nat /\ text \in Nat /\ th \in Nat /\ tx \in Nat /\ MaxChunks \in Nat
      /\ thinking <= chunks /\ text <= chunks
      /\ chunk.thinking \in BOOLEAN /\ chunk.text \in BOOLEAN
      /\ th > 0 <=> thinking > 0 \/ chunk.thinking
      /\ tx > 0 <=> text > 0 \/ chunk.text
  BY StreamConstants DEF DrainInv, Chunk
<1>3. /\ Grows(pushed, Started, Regular) /\ pushed \in Seq(EventRecord) /\ (chunks = 0 <=> pushed = <<>>)
      /\ CallsKept(calls, order, got)
  BY <1>1 DEF DrainInv, Grows
<1>4. "thinking" \notin Id /\ "text" \notin Id /\ Regular \in SUBSET Item
  BY StreamConstants DEF Regular, Item
<1>5. /\ chunks + 1 \in 0..MaxChunks /\ th \in 0..(chunks + 1) /\ tx \in 0..(chunks + 1) /\ chunks + 1 # 0
  BY <1>1, <1>2
<1>6. Keyed(chunk.pieces) \in Seq(KeyedPiece)
  BY KeyedIs
<1>. HIDE DEF th, tx
<1>7. first \in Seq(EventRecord) /\ Grows(pushed \o first, Started, Regular) /\ pushed \o first # <<>>
  <2>1. CASE chunks = 0
    <3>1. pushed = <<>> /\ first = <<Event("begin", 1, <<>>)>>
      BY <1>3, <2>1
    <3>2. Grows(first, {}, Regular) /\ first \in Seq(EventRecord) /\ first # <<>>
      BY <1>4, <3>1, BeginGrows DEF Grows
    <3>3. \A x \in Regular : x \notin Started
      <4>1. DOMAIN <<>> = {}
        OBVIOUS
      <4>2. \A x \in Item : AboutIn(<<>>, x) = {}
        BY <4>1 DEF AboutIn
      <4>. QED BY <1>3, <1>4, <3>1, <4>2 DEF Grows
    <3>. HIDE DEF first
    <3>4. pushed \o first = first
      BY <3>1, <3>2, EventsConcat
    <3>5. Grows(first, Started, Regular)
      BY <3>2, <3>3, GrowsSame
    <3>. QED BY <3>2, <3>4, <3>5
  <2>2. CASE chunks # 0
    <3>1. first = <<>> /\ pushed # <<>>
      BY <1>3, <2>2
    <3>. HIDE DEF first
    <3>. QED BY <1>3, <3>1, EventsConcat
  <2>. QED BY <2>1, <2>2
<1>. HIDE DEF first
<1>8. ("thinking" \in Started <=> thinking > 0) /\ ("text" \in Started <=> text > 0)
  BY <1>4 DEF Started, Item
<1>9. /\ T \in Seq(EventRecord) /\ Grows((pushed \o first) \o T, S1, Regular) /\ (pushed \o first) \o T # <<>>
  BY <1>2, <1>7, <1>8, TextsGrow
<1>. HIDE DEF T
<1>10. Regular' = Regular
  BY <1>1 DEF Regular, OneKey
<1>11. \A x \in Item : x \in S1 <=> x \in Started'
  <2>1. \A x \in Item : x \in Started' <=> \/ x = "thinking" /\ th > 0
                                           \/ x = "text" /\ tx > 0
                                           \/ x \in Id /\ IF OneKey(x) THEN \E k \in Key : calls[k].started /\ calls[k].id = x
                                                          ELSE \E i \in DOMAIN got : got[i].id = x
    BY <1>1 DEF Started, OneKey
  <2>. QED BY <1>2, <1>4, <2>1 DEF Started
<1>. HIDE DEF S1
<1>12. Grows(pushed', Started', Regular') /\ pushed' # <<>>
  <2>1. Grows((pushed \o first) \o T, Started', Regular)
    BY <1>4, <1>9, <1>11, GrowsSame
  <2>. QED BY <1>1, <1>9, <1>10, <2>1
<1>13. DrainInv'
  BY <1>1, <1>3, <1>5, <1>6, <1>12 DEF DrainInv
<1>14. pushed' \in Seq(EventRecord)
  BY <1>12 DEF Grows
<1>15. Len(pushed') >= Len(pushed)
  <2>1. pushed \o first \in Seq(EventRecord)
    BY <1>7 DEF Grows
  <2>2. /\ Len(pushed \o first) = Len(pushed) + Len(first)
        /\ Len((pushed \o first) \o T) = Len(pushed \o first) + Len(T)
    <3>1. \A t, u \in Seq(EventRecord) : Len(t \o u) = Len(t) + Len(u)
      BY ONLY ConcatProperties, Zenon
    <3>. QED BY <1>3, <1>7, <1>9, <2>1, <3>1
  <2>3. Len(pushed) \in Nat /\ Len(first) \in Nat /\ Len(T) \in Nat
    BY <1>3, <1>7, <1>9
  <2>. QED BY <1>1, <2>2, <2>3
<1>. QED BY <1>13, <1>14, <1>15

\* A piece starts the call of its key when this has become known; an id that has
\* come under another key, or a key that had another id, is no longer regular.
LEMMA PieceKeeps ==
  ASSUME DrainInv, PushPiece
  PROVE  DrainInv' /\ pushed' \in Seq(EventRecord) /\ Len(pushed') >= Len(pushed)
<1>. DEFINE piece == Head(pieces)
            k == piece.key
            cs == CallsAfter(piece)
            content == WithCalls(thinking, text, cs, OrderAfter(piece))
            U == CallUpdates(piece, content)
            last == Len(got) + 1
<1>1. /\ draining = "running" /\ pieces # <<>> /\ pushed' = pushed \o U
      /\ calls' = cs /\ order' = OrderAfter(piece) /\ got' = Append(got, piece) /\ pieces' = Tail(pieces)
      /\ UNCHANGED <<draining, chunks, thinking, text>>
  BY DEF PushPiece
<1>2. /\ Grows(pushed, Started, Regular) /\ pushed \in Seq(EventRecord) /\ pushed # <<>> /\ chunks # 0
      /\ CallsKept(calls, order, got) /\ thinking \in Nat /\ text \in Nat
      /\ piece \in KeyedPiece /\ Tail(pieces) \in Seq(KeyedPiece)
  <2>1. pieces \in Seq(KeyedPiece) /\ pieces # <<>>
    BY <1>1 DEF DrainInv
  <2>2. piece \in KeyedPiece /\ Tail(pieces) \in Seq(KeyedPiece)
    BY <2>1
  <2>. QED BY <1>1, <2>2 DEF DrainInv, Grows
<1>. HIDE DEF piece
<1>3. /\ k \in Key /\ piece.id \in Id \cup {"none"} /\ piece.named \in BOOLEAN
      /\ cs \in [Key -> CallRecord] /\ \A c \in Key : c # k => cs[c] = calls[c]
      /\ cs[k].id = IF piece.id = "none" THEN calls[k].id ELSE piece.id
      /\ cs[k].named <=> calls[k].named \/ piece.named
      /\ cs[k].started <=> IsKnown(cs[k])
  BY <1>2, AfterIs
<1>4. /\ CallsKept(cs, OrderAfter(piece), got')
      /\ DOMAIN got' = DOMAIN got \cup {last} /\ got'[last] = piece
      /\ \A i \in DOMAIN got : got'[i] = got[i]
      /\ Contains(OrderAfter(piece), k)
  BY <1>1, <1>2, CallsAfterKept
<1>5. /\ \A c \in Key : calls[c].started <=> IsKnown(calls[c])
      /\ calls \in [Key -> CallRecord]
  BY <1>2 DEF CallsKept
<1>. PICK y : y = cs[k].id
  OBVIOUS
<1>. DEFINE A == IF ~calls[k].started THEN <<At("start", y, content)>> ELSE <<>>
            B == IF piece.args THEN <<At("delta", y, content)>> ELSE <<>>
<1>6. y \in Id \cup {"none"} /\ y = cs[k].id /\ "none" \notin Id /\ "thinking" \notin Id /\ "text" \notin Id
  BY <1>3, StreamConstants DEF CallRecord
<1>. HIDE DEF cs, k, last
\* Nothing becomes regular.
<1>7. ASSUME NEW x \in Id, OneKey(x)' PROVE OneKey(x)
  BY <1>4, <1>7 DEF OneKey
<1>8. Regular' \subseteq Regular /\ Regular \subseteq Item /\ Regular' \subseteq Item
  BY <1>7 DEF Regular, Item
\* The call of the key had no other id, when this is still regular.
<1>9. ASSUME NEW x \in Id, OneKey(x)', calls[k].id = x PROVE cs[k].id = x /\ (calls[k].started => cs[k].started)
  <2>1. PICK i \in DOMAIN got : got[i].key = k /\ got[i].id = x
    BY <1>2, <1>3, <1>6, <1>9 DEF CallsKept
  <2>2. got'[i].key = k /\ got'[i].id = x /\ got'[last].key = k /\ got'[last].id = piece.id
    BY <1>4, <2>1 DEF k
  <2>3. piece.id # "none" => piece.id = x
    BY <1>4, <1>9, <2>1, <2>2 DEF OneKey
  <2>4. cs[k].id = x
    BY <1>3, <1>9, <2>3
  <2>5. calls[k].started => cs[k].started
    BY <1>3, <1>5, <1>6, <2>4 DEF IsKnown
  <2>. QED BY <2>4, <2>5
\* No other key has the id of the call, when this is still regular.
<1>10. ASSUME y \in Id, OneKey(y)', NEW c \in Key, calls[c].id = y PROVE c = k
  <2>1. PICK i \in DOMAIN got : got[i].key = c /\ got[i].id = y
    BY <1>2, <1>6, <1>10 DEF CallsKept
  <2>2. PICK j \in DOMAIN got' : got'[j].key = k /\ got'[j].id = cs[k].id
    BY <1>3, <1>4, <1>6, <1>10 DEF CallsKept
  <2>3. i \in DOMAIN got' /\ got'[i] = got[i] /\ y # "none"
    BY <1>4, <1>6, <1>10, <2>1
  <2>. QED BY <1>10, <2>1, <2>2, <2>3 DEF OneKey
<1>11. ASSUME NEW x \in Item, x \in Started PROVE x \in Started'
  <2>1. CASE x \in {"thinking", "text"}
    BY <1>1, <1>6, <1>11, <2>1 DEF Started
  <2>2. CASE x \in Id /\ ~OneKey(x)'
    <3>1. \E i \in DOMAIN got : got[i].id = x
      <4>1. CASE OneKey(x)
        <5>1. PICK c \in Key : calls[c].id = x
          BY <1>6, <1>11, <2>2, <4>1 DEF Started
        <5>. QED BY <1>2, <2>2, <4>1, <5>1, OneKeyIs
      <4>2. CASE ~OneKey(x)
        BY <1>6, <1>11, <2>2, <4>2 DEF Started
      <4>. QED BY <4>1, <4>2
    <3>2. \E i \in DOMAIN got' : got'[i].id = x
      BY <1>4, <3>1
    <3>. QED BY <2>2, <3>2 DEF Started, Item
  <2>3. CASE x \in Id /\ OneKey(x)'
    <3>1. PICK c \in Key : calls[c].started /\ calls[c].id = x
      BY <1>6, <1>7, <1>11, <2>3 DEF Started
    <3>2. cs[c].started /\ cs[c].id = x
      BY <1>3, <1>9, <2>3, <3>1
    <3>. QED BY <1>1, <2>3, <3>1, <3>2 DEF Started, Item
  <2>. QED BY <2>1, <2>2, <2>3 DEF Item
<1>12. ASSUME NEW x \in Regular', x \in Started' PROVE x \in Started \/ (IsKnown(cs[k]) /\ x = y)
  <2>1. CASE x \in {"thinking", "text"}
    BY <1>1, <1>6, <1>12, <2>1 DEF Started, Item
  <2>2. CASE x \in Id
    <3>1. OneKey(x)' /\ OneKey(x)
      BY <1>6, <1>7, <1>12, <2>2 DEF Regular
    <3>2. PICK c \in Key : cs[c].started /\ cs[c].id = x
      BY <1>1, <1>6, <1>12, <2>2, <3>1 DEF Started
    <3>3. CASE c = k
      BY <1>3, <1>6, <3>2, <3>3
    <3>4. CASE c # k
      <4>1. calls[c].started /\ calls[c].id = x
        BY <1>3, <3>2, <3>4
      <4>. QED BY <2>2, <3>1, <4>1 DEF Started, Item
    <3>. QED BY <3>3, <3>4
  <2>. QED BY <2>1, <2>2 DEF Regular
<1>13. CASE ~IsKnown(cs[k])
  <2>1. U = <<>>
    BY <1>13 DEF CallUpdates, cs, k
  <2>. HIDE DEF U
  <2>2. pushed' = pushed
    BY <1>1, <1>2, <2>1, EventsConcat
  <2>3. Grows(pushed, Started', Regular')
    BY <1>2, <1>8, <1>11, <1>12, <1>13, GrowsSame
  <2>4. DrainInv'
    BY <1>1, <1>2, <1>4, <2>2, <2>3 DEF DrainInv
  <2>. QED BY <1>2, <2>2, <2>4
<1>14. CASE IsKnown(cs[k])
  <2>1. y \in Id /\ y \in Item
    BY <1>6, <1>14 DEF IsKnown, Item
  <2>2. U = A \o B
    BY <1>6, <1>14 DEF CallUpdates, cs, k
  <2>3. content \in Seq(Item) /\ Contains(content, y)
    <3>1. OrderAfter(piece) \in Seq(Key)
      BY <1>4 DEF CallsKept
    <3>. QED BY <1>2, <1>3, <1>4, <1>6, <1>14, <3>1, ContentContains
  <2>. HIDE DEF content, U
  <2>4. y \in Regular' => (calls[k].started <=> y \in Started)
    <3>. SUFFICES ASSUME y \in Regular' PROVE calls[k].started <=> y \in Started
      OBVIOUS
    <3>1. OneKey(y)' /\ OneKey(y)
      BY <1>6, <1>7, <2>1 DEF Regular
    <3>2. y \in Started <=> \E c \in Key : calls[c].started /\ calls[c].id = y
      BY <1>6, <2>1, <3>1 DEF Started
    <3>3. calls[k].started => calls[k].id = y
      <4>1. ASSUME calls[k].started PROVE calls[k].id = y
        <5>1. calls[k].id # "none" /\ calls[k].id \in Id
          BY <1>3, <1>5, <4>1 DEF IsKnown, CallRecord
        <5>2. PICK i \in DOMAIN got : got[i].key = k /\ got[i].id = calls[k].id
          BY <1>2, <1>3, <5>1 DEF CallsKept
        <5>3. i \in DOMAIN got' /\ got'[i] = got[i] /\ got'[last].key = k /\ got'[last].id = piece.id /\ last \in DOMAIN got'
          BY <1>4, <5>2 DEF k
        <5>4. CASE piece.id = "none"
          BY <1>3, <1>6, <5>4
        <5>5. CASE piece.id # "none"
          <6>1. y = piece.id
            BY <1>3, <1>6, <5>5
          <6>2. got'[last].id = y /\ got'[i].id # "none" /\ got'[last].key = got'[i].key
            BY <5>1, <5>2, <5>3, <6>1
          <6>3. got'[i].id = y
            BY <3>1, <5>3, <6>2 DEF OneKey
          <6>. QED BY <5>2, <5>3, <6>3
        <5>. QED BY <5>4, <5>5
      <4>. QED BY <4>1
    <3>. QED BY <1>3, <1>10, <2>1, <3>1, <3>2, <3>3
  <2>5. Grows(pushed, Started, Regular')
    BY <1>2, <1>8, GrowsSame
  <2>6. Starts(A, Started, Regular', y, content) /\ Continues(B, y, content)
    <3>1. Continues(B, y, content)
      BY DEF Continues
    <3>2. A = <<>> <=> calls[k].started
      OBVIOUS
    <3>3. A = <<>> \/ A = <<At("start", y, content)>>
      OBVIOUS
    <3>. HIDE DEF A
    <3>. QED BY <2>4, <3>1, <3>2, <3>3 DEF Starts
  <2>. HIDE DEF A, B
  <2>7. /\ A \o B \in Seq(EventRecord)
        /\ Grows(pushed \o (A \o B), Started \cup {y}, Regular') /\ pushed \o (A \o B) # <<>>
    <3>. QED BY ONLY <1>2, <2>1, <2>3, <2>5, <2>6, ItemGrows, Zenon
  <2>8. y \in Started'
    <3>1. CASE OneKey(y)'
      BY <1>1, <1>3, <1>6, <1>14, <2>1, <3>1 DEF Started
    <3>2. CASE ~OneKey(y)'
      <4>1. \E i \in DOMAIN got' : got'[i].id = y
        BY <1>3, <1>4, <1>6, <2>1 DEF CallsKept
      <4>. QED BY <1>6, <2>1, <3>2, <4>1 DEF Started
    <3>. QED BY <3>1, <3>2
  <2>9. Grows(pushed', Started', Regular') /\ pushed' # <<>>
    <3>1. \A x \in Item : x \in Started \cup {y} => x \in Started'
      BY <1>11, <2>8
    <3>2. \A x \in Regular' : x \in Started' => x \in Started \cup {y}
      BY <1>12
    <3>3. Grows(pushed \o (A \o B), Started', Regular')
      BY <2>7, <3>1, <3>2, GrowsSame
    <3>. QED BY <1>1, <2>2, <2>7, <3>3
  <2>10. DrainInv'
    BY <1>1, <1>2, <1>4, <2>9 DEF DrainInv
  <2>11. pushed' \in Seq(EventRecord) /\ Len(pushed') >= Len(pushed)
    <3>1. \A t, u \in Seq(EventRecord) : Len(t \o u) = Len(t) + Len(u)
      BY ONLY ConcatProperties, Zenon
    <3>2. Len(pushed \o (A \o B)) = Len(pushed) + Len(A \o B)
      BY <1>2, <2>7, <3>1
    <3>3. Len(pushed) \in Nat /\ Len(A \o B) \in Nat
      BY <1>2, <2>7
    <3>4. pushed' \in Seq(EventRecord)
      BY <2>9 DEF Grows
    <3>. QED BY <1>1, <2>2, <3>2, <3>3, <3>4
  <2>. QED BY <2>10, <2>11
<1>. QED BY <1>13, <1>14

\* The end, by which the stream is closed.
LEMMA DrainEnds ==
  ASSUME DrainInv, draining # "over", draining' = "over",
         UNCHANGED <<chunks, thinking, text, pieces, got, calls, order>>,
         \/ PushError
         \/ /\ Complete
            /\ \E type \in Terminal : pushed' = (pushed \o Ends) \o <<Event(type, 1, Final)>>
  PROVE  DrainInv' /\ pushed' \in Seq(EventRecord) /\ Len(pushed') >= Len(pushed)
<1>1. /\ Grows(pushed, Started, Regular) /\ pushed \in Seq(EventRecord) /\ (chunks = 0 <=> pushed = <<>>)
      /\ CallsKept(calls, order, got) /\ thinking \in Nat /\ text \in Nat /\ got \in Seq(KeyedPiece)
  BY DEF DrainInv, Grows, CallsKept
<1>0. Regular' = Regular
  BY DEF Regular, OneKey
<1>2. CASE PushError
  <2>1. FitsIn(pushed', Regular)
    BY <1>1, <1>2, ErrorFits DEF PushError
  <2>2. DrainInv'
    BY <1>0, <2>1 DEF DrainInv
  <2>3. Event("error", 1, <<"text">>) \in EventRecord
    BY DEF Event, EventRecord, Item
  <2>4. pushed' \in Seq(EventRecord) /\ Len(pushed') = Len(pushed) + 1 /\ Len(pushed) \in Nat
    BY <1>1, <1>2, <2>3, PushedOne DEF PushError
  <2>. QED BY <2>2, <2>4
<1>3. ASSUME NEW type \in Terminal, Complete, pushed' = (pushed \o Ends) \o <<Event(type, 1, Final)>>
      PROVE  DrainInv' /\ pushed' \in Seq(EventRecord) /\ Len(pushed') >= Len(pushed)
  <2>1. /\ Final \in Seq(Item)
        /\ \A x \in Item : Contains(Final, x) <=> \/ x = "thinking" /\ thinking > 0
                                                  \/ x = "text" /\ text > 0
                                                  \/ x \in Id /\ \E i \in DOMAIN got : got[i].id = x
    BY <1>1, <1>3, FinalIs
  <2>. DEFINE O == Once(Final)
  <2>2. /\ O \in Seq(Item) /\ Ends \in Seq(EventRecord) /\ Len(Ends) = Len(O)
        /\ \A k \in 1..Len(O) : Ends[k].type = "end" /\ Names(Ends[k], O[k])
        /\ \A k, l \in 1..Len(O) : O[k] = O[l] => k = l
        /\ \A x \in Item : Contains(O, x) <=> Contains(Final, x)
    BY <2>1, EndsAre
  <2>. HIDE DEF O, Final, Ends
  <2>3. ASSUME NEW x \in Item, x \in Started PROVE Contains(O, x)
    <3>1. CASE x \in Id /\ OneKey(x)
      <4>1. PICK k \in Key : calls[k].id = x
        BY <2>3, <3>1, StreamConstants DEF Started
      <4>2. \E i \in DOMAIN got : got[i].id = x
        BY <1>1, <3>1, <4>1, OneKeyIs
      <4>. QED BY <2>1, <2>2, <3>1, <4>2
    <3>2. CASE ~(x \in Id /\ OneKey(x))
      BY <2>1, <2>2, <2>3, <3>2 DEF Started
    <3>. QED BY <3>1, <3>2
  <2>4. ASSUME NEW x \in Regular, Contains(O, x) PROVE x \in Started
    <3>0. x \in Item
      BY DEF Regular, Item
    <3>1. CASE x \in {"thinking", "text"}
      BY <2>1, <2>2, <2>4, <3>0, <3>1, StreamConstants DEF Started
    <3>2. CASE x \in Id
      <4>1. OneKey(x) /\ x # "none" /\ x # "thinking" /\ x # "text"
        BY <3>2, StreamConstants DEF Regular
      <4>2. PICK i \in DOMAIN got : got[i].id = x
        BY <2>1, <2>2, <2>4, <3>0, <4>1
      <4>3. /\ got[i].key \in Key /\ calls[got[i].key].id = x
            /\ \A j \in DOMAIN got : got[j].index # NoIndex => got[j].key = got[j].index
            /\ \A j \in DOMAIN got : got[j].named => calls[got[j].key].named
        <5>1. calls[got[i].key].id = x
          BY <1>1, <3>2, <4>1, <4>2, OneKeyIs
        <5>. QED BY <1>1, <5>1 DEF CallsKept, KeyedPiece
      <4>4. calls[got[i].key].named
        <5>1. CASE got[i].index = NoIndex
          BY <1>3, <4>3, <5>1 DEF Complete, IsKnown
        <5>2. CASE got[i].index # NoIndex
          <6>1. PICK j \in DOMAIN got : got[j].index = got[i].index /\ got[j].named
            BY <1>3, <5>2 DEF Complete
          <6>. QED BY <4>3, <5>2, <6>1
        <5>. QED BY <5>1, <5>2
      <4>5. calls[got[i].key].started
        BY <1>1, <4>1, <4>3, <4>4 DEF CallsKept, IsKnown
      <4>. QED BY <3>0, <3>2, <4>1, <4>3, <4>5 DEF Started
    <3>. QED BY <3>1, <3>2 DEF Regular
  <2>5. pushed # <<>>
    BY <1>1, <1>3 DEF Complete, DrainInv
  <2>6. FitsIn((pushed \o Ends) \o <<Event(type, 1, Final)>>, Regular)
    BY <1>1, <2>1, <2>2, <2>3, <2>4, <2>5, EndsFit
  <2>7. FitsIn(pushed', Regular)
    BY ONLY <1>3, <2>6
  <2>8. DrainInv'
    BY <1>0, <2>7 DEF DrainInv
  <2>9. Len(pushed') >= Len(pushed)
    <3>1. \A t, u \in Seq(EventRecord) : t \o u \in Seq(EventRecord) /\ Len(t \o u) = Len(t) + Len(u)
      BY ONLY ConcatProperties, Zenon
    <3>. DEFINE e == <<Event(type, 1, Final)>>
    <3>2. e \in Seq(EventRecord) /\ Ends \in Seq(EventRecord)
      BY <2>1, <2>2 DEF Event, EventRecord, Terminal
    <3>3. pushed' = (pushed \o Ends) \o e
      BY ONLY <1>3
    <3>. HIDE DEF e
    <3>4. Len(pushed') = (Len(pushed) + Len(Ends)) + Len(e)
      BY <1>1, <3>1, <3>2, <3>3
    <3>5. Len(pushed) \in Nat /\ Len(Ends) \in Nat /\ Len(e) \in Nat
      BY <1>1, <3>2
    <3>. QED BY <3>4, <3>5
  <2>10. pushed' \in Seq(EventRecord)
    BY <2>7 DEF FitsIn
  <2>. QED BY <2>8, <2>9, <2>10
<1>. QED BY <1>2, <1>3

-----------------------------------------------------------------------------
(* The pump and the loop. *)

LEMMA PushedIs ==
  ASSUME DrainInv
  PROVE  /\ pushed \in Seq(EventRecord) /\ Len(pushed) \in Nat
         /\ \A i \in 1..Len(pushed) :
              /\ pushed[i].type \in {"begin", "start", "delta", "end", "done", "error"}
              /\ pushed[i].type = "begin" => i = 1
              /\ i = 1 => pushed[i].type \notin Telling
<1>1. pushed \in Seq(EventRecord) /\ Len(pushed) \in Nat /\ DOMAIN pushed = 1..Len(pushed)
  BY DEF DrainInv, Grows, FitsIn
<1>2. \A i \in 1..Len(pushed) : pushed[i].type \in {"begin", "start", "delta", "end", "done", "error"}
  <2>1. \A i \in 1..Len(pushed) : pushed[i] \in EventRecord
    BY <1>1
  <2>2. \A e \in EventRecord : e.type \in {"begin", "start", "delta", "end", "done", "error"}
    BY DEF EventRecord
  <2>. QED BY <2>1, <2>2
<1>3. CASE draining = "over"
  BY <1>1, <1>2, <1>3 DEF DrainInv, FitsIn, Terminal, Telling
<1>4. CASE draining # "over"
  BY <1>1, <1>2, <1>4 DEF DrainInv, Grows, Telling
<1>. QED BY <1>3, <1>4

\* The stream grows, whatever the pump and the loop are doing.
LEMMA LongerKeeps ==
  ASSUME PumpInv, Len(pushed) \in Nat, Len(pushed') \in Nat, Len(pushed') >= Len(pushed), UNCHANGED <<pumpVars, read>>
  PROVE  PumpInv'
BY DEF PumpInv, pumpVars

\* What Return tells, after what was told before.
LEMMA Returns ==
  ASSUME LoopInv, loop \notin Returned, NEW how \in Returned, how = "aborted" => cancelled, Return(how),
         UNCHANGED cancelled
  PROVE  LoopInv'
<1>. DEFINE T == {"start", "update", "end"}
            u == told \o (IF told = <<>> THEN <<"start">> ELSE <<>>)
<1>1. told \in Seq(T) /\ Len(told) \in Nat
  BY DEF LoopInv
<1>2. /\ u \in Seq(T) /\ Len(u) >= 1 /\ Len(u) \in Nat /\ u[1] = "start"
      /\ \A i \in 1..Len(u) : (u[i] = "start" => i = 1) /\ u[i] # "end"
  <2>1. CASE told = <<>>
    <3>1. u = <<"start">>
      BY <2>1
    <3>. HIDE DEF u
    <3>2. /\ <<"start">> \in Seq(T) /\ Len(<<"start">>) = 1 /\ <<"start">>[1] = "start"
          /\ \A i \in 1..1 : i = 1
      OBVIOUS
    <3>. QED BY <3>1, <3>2
  <2>2. CASE told # <<>>
    <3>1. u = told
      BY <1>1, <2>2, ConcatEmptySeq
    <3>2. Len(told) >= 1
      BY <1>1, <2>2
    <3>. HIDE DEF u
    <3>. QED BY <1>1, <2>2, <3>1, <3>2 DEF LoopInv
  <2>. QED BY <2>1, <2>2
<1>. HIDE DEF u
<1>3. told' = u \o <<"end">>
  BY DEF Return, u
<1>4. u \o <<"end">> = Append(u, "end")
  BY <1>2
<1>5. /\ told' \in Seq(T) /\ Len(told') = Len(u) + 1 /\ told'[Len(u) + 1] = "end" /\ told' # <<>>
      /\ \A i \in 1..Len(u) : told'[i] = u[i]
  BY <1>2, <1>3, <1>4
<1>6. ASSUME NEW i \in 1..Len(told')
      PROVE  (told'[i] = "start" => i = 1) /\ (told'[i] = "end" <=> i = Len(told'))
  <2>1. CASE i \in 1..Len(u)
    BY <1>2, <1>5, <2>1
  <2>2. CASE i = Len(u) + 1
    BY <1>5, <2>2
  <2>. QED BY <1>2, <1>5, <2>1, <2>2
<1>7. told'[1] = "start"
  BY <1>2, <1>5
<1>8. loop' = how
  BY DEF Return
<1>. QED BY <1>5, <1>6, <1>7, <1>8 DEF LoopInv, Returned

\* One more event that does not end the message.
LEMMA Tells ==
  ASSUME LoopInv, loop = "reading", UNCHANGED <<loop, cancelled>>, read' # 0,
         NEW what, \/ what = "start" /\ told = <<>>
                   \/ what = "update" /\ told # <<>>,
         told' = Append(told, what)
  PROVE  LoopInv'
<1>. DEFINE T == {"start", "update", "end"}
<1>1. told \in Seq(T) /\ Len(told) \in Nat /\ what \in T /\ what # "end"
  BY DEF LoopInv
<1>2. /\ told' \in Seq(T) /\ Len(told') = Len(told) + 1 /\ told'[Len(told) + 1] = what /\ told' # <<>>
      /\ \A i \in 1..Len(told) : told'[i] = told[i]
  BY <1>1
<1>3. loop \notin Returned /\ loop' = "reading" /\ loop' \notin Returned
  BY DEF Returned
<1>4. ASSUME NEW i \in 1..Len(told') PROVE (told'[i] = "start" => i = 1) /\ told'[i] # "end"
  <2>1. CASE i \in 1..Len(told)
    BY <1>2, <1>3, <2>1 DEF LoopInv
  <2>2. CASE i = Len(told) + 1
    <3>1. told = <<>> => Len(told) = 0
      OBVIOUS
    <3>. QED BY <1>1, <1>2, <2>2, <3>1
  <2>. QED BY <1>1, <1>2, <2>1, <2>2
<1>5. told'[1] = "start"
  <2>1. CASE told = <<>>
    BY <1>2, <2>1
  <2>2. CASE told # <<>>
    <3>1. 1 \in 1..Len(told)
      BY <1>1, <2>2
    <3>. QED BY <1>2, <2>2, <3>1 DEF LoopInv
  <2>. QED BY <2>1, <2>2
<1>. QED BY <1>2, <1>3, <1>4, <1>5 DEF LoopInv

LEMMA WholeInvInit == StreamInit => WholeInv
<1>. SUFFICES ASSUME StreamInit PROVE WholeInv
  OBVIOUS
<1>1. /\ 0 \in 0..MaxChunks /\ 0 \in 0..0 /\ Buffer \in Nat /\ Len(<<>>) = 0 /\ DOMAIN <<>> = {}
  BY StreamConstants
<1>2. CallsKept(calls, order, got)
  <2>1. calls \in [Key -> CallRecord] /\ \A k \in Key : calls[k] = UnknownCall
    BY DEF StreamInit, UnknownCall, CallRecord
  <2>2. order = <<>> /\ order \in Seq(Key) /\ got = <<>> /\ got \in Seq(KeyedPiece) /\ DOMAIN got = {}
    BY DEF StreamInit
  <2>3. UnknownCall.id = "none" /\ ~UnknownCall.started
    BY DEF UnknownCall
  <2>. QED BY <2>1, <2>2, <2>3 DEF CallsKept, IsKnown
<1>3. Grows(pushed, Started, Regular)
  <2>1. \A x \in Item : x \notin Started
    <3>1. DOMAIN got = {}
      BY DEF StreamInit
    <3>2. \A k \in Key : ~calls[k].started
      BY DEF StreamInit, UnknownCall
    <3>. QED BY <3>1, <3>2 DEF Started, StreamInit
  <2>2. Regular \in SUBSET Item
    BY DEF Regular, Item
  <2>. QED BY <2>1, <2>2, NothingGrows, GrowsSame DEF StreamInit
<1>4. DrainInv
  BY <1>1, <1>2, <1>3 DEF DrainInv, StreamInit
<1>5. PumpInv
  BY <1>1 DEF PumpInv, StreamInit
<1>6. LoopInv
  <2>1. told \in Seq({"start", "update", "end"}) /\ \A i \in 1..Len(told) : FALSE
    BY DEF StreamInit
  <2>2. loop = "new" /\ cancelled = FALSE /\ draining = "none" /\ read = 0 /\ told = <<>>
    BY DEF StreamInit
  <2>. QED BY <2>1, <2>2 DEF LoopInv
<1>. QED BY <1>4, <1>5, <1>6 DEF WholeInv

\* The drain leaves the loop alone, and the loop waits for it before it has begun.
LEMMA DrainKeeps == WholeInv /\ Drain => WholeInv'
<1>. SUFFICES ASSUME WholeInv, Drain PROVE WholeInv'
  OBVIOUS
<1>1. DrainInv /\ PumpInv /\ LoopInv /\ pushed \in Seq(EventRecord) /\ Len(pushed) \in Nat
  BY PushedIs DEF WholeInv
<1>2. draining = "running" /\ UNCHANGED <<pumpVars, loopVars, cancelled>>
  BY DEF Drain, Receive, PushPiece, ReceiveFails, EndOfChunks
<1>3. DrainInv' /\ pushed' \in Seq(EventRecord) /\ Len(pushed') >= Len(pushed)
  <2>1. ASSUME NEW chunk \in Chunks, Receive(chunk)
        PROVE  DrainInv' /\ pushed' \in Seq(EventRecord) /\ Len(pushed') >= Len(pushed)
    <3>1. chunk \in Chunk
      BY StreamConstants
    <3>. QED BY <1>1, <2>1, <3>1, ReceiveKeeps
  <2>2. CASE ReceiveFails
    <3>1. /\ draining # "over" /\ draining' = "over" /\ PushError
          /\ UNCHANGED <<chunks, thinking, text, pieces, got, calls, order>>
      BY <2>2 DEF ReceiveFails
    <3>. QED BY <1>1, <3>1, DrainEnds
  <2>3. CASE EndOfChunks
    <3>1. /\ draining # "over" /\ draining' = "over" /\ UNCHANGED <<chunks, thinking, text, pieces, got, calls, order>>
          /\ \/ PushError
             \/ /\ Complete
                /\ \E type \in Terminal : pushed' = (pushed \o Ends) \o <<Event(type, 1, Final)>>
      BY <2>3 DEF EndOfChunks
    <3>. QED BY <1>1, <3>1, DrainEnds
  <2>4. CASE PushPiece
    BY <1>1, <2>4, PieceKeeps
  <2>. QED BY <2>1, <2>2, <2>3, <2>4 DEF Drain
<1>4. Len(pushed') \in Nat
  BY <1>3
<1>5. PumpInv'
  BY <1>1, <1>2, <1>3, <1>4, LongerKeeps DEF loopVars
<1>6. LoopInv'
  BY <1>1, <1>2 DEF LoopInv, loopVars
<1>. QED BY <1>3, <1>5, <1>6 DEF WholeInv

LEMMA PumpKeeps == WholeInv /\ (Pump \/ Send) => WholeInv'
<1>. SUFFICES ASSUME WholeInv, Pump \/ Send PROVE WholeInv'
  OBVIOUS
<1>1. DrainInv /\ PumpInv /\ LoopInv /\ Len(pushed) \in Nat /\ Buffer \in Nat
  BY PushedIs, StreamConstants DEF WholeInv
<1>2. UNCHANGED <<drainVars, loopVars, cancelled>>
  BY DEF Pump, Send
<1>3. DrainInv'
  BY <1>1, <1>2 DEF DrainInv, drainVars, Started, Regular, OneKey
<1>4. LoopInv'
  BY <1>1, <1>2 DEF LoopInv, drainVars, loopVars
<1>5. PumpInv'
  BY <1>1, <1>2 DEF PumpInv, Pump, Send, drainVars, loopVars
<1>. QED BY <1>3, <1>4, <1>5 DEF WholeInv

LEMMA CancelKeeps == WholeInv /\ Cancel => WholeInv'
<1>. SUFFICES ASSUME WholeInv, Cancel PROVE WholeInv'
  OBVIOUS
<1>1. DrainInv /\ PumpInv /\ LoopInv /\ UNCHANGED <<drainVars, pumpVars, loopVars>> /\ cancelled'
  BY DEF WholeInv, Cancel
<1>2. DrainInv'
  BY <1>1 DEF DrainInv, drainVars, Started, Regular, OneKey
<1>3. LoopInv'
  BY <1>1 DEF LoopInv, drainVars, loopVars, Cancel
<1>4. PumpInv'
  BY <1>1 DEF PumpInv, drainVars, loopVars, pumpVars
<1>. QED BY <1>2, <1>3, <1>4 DEF WholeInv

\* The loop: the request and its answer.
LEMMA RequestKeeps == WholeInv /\ (SendRequest \/ RequestFails \/ Answer \/ AnswerAborted) => WholeInv'
<1>. SUFFICES ASSUME WholeInv, SendRequest \/ RequestFails \/ Answer \/ AnswerAborted PROVE WholeInv'
  OBVIOUS
<1>1. DrainInv /\ PumpInv /\ LoopInv /\ Len(pushed) \in Nat /\ UNCHANGED <<pumpVars, read, cancelled>>
  BY PushedIs DEF WholeInv, SendRequest, RequestFails, Answer, AnswerAborted
<1>2. CASE SendRequest
  <2>1. DrainInv'
    BY <1>1, <1>2 DEF SendRequest, DrainInv, drainVars, Started, Regular, OneKey
  <2>2. PumpInv'
    BY <1>1, <1>2 DEF SendRequest, PumpInv, drainVars, pumpVars
  <2>3. LoopInv'
    BY <1>1, <1>2 DEF SendRequest, LoopInv, drainVars, Returned
  <2>. QED BY <2>1, <2>2, <2>3 DEF WholeInv
<1>3. CASE RequestFails
  <2>1. DrainInv'
    BY <1>1, <1>3 DEF RequestFails, DrainInv, drainVars, Started, Regular, OneKey
  <2>2. PumpInv'
    BY <1>1, <1>3 DEF RequestFails, PumpInv, drainVars, pumpVars
  <2>3. loop \notin Returned /\ cancelled \in BOOLEAN
    BY <1>1, <1>3 DEF RequestFails, Returned, LoopInv
  <2>4. PICK how \in {"aborted", "refused"} : Return(how) /\ (how = "aborted" => cancelled)
    BY <1>3 DEF RequestFails
  <2>5. LoopInv'
    BY <1>1, <2>3, <2>4, Returns DEF Returned
  <2>. QED BY <2>1, <2>2, <2>5 DEF WholeInv
<1>4. CASE Answer
  <2>1. DrainInv'
    <3>1. /\ draining = "none" /\ draining' = "running"
          /\ UNCHANGED <<chunks, thinking, text, pieces, got, calls, order, pushed>>
      BY <1>1, <1>4 DEF Answer, LoopInv
    <3>. QED BY <1>1, <3>1 DEF DrainInv, Started, Regular, OneKey
  <2>2. PumpInv'
    BY <1>1, <1>4 DEF Answer, PumpInv, pumpVars
  <2>3. LoopInv'
    BY <1>1, <1>4 DEF Answer, LoopInv, Returned
  <2>. QED BY <2>1, <2>2, <2>3 DEF WholeInv
<1>5. CASE AnswerAborted
  <2>1. /\ draining = "none" /\ draining' = "over" /\ PushError
        /\ UNCHANGED <<chunks, thinking, text, pieces, got, calls, order>>
    BY <1>1, <1>5 DEF AnswerAborted, LoopInv
  <2>2. DrainInv' /\ pushed' \in Seq(EventRecord) /\ Len(pushed') >= Len(pushed)
    BY <1>1, <2>1, DrainEnds
  <2>3. Len(pushed') \in Nat
    BY <2>2
  <2>4. PumpInv'
    BY <1>1, <2>2, <2>3, LongerKeeps
  <2>5. LoopInv'
    BY <1>1, <1>5 DEF AnswerAborted, LoopInv, Returned
  <2>. QED BY <2>2, <2>4, <2>5 DEF WholeInv
<1>. QED BY <1>2, <1>3, <1>4, <1>5

\* The first event is the start or the last one, and no other is.
LEMMA ReadKeeps == WholeInv /\ (ReadEvent \/ ReadCancelled) => WholeInv'
<1>. SUFFICES ASSUME WholeInv, ReadEvent \/ ReadCancelled PROVE WholeInv'
  OBVIOUS
<1>1. DrainInv /\ PumpInv /\ LoopInv /\ Len(pushed) \in Nat /\ Buffer \in Nat
  BY PushedIs, StreamConstants DEF WholeInv
<1>2. loop = "reading" /\ UNCHANGED <<drainVars, pumpVars, cancelled>>
  BY DEF ReadEvent, ReadCancelled
<1>3. DrainInv'
  BY <1>1, <1>2 DEF DrainInv, drainVars, Started, Regular, OneKey
<1>4. PumpInv'
  BY <1>1, <1>2 DEF PumpInv, drainVars, pumpVars, ReadEvent, ReadCancelled
<1>5. ASSUME ReadCancelled PROVE LoopInv'
  <2>1. Return("aborted") /\ "aborted" \in Returned /\ cancelled /\ loop \notin Returned
    BY <1>2, <1>5 DEF ReadCancelled, Returned
  <2>. QED BY <1>1, <1>2, <2>1, Returns
<1>6. ASSUME ReadEvent PROVE LoopInv'
  <2>1. read' = read + 1 /\ read < sent /\ read \in Nat /\ sent \in Nat /\ sent <= Len(pushed)
    BY <1>1, <1>6 DEF ReadEvent, PumpInv
  <2>2. read' \in 1..Len(pushed) /\ read' # 0 /\ (read' = 1 <=> read = 0)
    BY <1>1, <2>1
  <2>. DEFINE type == pushed[read'].type
  <2>3. /\ type \in {"begin", "start", "delta", "end", "done", "error"}
        /\ (type = "begin" => told = <<>>) /\ (type \in Telling => told # <<>>)
    BY <1>1, <1>2, <2>2, PushedIs DEF LoopInv
  <2>4. ASSUME ListenerFails PROVE LoopInv'
    BY <1>1, <1>2, <2>4 DEF ListenerFails, LoopInv, Returned
  <2>5. CASE type = "begin" /\ told' = Append(told, "start") /\ UNCHANGED loop
    BY <1>1, <1>2, <2>2, <2>3, <2>5, Tells
  <2>6. CASE type \in Telling /\ told' = Append(told, "update") /\ UNCHANGED loop
    BY <1>1, <1>2, <2>2, <2>3, <2>6, Tells
  <2>7. CASE type \in Terminal /\ Return(type)
    <3>1. type \in Returned /\ type # "aborted" /\ loop \notin Returned
      BY <1>2, <2>7 DEF Terminal, Returned
    <3>. QED BY <1>1, <1>2, <2>7, <3>1, Returns
  <2>8. \/ ListenerFails
        \/ type = "begin" /\ told' = Append(told, "start") /\ UNCHANGED loop
        \/ type \in Telling /\ told' = Append(told, "update") /\ UNCHANGED loop
        \/ type \in Terminal /\ Return(type)
    BY <1>6 DEF ReadEvent, Telling
  <2>. QED BY <2>4, <2>5, <2>6, <2>7, <2>8
<1>. QED BY <1>3, <1>4, <1>5, <1>6 DEF WholeInv

LEMMA WholeInvHolds == StreamSpec => []WholeInv
<1>1. WholeInv /\ [StreamNext]_streamVars => WholeInv'
  <2>1. WholeInv /\ StreamNext => WholeInv'
    BY DrainKeeps, PumpKeeps, CancelKeeps, RequestKeeps, ReadKeeps DEF StreamNext, Read
  <2>2. WholeInv /\ UNCHANGED streamVars => WholeInv'
    BY DEF WholeInv, DrainInv, PumpInv, LoopInv, Started, Regular, OneKey, streamVars, drainVars, pumpVars, loopVars
  <2>. QED BY <2>1, <2>2
<1>. QED BY <1>1, WholeInvInit, PTL DEF StreamSpec

LEMMA WholeInvWhole == WholeInv => StreamWhole
<1>. SUFFICES ASSUME WholeInv PROVE StreamWhole
  OBVIOUS
<1>1. DrainInv /\ PumpInv /\ LoopInv /\ Buffer \in Nat /\ MaxChunks \in Nat
  BY StreamConstants DEF WholeInv
<1>2. StreamTypeOK
  <2>1. calls \in [Key -> [id : Id \cup {"none"}, named : BOOLEAN, started : BOOLEAN]] /\ order \in Seq(Key)
    BY <1>1 DEF DrainInv, CallsKept, CallRecord
  <2>. QED BY <1>1, <2>1 DEF StreamTypeOK, DrainInv, PumpInv, LoopInv, Returned
<1>3. EventsFit
  <2>1. \A item : About(item) = AboutIn(pushed, item)
    BY DEF About, AboutIn, Telling
  <2>2. /\ {"thinking", "text"} \cup Id = Item /\ Telling = {"start", "delta", "end"}
        /\ {"thinking", "text"} \cup {id \in Id : OneKey(id)} = Regular
    BY DEF Item, Telling, Regular
  <2>3. pushed \in Seq(EventRecord) /\ DOMAIN pushed = 1..Len(pushed) /\ Len(pushed) \in Nat
    BY <1>1, PushedIs
  <2>4. CASE draining = "over"
    <3>1. FitsIn(pushed, Regular) /\ Last(pushed) = pushed[Len(pushed)]
      BY <1>1, <2>4 DEF DrainInv, Last
    <3>. QED BY <2>1, <2>2, <3>1 DEF EventsFit, FitsIn
  <2>5. CASE draining # "over"
    <3>1. Grows(pushed, Started, Regular)
      BY <1>1, <2>5 DEF DrainInv
    <3>2. \A i \in DOMAIN pushed : /\ pushed[i].type \in {"begin", "start", "delta"}
                                   /\ pushed[i].type = "begin" <=> i = 1
                                   /\ pushed[i].type \notin Terminal
      BY <3>1 DEF Grows, Terminal
    <3>3. ~Closed
      <4>1. pushed # <<>> => Len(pushed) \in DOMAIN pushed
        BY <2>3
      <4>. QED BY <3>2, <4>1 DEF Closed, Last
    <3>4. \A i \in DOMAIN pushed :
            /\ pushed[i].type = "begin" <=> (i = 1 /\ ~(pushed[1].type \in Terminal))
            /\ pushed[i].type \in Terminal => i = Len(pushed)
            /\ pushed[i].type \in {"start", "delta", "end"} => pushed[i].at \in DOMAIN pushed[i].partial
      BY <3>1, <3>2 DEF Grows
    <3>5. ASSUME NEW item \in Regular, NEW i \in About(item)
          PROVE  /\ pushed[i].type = "start" <=> \A j \in About(item) : i <= j
                 /\ pushed[i].type # "end"
      <4>1. i \in DOMAIN pushed
        BY DEF About
      <4>. QED BY <2>1, <3>1, <3>2, <4>1 DEF Grows
    <3>. QED BY <2>2, <3>3, <3>4, <3>5 DEF EventsFit
  <2>. QED BY <2>4, <2>5
<1>4. ToldWhole
  <2>1. told # <<>> => Head(told) = told[1]
    BY <1>1 DEF LoopInv
  <2>2. DOMAIN told = 1..Len(told)
    BY <1>1 DEF LoopInv
  <2>. QED BY <1>1, <2>1, <2>2 DEF LoopInv, ToldWhole, Returned
<1>. QED BY <1>2, <1>3, <1>4 DEF StreamWhole

\* openai_completion.go and agent_assistant.go: whatever a provider sends, in whatever
\* order, with whatever ids, and wherever it fails or is cancelled, the events fit
\* together and the listeners are told of a whole message, for any set of chunks that
\* it may send, any number of them and any capacity.
THEOREM StreamsAreWhole == StreamSpec => []StreamWhole
BY WholeInvHolds, WholeInvWhole, PTL

==============================================================================
