--------------------------- MODULE SequenceLemmas ---------------------------
(***************************************************************************)
(* Induction over sets of naturals, recursive functions over intervals,    *)
(* and what the proofs about the program need of FlattenSeq and of         *)
(* counting in sequences. Induction is stated with a set, which the        *)
(* provers can instantiate, in place of a predicate.                       *)
(***************************************************************************)
EXTENDS Integers, SequencesExt, SequenceTheorems, FiniteSetTheorems, FunctionTheorems, TLAPS

(* A set of naturals with an element has a smallest one: the sets of the   *)
(* numbers below its elements are ordered by inclusion.                    *)
LEMMA Least ==
  ASSUME NEW T, T \subseteq Nat, T # {}
  PROVE  \E m \in T : \A k \in T : m <= k
  <1> DEFINE Below(n) == {k \in Nat : k < n}
             B == {Below(n) : n \in T}
  <1>1. \A n \in Nat : Below(n) \in FiniteSubsetsOf(Nat)
    <2> TAKE n \in Nat
    <2>1. IsFiniteSet(Below(n))
      BY FS_BoundedSetOfNaturals
    <2> QED
      BY <2>1 DEF FiniteSubsetsOf
  <1>2. B \subseteq FiniteSubsetsOf(Nat) /\ B # {}
    BY <1>1
  <1>3. PICK x \in B : \A y \in B : <<y, x>> \notin StrictSubsetOrdering(Nat)
    <2> HIDE DEF B
    <2> QED
      BY <1>2, FS_StrictSubsetOrderingWellFounded, WFMin
  <1>4. PICK m \in T : x = Below(m)
    OBVIOUS
  <1>5. ASSUME NEW k \in T, k < m PROVE FALSE
    <2>1. Below(k) \in B /\ <<Below(k), x>> \in (SUBSET Nat) \X (SUBSET Nat)
      BY <1>4
    <2>2. Below(k) \subseteq x /\ Below(k) # x
      BY <1>4, <1>5
    <2> HIDE DEF B, Below
    <2>3. <<Below(k), x>> \in StrictSubsetOrdering(Nat)
      BY <2>1, <2>2 DEF StrictSubsetOrdering
    <2> QED
      BY <2>1, <2>3, <1>3
  <1> QED
    BY <1>5

LEMMA Induction ==
  ASSUME NEW I, 0 \in I, \A n \in Nat : n \in I => n + 1 \in I
  PROVE  Nat \subseteq I
  <1> DEFINE T == Nat \ I
  <1> SUFFICES ASSUME T # {} PROVE FALSE
    OBVIOUS
  <1>1. PICK m \in T : \A k \in T : m <= k
    <2>1. T \subseteq Nat
      OBVIOUS
    <2> HIDE DEF T
    <2> QED
      BY <2>1, Least
  <1>2. m - 1 \in Nat /\ m - 1 \in I
    BY <1>1
  <1> QED
    BY <1>1, <1>2

(* A function can be defined by its first value and by what a step makes   *)
(* of a value.                                                             *)
Steps(g, n, a, Step, S) == /\ g \in [0..n -> S]
                           /\ g[0] = a
                           /\ \A i \in 1..n : g[i] = Step[i][g[i - 1]]

LEMMA Recursion ==
  ASSUME NEW S, NEW a \in S, NEW n \in Nat, NEW Step \in [1..n -> [S -> S]]
  PROVE  \E g : Steps(g, n, a, Step, S)
  <1> DEFINE To(k, g) == Steps(g, k, a, Step, S)
             I == {k \in Nat : k <= n => \E g : To(k, g)}
  <1>1. 0 \in I
    <2>1. To(0, [i \in 0..0 |-> a])
      BY DEF Steps
    <2> QED
      BY <2>1
  <1>2. ASSUME NEW k \in Nat, k \in I PROVE k + 1 \in I
    <2> SUFFICES ASSUME k + 1 <= n PROVE \E h : To(k + 1, h)
      OBVIOUS
    <2>1. PICK g : To(k, g)
      BY <1>2
    <2> DEFINE h == [i \in 0..(k + 1) |-> IF i = k + 1 THEN Step[i][g[k]] ELSE g[i]]
    <2>2. Step[k + 1] \in [S -> S] /\ g[k] \in S
      BY <2>1 DEF Steps
    <2>3. \A i \in 0..k : h[i] = g[i]
      OBVIOUS
    <2>4. h \in [0..(k + 1) -> S]
      BY <2>1, <2>2 DEF Steps
    <2>5. ASSUME NEW i \in 1..(k + 1) PROVE h[i] = Step[i][h[i - 1]]
      <3>1. CASE i = k + 1
        BY <3>1, <2>3
      <3>2. CASE i # k + 1
        <4>1. i \in 1..k /\ i - 1 \in 0..k /\ i \in 0..k
          BY <3>2
        <4> HIDE DEF h
        <4> QED
          BY <4>1, <2>1, <2>3 DEF Steps
      <3> QED
        BY <3>1, <3>2
    <2>6. To(k + 1, h)
      BY <2>1, <2>3, <2>4, <2>5 DEF Steps
    <2> QED
      BY <2>6
  <1>3. n \in I
    <2> HIDE DEF I
    <2> QED
      BY <1>1, <1>2, Induction
  <1> QED
    BY <1>3

-----------------------------------------------------------------------------
(* Concatenating the sequences one after the other; f is what FlattenSeq   *)
(* defines by recursion.                                                   *)
Sums(g, seqs, n, S) == /\ g \in [0..n -> Seq(S)]
                       /\ g[0] = <<>>
                       /\ \A i \in 1..n : g[i] = g[i - 1] \o seqs[i]
Flat(f, seqs, n) == f = [i \in 1..n |-> IF i = 1 THEN seqs[i] ELSE f[i - 1] \o seqs[i]]

LEMMA SumsExist ==
  ASSUME NEW S, NEW n \in Nat, NEW seqs \in [1..n -> Seq(S)]
  PROVE  \E g : Sums(g, seqs, n, S)
  <1> DEFINE Q == Seq(S)
             none == <<>>
             Step == [i \in 1..n |-> [s \in Q |-> s \o seqs[i]]]
  <1>0. none \in Q
    BY EmptySeq
  <1>1. \A s, t \in Q : s \o t \in Q
    BY ConcatProperties
  <1> HIDE DEF Q
  <1>2. seqs \in [1..n -> Q]
    BY DEF Q
  <1>3. Step \in [1..n -> [Q -> Q]]
    BY <1>1, <1>2
  <1>4. \A i \in 1..n, s \in Q : Step[i][s] = s \o seqs[i]
    OBVIOUS
  <1> HIDE DEF Step, none
  <1>5. PICK g : Steps(g, n, none, Step, Q)
    BY <1>0, <1>3, Recursion
  <1>6. \A i \in 1..n : g[i - 1] \in Q
    BY <1>5 DEF Steps
  <1>7. Sums(g, seqs, n, S)
    BY <1>4, <1>5, <1>6 DEF Sums, Steps, Q, none
  <1> QED
    BY <1>7

LEMMA FlatExists ==
  ASSUME NEW S, NEW n \in Nat, NEW seqs \in [1..n -> Seq(S)], NEW g, Sums(g, seqs, n, S)
  PROVE  Flat([i \in 1..n |-> g[i]], seqs, n)
  <1> DEFINE f == [i \in 1..n |-> g[i]]
  <1>1. ASSUME NEW i \in 1..n PROVE f[i] = IF i = 1 THEN seqs[i] ELSE f[i - 1] \o seqs[i]
    <2>1. g[i] = g[i - 1] \o seqs[i] /\ seqs[i] \in Seq(S)
      BY DEF Sums
    <2>2. CASE i = 1
      <3>1. g[0] = <<>> /\ i - 1 = 0
        BY <2>2 DEF Sums
      <3>2. g[1] = seqs[1]
        BY <2>1, <2>2, <3>1, ConcatEmptySeq
      <3> QED
        BY <2>2, <3>2
    <2>3. CASE i # 1
      <3>1. i - 1 \in 1..n
        BY <2>3
      <3> QED
        BY <2>1, <2>3, <3>1
    <2> QED
      BY <2>2, <2>3
  <1> HIDE DEF f
  <1>2. f = [i \in 1..n |-> IF i = 1 THEN seqs[i] ELSE f[i - 1] \o seqs[i]]
    <2>1. DOMAIN f = 1..n /\ f = [i \in 1..n |-> f[i]]
      BY DEF f
    <2> QED
      BY <1>1, <2>1
  <1> QED
    BY <1>2 DEF Flat, f

LEMMA FlatIsSum ==
  ASSUME NEW S, NEW n \in Nat \ {0}, NEW seqs \in [1..n -> Seq(S)],
         NEW g, Sums(g, seqs, n, S), NEW f, Flat(f, seqs, n)
  PROVE  f[n] = g[n]
  <1> DEFINE I == {k \in Nat : k + 1 <= n => f[k + 1] = g[k + 1]}
  <1>1. f[1] = g[1]
    <2>0. 1 \in 1..n /\ 1 - 1 = 0
      OBVIOUS
    <2>1. f[1] = seqs[1] /\ g[1] = <<>> \o seqs[1] /\ seqs[1] \in Seq(S)
      BY <2>0 DEF Flat, Sums
    <2> QED
      BY <2>1, ConcatEmptySeq
  <1>2. ASSUME NEW k \in Nat, k \in I PROVE k + 1 \in I
    <2> SUFFICES ASSUME k + 2 <= n PROVE f[k + 2] = g[k + 2]
      OBVIOUS
    <2>1. k + 2 \in 1..n /\ k + 2 # 1 /\ (k + 2) - 1 = k + 1
      OBVIOUS
    <2>2. f[k + 2] = f[k + 1] \o seqs[k + 2]
      BY <2>1 DEF Flat
    <2>3. g[k + 2] = g[k + 1] \o seqs[k + 2]
      BY <2>1 DEF Sums
    <2>4. f[k + 1] = g[k + 1]
      BY <1>2
    <2> QED
      BY <2>2, <2>3, <2>4
  <1>3. n - 1 \in I
    <2>1. 0 \in I /\ n - 1 \in Nat
      BY <1>1
    <2> HIDE DEF I
    <2> QED
      BY <2>1, <1>2, Induction
  <1> QED
    BY <1>3

LEMMA FlattenSteps ==
  ASSUME NEW S, NEW seqs \in Seq(Seq(S))
  PROVE  \E g : Sums(g, seqs, Len(seqs), S) /\ FlattenSeq(seqs) = g[Len(seqs)]
  <1>1. Len(seqs) \in Nat /\ seqs \in [1..Len(seqs) -> Seq(S)]
    BY LenProperties
  <1>2. PICK g : Sums(g, seqs, Len(seqs), S)
    BY <1>1, SumsExist
  <1>3. CASE Len(seqs) = 0
    <2>1. seqs = <<>> /\ g[0] = <<>>
      BY <1>2, <1>3, EmptySeq DEF Sums
    <2>2. FlattenSeq(seqs) = <<>>
      BY <1>3, <2>1 DEF FlattenSeq
    <2> QED
      BY <1>2, <1>3, <2>1, <2>2
  <1>4. CASE Len(seqs) # 0
    <2>1. \E f : Flat(f, seqs, Len(seqs))
      BY <1>1, <1>2, FlatExists
    <2>2. PICK f : Flat(f, seqs, Len(seqs)) /\ FlattenSeq(seqs) = f[Len(seqs)]
      BY <1>4, <2>1 DEF FlattenSeq, Flat
    <2>3. f[Len(seqs)] = g[Len(seqs)]
      BY <1>1, <1>2, <1>4, <2>2, FlatIsSum
    <2> QED
      BY <1>2, <2>2, <2>3
  <1> QED
    BY <1>3, <1>4

(* FlattenSeq yields elements of the sequences and nothing else.           *)
LEMMA FlattenType ==
  ASSUME NEW S, NEW seqs \in Seq(Seq(S))
  PROVE  FlattenSeq(seqs) \in Seq(S)
  <1>1. PICK g : Sums(g, seqs, Len(seqs), S) /\ FlattenSeq(seqs) = g[Len(seqs)]
    BY FlattenSteps
  <1>2. Len(seqs) \in 0..Len(seqs)
    BY LenProperties
  <1> QED
    BY <1>1, <1>2 DEF Sums

-----------------------------------------------------------------------------
(* How many elements of a sequence are in a set.                           *)
Count(s, R) == Cardinality({i \in DOMAIN s : s[i] \in R})

LEMMA CountType ==
  ASSUME NEW S, NEW s \in Seq(S), NEW R
  PROVE  /\ IsFiniteSet({i \in DOMAIN s : s[i] \in R})
         /\ Count(s, R) \in Nat
  <1>1. DOMAIN s = 1..Len(s) /\ Len(s) \in Nat
    BY LenProperties
  <1>2. IsFiniteSet(1..Len(s))
    BY <1>1, FS_Interval
  <1>3. IsFiniteSet({i \in DOMAIN s : s[i] \in R})
    BY <1>1, <1>2, FS_Subset
  <1> QED
    BY <1>3, FS_CardinalityType DEF Count

LEMMA CountEmpty ==
  ASSUME NEW R
  PROVE  Count(<<>>, R) = 0
  <1>1. {i \in DOMAIN <<>> : <<>>[i] \in R} = {}
    OBVIOUS
  <1> QED
    BY <1>1, FS_EmptySet DEF Count

LEMMA CountSingle ==
  ASSUME NEW e, NEW R
  PROVE  Count(<<e>>, R) = IF e \in R THEN 1 ELSE 0
  <1> DEFINE I == {i \in DOMAIN <<e>> : <<e>>[i] \in R}
  <1>1. I = IF e \in R THEN {1} ELSE {}
    OBVIOUS
  <1>2. Cardinality({1}) = 1 /\ Cardinality({}) = 0
    BY FS_Singleton, FS_EmptySet
  <1> QED
    BY <1>1, <1>2 DEF Count

LEMMA CountConcat ==
  ASSUME NEW S, NEW s \in Seq(S), NEW t \in Seq(S), NEW R
  PROVE  Count(s \o t, R) = Count(s, R) + Count(t, R)
  <1> DEFINE m == Len(s)
             A == {i \in DOMAIN s : s[i] \in R}
             B == {i \in DOMAIN t : t[i] \in R}
             C == {i \in DOMAIN (s \o t) : (s \o t)[i] \in R}
             D == {m + i : i \in B}
             f == [i \in B |-> m + i]
  <1>1. /\ m \in Nat /\ Len(t) \in Nat
        /\ DOMAIN s = 1..m /\ DOMAIN t = 1..Len(t)
        /\ DOMAIN (s \o t) = 1..(m + Len(t))
        /\ \A i \in 1..(m + Len(t)) : (s \o t)[i] = IF i <= m THEN s[i] ELSE t[i - m]
    BY LenProperties, ConcatProperties
  <1> HIDE DEF m
  <1>2. C = A \union D
    <2>1. ASSUME NEW i \in C PROVE i \in A \union D
      <3>1. CASE i <= m
        BY <1>1, <3>1
      <3>2. CASE i > m
        <4>1. i \in 1..(m + Len(t)) /\ ~(i <= m) /\ (s \o t)[i] \in R
          BY <1>1, <3>2
        <4>2. i - m \in 1..Len(t) /\ i = m + (i - m)
          BY <1>1, <3>2, <4>1
        <4>3. t[i - m] \in R
          BY <1>1, <4>1
        <4>4. i - m \in B
          BY <1>1, <4>2, <4>3
        <4> QED
          BY <4>2, <4>4
      <3> QED
        BY <1>1, <3>1, <3>2
    <2>2. A \subseteq C
      BY <1>1
    <2>3. ASSUME NEW i \in B PROVE m + i \in C
      <3>1. m + i \in 1..(m + Len(t)) /\ ~(m + i <= m) /\ (m + i) - m = i
        BY <1>1
      <3> QED
        BY <1>1, <3>1
    <2> QED
      BY <2>1, <2>2, <2>3
  <1>3. A \intersect D = {}
    BY <1>1
  <1>4. IsFiniteSet(A) /\ IsFiniteSet(B)
    BY CountType
  <1>5. IsFiniteSet(D) /\ Cardinality(D) = Cardinality(B)
    <2>1. f \in Bijection(B, D)
      <3>1. f \in [B -> D]
        OBVIOUS
      <3>2. \A a, b \in B : f[a] = f[b] => a = b
        BY <1>1
      <3>3. \A d \in D : \E b \in B : f[b] = d
        OBVIOUS
      <3> HIDE DEF B, D, f
      <3> QED
        BY <3>1, <3>2, <3>3, Fun_IsBij
    <2>2. ExistsBijection(B, D)
      BY <2>1, Fun_ExistsBij
    <2> HIDE DEF B, D
    <2> QED
      BY <1>4, <2>2, FS_Bijection
  <1>6. Cardinality(C) = Cardinality(A) + Cardinality(B)
    <2> HIDE DEF A, B, C, D
    <2>1. Cardinality(C) = Cardinality(A) + Cardinality(D) - Cardinality(A \intersect D)
      BY <1>2, <1>4, <1>5, FS_Union
    <2> QED
      <3>1. Cardinality(A \intersect D) = 0
        BY <1>3, FS_EmptySet
      <3>2. Cardinality(A) \in Nat /\ Cardinality(D) \in Nat
        BY <1>4, <1>5, FS_CardinalityType
      <3> QED
        BY <2>1, <3>1, <3>2, <1>5
  <1> QED
    BY <1>6 DEF Count

LEMMA CountAppend ==
  ASSUME NEW S, NEW s \in Seq(S), NEW e \in S, NEW R
  PROVE  Count(Append(s, e), R) = Count(s, R) + (IF e \in R THEN 1 ELSE 0)
  <1>1. Append(s, e) = s \o <<e>> /\ <<e>> \in Seq(S)
    BY AppendIsConcat
  <1>2. Count(Append(s, e), R) = Count(s, R) + Count(<<e>>, R)
    BY <1>1, CountConcat
  <1> QED
    BY <1>2, CountSingle

LEMMA HeadOnTail ==
  ASSUME NEW S, NEW s \in Seq(S), s # <<>>
  PROVE  /\ Head(s) \in S /\ Tail(s) \in Seq(S) /\ <<Head(s)>> \in Seq(S)
         /\ s = <<Head(s)>> \o Tail(s)
  <1> DEFINE h == <<Head(s)>>
             t == Tail(s)
             u == h \o t
  <1>1. /\ Head(s) \in S /\ t \in Seq(S) /\ h \in Seq(S)
        /\ Len(s) \in Nat \ {0} /\ Len(t) = Len(s) - 1
        /\ Len(h) = 1 /\ h[1] = s[1]
        /\ \A i \in 1..Len(t) : t[i] = s[i + 1]
    BY HeadTailProperties, EmptySeq
  <1> HIDE DEF h, t
  <1>2. /\ u \in Seq(S) /\ Len(u) = Len(h) + Len(t)
        /\ \A i \in 1..(Len(h) + Len(t)) : u[i] = IF i <= Len(h) THEN h[i] ELSE t[i - Len(h)]
    BY <1>1, ConcatProperties
  <1> HIDE DEF u
  <1>3. Len(u) = Len(s)
    BY <1>1, <1>2
  <1>4. ASSUME NEW i \in 1..Len(s) PROVE s[i] = u[i]
    <2>1. CASE i = 1
      BY <2>1, <1>1, <1>2
    <2>2. CASE i # 1
      <3>1. /\ i - 1 \in 1..Len(t) /\ (i - 1) + 1 = i /\ ~(i <= Len(h))
            /\ i \in 1..(Len(h) + Len(t)) /\ i - Len(h) = i - 1
        BY <2>2, <1>1
      <3>2. u[i] = t[i - 1] /\ t[i - 1] = s[i]
        BY <3>1, <1>1, <1>2
      <3> QED
        BY <3>2
    <2> QED
      BY <2>1, <2>2
  <1>5. s = u
    BY <1>2, <1>3, <1>4, SeqEqual
  <1> QED
    BY <1>1, <1>5 DEF h, t, u

LEMMA CountTail ==
  ASSUME NEW S, NEW s \in Seq(S), s # <<>>, NEW R
  PROVE  Count(s, R) = (IF Head(s) \in R THEN 1 ELSE 0) + Count(Tail(s), R)
  <1>1. Head(s) \in S /\ Tail(s) \in Seq(S) /\ <<Head(s)>> \in Seq(S)
    BY HeadOnTail
  <1>2. s = <<Head(s)>> \o Tail(s)
    BY HeadOnTail
  <1>3. Count(s, R) = Count(<<Head(s)>>, R) + Count(Tail(s), R)
    BY <1>1, <1>2, CountConcat
  <1> QED
    BY <1>3, CountSingle

(* If no sequence has more elements of one set than of another, neither    *)
(* has their concatenation.                                                *)
LEMMA FlattenCount ==
  ASSUME NEW S, NEW seqs \in Seq(Seq(S)), NEW A, NEW B,
         \A i \in 1..Len(seqs) : Count(seqs[i], A) = Count(seqs[i], B)
  PROVE  Count(FlattenSeq(seqs), A) = Count(FlattenSeq(seqs), B)
  <1>1. PICK g : Sums(g, seqs, Len(seqs), S) /\ FlattenSeq(seqs) = g[Len(seqs)]
    BY FlattenSteps
  <1> DEFINE I == {k \in Nat : k <= Len(seqs) => Count(g[k], A) = Count(g[k], B)}
  <1>2. 0 \in I
    BY <1>1, CountEmpty DEF Sums
  <1>3. ASSUME NEW k \in Nat, k \in I PROVE k + 1 \in I
    <2> SUFFICES ASSUME k + 1 <= Len(seqs) PROVE Count(g[k + 1], A) = Count(g[k + 1], B)
      OBVIOUS
    <2>1. Len(seqs) \in Nat /\ k + 1 \in 1..Len(seqs) /\ k \in 0..Len(seqs) /\ (k + 1) - 1 = k
      BY LenProperties
    <2>2. g[k] \in Seq(S) /\ seqs[k + 1] \in Seq(S) /\ g[k + 1] = g[k] \o seqs[k + 1]
      BY <1>1, <2>1, ElementOfSeq DEF Sums
    <2>3. Count(g[k], A) = Count(g[k], B)
      BY <1>3, <2>1
    <2> QED
      BY <2>1, <2>2, <2>3, CountConcat
  <1>4. Len(seqs) \in I
    <2>1. Len(seqs) \in Nat
      BY LenProperties
    <2> HIDE DEF I
    <2> QED
      BY <1>2, <1>3, <2>1, Induction
  <1> QED
    BY <1>1, <1>4

-----------------------------------------------------------------------------
(* Every element of T comes after one that announces it, by the relation P.*)
Announced(s, T, P) ==
    \A i \in DOMAIN s : s[i] \in T => \E k \in DOMAIN s : k < i /\ <<s[k], s[i]>> \in P

LEMMA AnnouncedConcat ==
  ASSUME NEW S, NEW s \in Seq(S), NEW t \in Seq(S), NEW T, NEW P,
         Announced(s, T, P), Announced(t, T, P)
  PROVE  Announced(s \o t, T, P)
  <1> DEFINE m == Len(s)
             u == s \o t
  <1>1. /\ m \in Nat /\ Len(t) \in Nat
        /\ DOMAIN s = 1..m /\ DOMAIN t = 1..Len(t)
        /\ DOMAIN u = 1..(m + Len(t))
        /\ \A i \in 1..(m + Len(t)) : u[i] = IF i <= m THEN s[i] ELSE t[i - m]
    BY LenProperties, ConcatProperties
  <1> HIDE DEF m, u
  <1> SUFFICES ASSUME NEW i \in DOMAIN u, u[i] \in T
               PROVE  \E k \in DOMAIN u : k < i /\ <<u[k], u[i]>> \in P
    BY DEF Announced, u
  <1>2. CASE i <= m
    <2>1. i \in DOMAIN s /\ u[i] = s[i]
      BY <1>1, <1>2
    <2>2. PICK k \in DOMAIN s : k < i /\ <<s[k], s[i]>> \in P
      BY <2>1 DEF Announced
    <2>3. k \in DOMAIN u /\ u[k] = s[k]
      BY <1>1, <2>2
    <2> QED
      BY <2>1, <2>2, <2>3
  <1>3. CASE i > m
    <2>1. i - m \in DOMAIN t /\ u[i] = t[i - m]
      BY <1>1, <1>3
    <2>2. PICK k \in DOMAIN t : k < i - m /\ <<t[k], t[i - m]>> \in P
      BY <2>1 DEF Announced
    <2>3. m + k \in DOMAIN u /\ m + k < i /\ ~(m + k <= m) /\ (m + k) - m = k
      BY <1>1, <2>1, <2>2
    <2>4. m + k \in 1..(m + Len(t))
      BY <1>1, <2>3
    <2>5. u[m + k] = t[k]
      BY <1>1, <2>3, <2>4
    <2>6. <<u[m + k], u[i]>> \in P
      BY <2>1, <2>2, <2>5
    <2> QED
      BY <2>3, <2>6
  <1>4. i <= m \/ i > m
    BY <1>1
  <1> QED
    BY <1>2, <1>3, <1>4

LEMMA FlattenAnnounced ==
  ASSUME NEW S, NEW seqs \in Seq(Seq(S)), NEW T, NEW P,
         \A i \in 1..Len(seqs) : Announced(seqs[i], T, P)
  PROVE  Announced(FlattenSeq(seqs), T, P)
  <1>1. PICK g : Sums(g, seqs, Len(seqs), S) /\ FlattenSeq(seqs) = g[Len(seqs)]
    BY FlattenSteps
  <1> DEFINE I == {k \in Nat : k <= Len(seqs) => Announced(g[k], T, P)}
  <1>2. 0 \in I
    <2>1. g[0] = <<>>
      BY <1>1 DEF Sums
    <2> QED
      BY <2>1 DEF Announced
  <1>3. ASSUME NEW k \in Nat, k \in I PROVE k + 1 \in I
    <2> SUFFICES ASSUME k + 1 <= Len(seqs) PROVE Announced(g[k + 1], T, P)
      OBVIOUS
    <2>1. Len(seqs) \in Nat /\ k + 1 \in 1..Len(seqs) /\ k \in 0..Len(seqs) /\ (k + 1) - 1 = k
      BY LenProperties
    <2>2. g[k] \in Seq(S) /\ seqs[k + 1] \in Seq(S) /\ g[k + 1] = g[k] \o seqs[k + 1]
      BY <1>1, <2>1, ElementOfSeq DEF Sums
    <2>3. Announced(g[k], T, P)
      BY <1>3, <2>1
    <2> QED
      BY <2>1, <2>2, <2>3, AnnouncedConcat
  <1>4. Len(seqs) \in I
    <2>1. Len(seqs) \in Nat
      BY LenProperties
    <2> HIDE DEF I
    <2> QED
      BY <1>2, <1>3, <2>1, Induction
  <1> QED
    BY <1>1, <1>4

(* Counting sees nothing but which of the elements are in the set.         *)
LEMMA CountSame ==
  ASSUME NEW s, NEW A, NEW B, \A i \in DOMAIN s : s[i] \in A <=> s[i] \in B
  PROVE  Count(s, A) = Count(s, B)
  <1>1. {i \in DOMAIN s : s[i] \in A} = {i \in DOMAIN s : s[i] \in B}
    OBVIOUS
  <1> QED
    BY <1>1 DEF Count

LEMMA CountThree ==
  ASSUME NEW a, NEW b, NEW c, NEW R
  PROVE  Count(<<a, b, c>>, R) = (IF a \in R THEN 1 ELSE 0) + (IF b \in R THEN 1 ELSE 0)
                                 + (IF c \in R THEN 1 ELSE 0)
  <1> DEFINE S == {a, b, c}
             s == <<a, b, c>>
             t == <<b, c>>
  <1>1. s \in Seq(S) /\ t \in Seq(S) /\ s # <<>> /\ t # <<>>
    OBVIOUS
  <1>2. Head(s) = a /\ Tail(s) = t /\ Head(t) = b /\ Tail(t) = <<c>>
    OBVIOUS
  <1> HIDE DEF S, s, t
  <1>3. /\ Count(s, R) = (IF a \in R THEN 1 ELSE 0) + Count(t, R)
        /\ Count(t, R) = (IF b \in R THEN 1 ELSE 0) + Count(<<c>>, R)
    BY <1>1, <1>2, CountTail
  <1> QED
    BY <1>3, CountSingle DEF s

(* Among the values of a function over 1..n there is a largest one.        *)
LEMMA MaximumExists ==
  ASSUME NEW n \in Nat \ {0}, NEW f \in [1..n -> Int]
  PROVE  \E k \in 1..n : \A j \in 1..n : f[j] <= f[k]
  <1> DEFINE I == {m \in Nat : m + 1 <= n =>
                      \E k \in 1..(m + 1) : \A j \in 1..(m + 1) : f[j] <= f[k]}
  <1>1. 0 \in I
    OBVIOUS
  <1>2. ASSUME NEW m \in Nat, m \in I PROVE m + 1 \in I
    <2> SUFFICES ASSUME m + 2 <= n
                 PROVE  \E k \in 1..(m + 2) : \A j \in 1..(m + 2) : f[j] <= f[k]
      OBVIOUS
    <2>1. PICK k \in 1..(m + 1) : \A j \in 1..(m + 1) : f[j] <= f[k]
      BY <1>2
    <2>2. /\ \A j \in 1..(m + 2) : f[j] \in Int /\ (j \in 1..(m + 1) \/ j = m + 2)
          /\ k \in 1..(m + 2) /\ m + 2 \in 1..(m + 2)
      OBVIOUS
    <2>3. CASE f[m + 2] <= f[k]
      BY <2>1, <2>2, <2>3
    <2>4. CASE ~(f[m + 2] <= f[k])
      <3>1. \A j \in 1..(m + 2) : f[j] <= f[m + 2]
        BY <2>1, <2>2, <2>4
      <3> QED
        BY <2>2, <3>1
    <2> QED
      BY <2>3, <2>4
  <1>3. n - 1 \in I
    <2>1. n - 1 \in Nat
      OBVIOUS
    <2> HIDE DEF I
    <2> QED
      BY <1>1, <1>2, <2>1, Induction
  <1> QED
    BY <1>3
=============================================================================
