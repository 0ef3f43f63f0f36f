------------------------------- MODULE FoldProofs -------------------------------
(***************************************************************************)
(* Induction over numbers, and what follows for the folds over sequences   *)
(* the models are written with.                                            *)
(*                                                                         *)
(* A fold recurses, and nothing can be concluded from a theorem with an    *)
(* operator for a parameter.  Induction is from the well-founded order of  *)
(* the natural numbers instead, over a set of them, and what is folded is  *)
(* a function.                                                             *)
(***************************************************************************)
EXTENDS Integers, Sequences, SequencesExt, SequenceTheorems, FiniteSetTheorems,
        WellFoundedInduction, TLAPS

-----------------------------------------------------------------------------
(***************************************************************************)
(* Induction, and functions defined by it.                                 *)
(***************************************************************************)
\* A set of natural numbers with 0 and all successors has them all.
LEMMA NatInd == ASSUME NEW S \in SUBSET Nat, 0 \in S, \A n \in S : n + 1 \in S PROVE S = Nat
<1> SUFFICES ASSUME Nat \ S # {} PROVE FALSE
  OBVIOUS
<1> DEFINE T == Nat \ S
<1>1. T \subseteq Nat /\ T # {}
  OBVIOUS
<1>2. PICK x \in T : \A y \in T : ~ (<<y, x>> \in OpToRel(<, Nat))
  BY <1>1, WFMin, NatLessThanWellFounded
<1>3. x # 0
  OBVIOUS
<1>4. x - 1 \in Nat /\ x - 1 < x /\ x \in Nat /\ (x - 1) + 1 = x
  BY <1>3
<1>5. x - 1 \in T
  BY <1>4
<1>6. <<x - 1, x>> \in OpToRel(<, Nat)
  BY <1>4 DEF OpToRel
<1> QED
  BY <1>2, <1>5, <1>6

\* The greatest element of a set of the first numbers.
LEMMA MaxIs ==
  ASSUME NEW n \in Nat, NEW s \in SUBSET (1 .. n), s # {}
  PROVE  Max(s) \in s /\ \A y \in s : Max(s) >= y
<1> DEFINE HasMax(t) == \E x \in t : \A y \in t : x >= y
           P(k) == \A t \in SUBSET (1 .. k) : t # {} => HasMax(t)
<1>1. P(0)
  <2>1. \A t \in SUBSET (1 .. 0) : t = {}
    OBVIOUS
  <2> QED
    BY <2>1
<1>2. ASSUME NEW k \in Nat, P(k) PROVE P(k + 1)
  <2> SUFFICES ASSUME NEW t \in SUBSET (1 .. k + 1), t # {} PROVE HasMax(t)
    OBVIOUS
  <2>1. CASE k + 1 \in t
    BY <2>1
  <2>2. CASE k + 1 \notin t
    <3>1. t \in SUBSET (1 .. k)
      BY <2>2
    <3> QED
      BY <1>2, <3>1
  <2> QED
    BY <2>1, <2>2
<1>3. \A k \in Nat : P(k)
  <2> HIDE DEF P
  <2> DEFINE N == {k \in Nat : P(k)}
  <2>1. N \in SUBSET Nat /\ 0 \in N /\ \A k \in N : k + 1 \in N
    BY <1>1, <1>2
  <2>2. N = Nat
    BY <2>1, NatInd
  <2> QED
    BY <2>2
<1>4. HasMax(s)
  BY <1>3
<1>5. Max(s) = CHOOSE x \in s : \A y \in s : x >= y
  BY DEF Max
<1> QED
  BY <1>4, <1>5

\* The greatest of the first numbers is the last.
LEMMA MaxOfPrefix ==
  ASSUME NEW n \in Nat, NEW k \in 1 .. n
  PROVE  /\ 1 .. k \in SUBSET (1 .. n)
         /\ 1 .. k # {}
         /\ Max(1 .. k) = k
         /\ (1 .. k) \ {Max(1 .. k)} = 1 .. k - 1
<1>1. 1 .. k \in SUBSET (1 .. n) /\ 1 .. k # {} /\ k \in 1 .. k
  OBVIOUS
<1>2. Max(1 .. k) \in 1 .. k /\ \A y \in 1 .. k : Max(1 .. k) >= y
  BY <1>1, MaxIs
<1>3. Max(1 .. k) = k
  BY <1>1, <1>2
<1> QED
  BY <1>1, <1>3

\* Applying the functions step[1], ..., step[n] in turn, written over sets of
\* numbers as the folds are.
IsIteration(g, X, base, n, step) ==
    /\ g \in [SUBSET (1 .. n) -> X]
    /\ \A s \in SUBSET (1 .. n) :
          g[s] = IF s = {} THEN base ELSE step[Max(s)][g[s \ {Max(s)}]]

\* There is a function that does.
LEMMA Iteration ==
  ASSUME NEW X, NEW base \in X, NEW n \in Nat, NEW step \in [1 .. n -> [X -> X]]
  PROVE  \E g : IsIteration(g, X, base, n, step)
<1> DEFINE Val(g, s) == IF s = {} THEN base ELSE step[Max(s)][g[s \ {Max(s)}]]
           Q(k) == \E g \in [SUBSET (1 .. k) -> X] :
                      \A s \in SUBSET (1 .. k) : g[s] = Val(g, s)
           P(k) == k <= n => Q(k)
<1>1. P(0)
  <2> DEFINE g0 == [s \in SUBSET (1 .. 0) |-> base]
  <2>1. g0 \in [SUBSET (1 .. 0) -> X] /\ \A s \in SUBSET (1 .. 0) : s = {} /\ g0[s] = base
    OBVIOUS
  <2> QED
    BY <2>1
<1>2. ASSUME NEW k \in Nat, P(k) PROVE P(k + 1)
  <2> SUFFICES ASSUME k + 1 <= n PROVE Q(k + 1)
    OBVIOUS
  <2>1. k \in Nat /\ k <= n /\ k + 1 \in 1 .. n
    OBVIOUS
  <2>2. PICK g \in [SUBSET (1 .. k) -> X] : \A s \in SUBSET (1 .. k) : g[s] = Val(g, s)
    BY <1>2, <2>1
  <2> DEFINE h == [s \in SUBSET (1 .. k + 1) |->
                     IF k + 1 \in s THEN step[k + 1][g[s \ {k + 1}]] ELSE g[s]]
  <2>3. \A s \in SUBSET (1 .. k + 1) : s \ {k + 1} \in SUBSET (1 .. k)
    BY <2>1
  <2>4. h \in [SUBSET (1 .. k + 1) -> X]
    <3> SUFFICES ASSUME NEW s \in SUBSET (1 .. k + 1)
                 PROVE  (IF k + 1 \in s THEN step[k + 1][g[s \ {k + 1}]] ELSE g[s]) \in X
      OBVIOUS
    <3>1. g[s \ {k + 1}] \in X
      BY <2>3
    <3>2. k + 1 \notin s => s = s \ {k + 1}
      OBVIOUS
    <3>3. step[k + 1][g[s \ {k + 1}]] \in X
      BY <2>1, <3>1
    <3> QED
      BY <3>1, <3>2, <3>3
  <2>5. ASSUME NEW s \in SUBSET (1 .. k), NEW x \in X PROVE h[s] = g[s]
    <3>1. s \in SUBSET (1 .. k + 1) /\ k + 1 \notin s
      BY <2>1
    <3> QED
      BY <3>1
  <2>6. ASSUME NEW s \in SUBSET (1 .. k + 1) PROVE h[s] = Val(h, s)
    <3>1. CASE k + 1 \in s
      <4>1. Max(s) = k + 1
        <5>1. Max(s) \in s /\ \A y \in s : Max(s) >= y
          <6>1. k + 1 \in Nat /\ s # {}
            BY <3>1
          <6> QED
            BY <6>1, MaxIs
        <5>2. Max(s) >= k + 1 /\ Max(s) \in 1 .. k + 1
          BY <3>1, <5>1
        <5> QED
          BY <2>1, <5>2
      <4>2. h[s \ {k + 1}] = g[s \ {k + 1}]
        BY <2>3, <2>5
      <4>3. h[s] = step[k + 1][g[s \ {k + 1}]]
        BY <3>1
      <4> QED
        BY <3>1, <4>1, <4>2, <4>3
    <3>2. CASE k + 1 \notin s
      <4>1. s \in SUBSET (1 .. k)
        BY <2>1, <3>2
      <4>2. h[s] = g[s] /\ g[s] = Val(g, s)
        BY <2>2, <2>5, <4>1
      <4>3. h[s \ {Max(s)}] = g[s \ {Max(s)}]
        BY <2>5, <4>1
      <4> QED
        BY <4>2, <4>3
    <3> QED
      BY <3>1, <3>2
  <2> HIDE DEF h
  <2> QED
    BY <2>4, <2>6
<1>3. \A k \in Nat : P(k)
  <2> HIDE DEF P
  <2> DEFINE N == {k \in Nat : P(k)}
  <2>1. N \in SUBSET Nat /\ 0 \in N /\ \A k \in N : k + 1 \in N
    BY <1>1, <1>2
  <2>2. N = Nat
    BY <2>1, NatInd
  <2> QED
    BY <2>2
<1>4. Q(n)
  <2> HIDE DEF Q
  <2> QED
    BY <1>3
<1> QED
  BY <1>4 DEF IsIteration

\* What holds of the first value and is handed on holds of all up to the last.
LEMMA Along ==
  ASSUME NEW X, NEW n \in Nat, NEW h, h[0] \in X,
         \A k \in 1 .. n : h[k - 1] \in X => h[k] \in X
  PROVE  \A k \in 0 .. n : h[k] \in X
<1> DEFINE N == {k \in Nat : k <= n => h[k] \in X}
<1>1. ASSUME NEW k \in N PROVE k + 1 \in N
  <2> SUFFICES ASSUME k + 1 <= n PROVE h[k + 1] \in X
    OBVIOUS
  <2>1. k \in Nat /\ k <= n /\ k + 1 \in 1 .. n /\ (k + 1) - 1 = k
    OBVIOUS
  <2>2. h[k] \in X
    BY <2>1
  <2> QED
    BY <2>1, <2>2
<1>2. N \in SUBSET Nat /\ 0 \in N
  OBVIOUS
<1>3. N = Nat
  <2> HIDE DEF N
  <2> QED
    BY <1>1, <1>2, NatInd
<1> QED
  BY <1>3

\* A function that satisfies the equation of a fold is not known to have its
\* values in X, but it has those of step on whatever is in X.
FollowsSteps(c, X, base, n, step) ==
    /\ c[{}] = base
    /\ \A s \in SUBSET (1 .. n) : s # {} /\ c[s \ {Max(s)}] \in X
          => c[s] = step[Max(s)][c[s \ {Max(s)}]]

\* The values on the way, over the numbers themselves.
IsTrace(h, X, base, n, step) ==
    /\ h \in [0 .. n -> X]
    /\ h[0] = base
    /\ \A k \in 1 .. n : h[k] = step[k][h[k - 1]]

ComesTo(X, base, n, step, v) == \E h : IsTrace(h, X, base, n, step) /\ h[n] = v

\* What such a function comes to.
LEMMA Unrolled ==
  ASSUME NEW X, NEW base \in X, NEW n \in Nat, NEW step \in [1 .. n -> [X -> X]],
         NEW c, FollowsSteps(c, X, base, n, step)
  PROVE  ComesTo(X, base, n, step, c[1 .. n])
<1> DEFINE h == [k \in 0 .. n |-> c[1 .. k]]
<1>1. h[0] = base /\ h[n] = c[1 .. n]
  <2>1. 1 .. 0 = {} /\ 0 \in 0 .. n /\ n \in 0 .. n
    OBVIOUS
  <2> QED
    BY <2>1 DEF FollowsSteps
<1>2. ASSUME NEW k \in 1 .. n, h[k - 1] \in X PROVE h[k] = step[k][h[k - 1]]
  <2>1. /\ 1 .. k \in SUBSET (1 .. n)
        /\ 1 .. k # {}
        /\ Max(1 .. k) = k
        /\ (1 .. k) \ {Max(1 .. k)} = 1 .. k - 1
    BY MaxOfPrefix
  <2>2. k \in 0 .. n /\ k - 1 \in 0 .. n
    OBVIOUS
  <2>3. h[k] = c[1 .. k] /\ h[k - 1] = c[1 .. k - 1]
    BY <2>2
  <2>4. c[1 .. k] = step[k][c[1 .. k - 1]]
    BY <1>2, <2>1, <2>3 DEF FollowsSteps
  <2> QED
    BY <2>3, <2>4
<1> HIDE DEF h
<1>3. \A k \in 1 .. n : h[k - 1] \in X => h[k] \in X
  BY <1>2
<1>4. \A k \in 0 .. n : h[k] \in X
  BY <1>1, <1>3, Along
<1>5. h \in [0 .. n -> X]
  BY <1>4 DEF h
<1>6. \A k \in 1 .. n : h[k] = step[k][h[k - 1]]
  <2>1. \A k \in 1 .. n : k - 1 \in 0 .. n
    OBVIOUS
  <2> QED
    BY <1>2, <1>4, <2>1
<1>7. IsTrace(h, X, base, n, step) /\ h[n] = c[1 .. n]
  BY <1>1, <1>5, <1>6 DEF IsTrace
<1> QED
  BY <1>7 DEF ComesTo

\* The values on the way exist.
LEMMA TraceExists ==
  ASSUME NEW X, NEW base \in X, NEW n \in Nat, NEW step \in [1 .. n -> [X -> X]]
  PROVE  \E h : IsTrace(h, X, base, n, step)
<1>1. PICK g : IsIteration(g, X, base, n, step)
  BY Iteration
<1>2. FollowsSteps(g, X, base, n, step)
  <2>1. g[{}] = base
    BY <1>1 DEF IsIteration
  <2> QED
    BY <1>1, <2>1 DEF IsIteration, FollowsSteps
<1> QED
  BY <1>2, Unrolled DEF ComesTo

\* SetToSeq lists every element once.
LEMMA SetToSeqIs ==
  ASSUME NEW S, IsFiniteSet(S)
  PROVE  /\ SetToSeq(S) \in Seq(S)
         /\ \A i, j \in 1 .. Len(SetToSeq(S)) : SetToSeq(S)[i] = SetToSeq(S)[j] => i = j
         /\ \A x \in S : \E i \in 1 .. Len(SetToSeq(S)) : SetToSeq(S)[i] = x
<1> DEFINE n == Cardinality(S)
           f == SetToSeq(S)
<1>1. n \in Nat /\ \E g \in [1 .. n -> S] : IsInjective(g)
  BY FS_CardinalityType DEF ExistsBijection, Bijection, Injection
<1>2. f \in [1 .. n -> S] /\ IsInjective(f)
  BY <1>1 DEF SetToSeq
<1>3. f \in Injection(1 .. n, S)
  BY <1>2 DEF Injection
<1> HIDE DEF f
<1>4. IsFiniteSet(1 .. n) /\ Cardinality(1 .. n) = n
  BY <1>1, FS_Interval
<1>5. f \in Surjection(1 .. n, S)
  BY <1>3, <1>4, FS_Injection
<1>6. f \in Seq(S) /\ Len(f) = n
  BY <1>1, <1>2, SeqDef
<1> QED
  BY <1>2, <1>5, <1>6 DEF Surjection, IsInjective, f

-----------------------------------------------------------------------------
(***************************************************************************)
(* FlattenSeq.                                                             *)
(***************************************************************************)
\* The sequences on the way when the sequences of q are put together.
IsConcatenation(h, S, q) ==
    /\ h \in [0 .. Len(q) -> Seq(S)]
    /\ h[0] = <<>>
    /\ \A k \in 1 .. Len(q) : h[k] = h[k - 1] \o q[k]

\* FlattenSeq puts them together.
LEMMA FlattenIs ==
  ASSUME NEW S, NEW q \in Seq(Seq(S)), Len(q) # 0
  PROVE  \E h : IsConcatenation(h, S, q) /\ h[Len(q)] = FlattenSeq(q)
<1> DEFINE n == Len(q)
           X == Seq(S)
           step == [k \in 1 .. n |-> [x \in X |-> x \o q[k]]]
           Is(g) == g = [i \in 1 .. n |-> IF i = 1 THEN q[i] ELSE g[i - 1] \o q[i]]
           f == CHOOSE g : Is(g)
<1>1. n \in Nat /\ n \in 1 .. n /\ <<>> \in X /\ \A k \in 1 .. n : q[k] \in X
  OBVIOUS
<1>2. step \in [1 .. n -> [X -> X]]
  BY <1>1
<1>3. PICK h : IsTrace(h, X, <<>>, n, step)
  <2> HIDE DEF step, n, X
  <2> QED
    BY <1>1, <1>2, TraceExists
<1>4. /\ h \in [0 .. n -> X]
      /\ h[0] = <<>>
      /\ \A k \in 1 .. n : h[k] = h[k - 1] \o q[k]
  <2>1. h \in [0 .. n -> X] /\ h[0] = <<>>
    BY <1>3 DEF IsTrace
  <2>2. \A k \in 1 .. n : k - 1 \in 0 .. n
    BY <1>1
  <2>3. \A k \in 1 .. n : h[k] = step[k][h[k - 1]]
    <3> HIDE DEF step, n, X
    <3> QED
      BY <1>3 DEF IsTrace
  <2> QED
    BY <2>1, <2>2, <2>3
<1>5. Is([i \in 1 .. n |-> h[i]])
  <2>1. h[1] = q[1]
    <3>1. 1 \in 1 .. n /\ 1 - 1 = 0
      BY <1>1
    <3>2. h[1] = <<>> \o q[1]
      BY <1>4, <3>1
    <3> QED
      BY <1>1, <3>1, <3>2
  <2>2. \A i \in 1 .. n : i # 1 => i - 1 \in 1 .. n
    OBVIOUS
  <2> HIDE DEF n, X
  <2> QED
    BY <1>4, <2>1, <2>2
<1>6. Is(f)
  <2> HIDE DEF Is
  <2> QED
    BY <1>5
<1>7. FlattenSeq(q) = f[n]
  BY Zenon DEF FlattenSeq
<1> DEFINE E == {k \in 0 .. n : k = 0 \/ f[k] = h[k]}
           id == [k \in 0 .. n |-> k]
<1>8. ASSUME NEW k \in 1 .. n, id[k - 1] \in E PROVE id[k] \in E
  <2>1. k \in 0 .. n /\ k - 1 \in 0 .. n /\ (k # 1 => k - 1 # 0)
    BY <1>1
  <2>2. h[k] = h[k - 1] \o q[k]
    BY <1>4
  <2>3. f[k] = IF k = 1 THEN q[k] ELSE f[k - 1] \o q[k]
    <3> HIDE DEF f
    <3> QED
      BY <1>6
  <2>4. CASE k = 1
    <3>1. h[k - 1] = <<>> /\ q[k] \in Seq(S)
      BY <1>1, <1>4, <2>4
    <3>2. f[k] = h[k]
      BY <2>2, <2>3, <2>4, <3>1
    <3> QED
      BY <2>1, <3>2
  <2>5. CASE k # 1
    <3>1. f[k - 1] = h[k - 1]
      BY <1>8, <2>1, <2>5
    <3>2. f[k] = h[k]
      BY <2>2, <2>3, <2>5, <3>1
    <3> QED
      BY <2>1, <3>2
  <2> QED
    BY <2>4, <2>5
<1>9. id[0] \in E
  BY <1>1
<1>10. f[n] = h[n]
  <2>1. \A k \in 0 .. n : id[k] \in E
    <3> HIDE DEF E, id, n
    <3> QED
      BY <1>1, <1>8, <1>9, Along
  <2>2. n \in 0 .. n /\ id[n] = n /\ n # 0
    BY <1>1
  <2> HIDE DEF f, id
  <2> QED
    BY <2>1, <2>2
<1> QED
  BY <1>4, <1>7, <1>10 DEF IsConcatenation

\* One sequence is the beginning of another.
Begins(u, w) == Len(u) <= Len(w) /\ \A i \in 1 .. Len(u) : w[i] = u[i]

\* What is put behind a sequence does not change its beginning.
LEMMA BeginsLonger ==
  ASSUME NEW S, NEW u \in Seq(S), NEW v \in Seq(S), NEW w \in Seq(S), Begins(u, v)
  PROVE  Begins(u, v \o w)
<1>1. /\ Len(v \o w) = Len(v) + Len(w)
      /\ \A i \in 1 .. Len(v) : (v \o w)[i] = v[i]
      /\ Len(u) \in Nat /\ Len(v) \in Nat /\ Len(w) \in Nat
  BY ConcatProperties, LenProperties
<1>2. Len(u) <= Len(v) /\ \A i \in 1 .. Len(u) : v[i] = u[i]
  BY DEF Begins
<1> DEFINE x == v \o w
<1> HIDE DEF x
<1>3. Len(x) = Len(v) + Len(w) /\ \A i \in 1 .. Len(v) : x[i] = v[i]
  BY <1>1 DEF x
<1>4. Len(u) <= Len(x) /\ \A i \in 1 .. Len(u) : x[i] = u[i]
  BY <1>1, <1>2, <1>3
<1>5. Begins(u, x)
  BY <1>4 DEF Begins
<1> QED
  BY <1>5 DEF x

\* A sequence is what the sequences of q are, one behind the other, the k-th
\* from behind place P[k - 1] to place P[k].
IsLaidOut(P, q, A) ==
    /\ P \in [0 .. Len(q) -> Nat]
    /\ P[0] = 0
    /\ Len(A) = P[Len(q)]
    /\ A = [i \in 1 .. Len(A) |-> A[i]]
    /\ \A k \in 1 .. Len(q) : P[k] = P[k - 1] + Len(q[k]) /\ P[k] <= P[Len(q)]
    /\ \A k \in 1 .. Len(q) : \A i \in 1 .. Len(q[k]) : A[P[k - 1] + i] = q[k][i]

\* FlattenSeq lays out what it puts together.
LEMMA FlattenLays ==
  ASSUME NEW S, NEW q \in Seq(Seq(S))
  PROVE  \E P : IsLaidOut(P, q, FlattenSeq(q))
<1> DEFINE n == Len(q)
           X == Seq(S)
           A == FlattenSeq(q)
<1>1. n \in Nat /\ n \in 0 .. n /\ <<>> \in X /\ \A k \in 1 .. n : q[k] \in X
  OBVIOUS
<1>2. PICK h : IsConcatenation(h, S, q) /\ h[n] = A
  <2>1. CASE n # 0
    BY <2>1, FlattenIs
  <2>2. CASE n = 0
    <3> DEFINE g == [k \in 0 .. n |-> <<>>]
    <3>1. A = q /\ q = <<>>
      <4>1. Len(q) = 0 => FlattenSeq(q) = q
        BY Zenon DEF FlattenSeq
      <4>2. Len(q) = 0 => q = <<>>
        OBVIOUS
      <4> QED
        BY <2>2, <4>1, <4>2
    <3>2. g \in [0 .. n -> X] /\ g[0] = <<>> /\ g[n] = A
      BY <1>1, <3>1
    <3>3. \A k \in 1 .. n : g[k] = g[k - 1] \o q[k]
      BY <2>2
    <3> QED
      BY <3>2, <3>3 DEF IsConcatenation
  <2> QED
    BY <2>1, <2>2
<1>3. h \in [0 .. n -> X] /\ h[0] = <<>> /\ \A k \in 1 .. n : h[k] = h[k - 1] \o q[k]
  BY <1>2 DEF IsConcatenation
<1> DEFINE P == [k \in 0 .. n |-> Len(h[k])]
<1> HIDE DEF X, A
<1>4. ASSUME NEW k \in 0 .. n PROVE Begins(h[k], h[n])
  <2> DEFINE E == {j \in 0 .. n : k <= j => Begins(h[k], h[j])}
             id == [j \in 0 .. n |-> j]
  <2>1. Begins(h[k], h[k])
    <3>1. Len(h[k]) \in Nat
      BY <1>3 DEF X
    <3> QED
      BY <3>1 DEF Begins
  <2>2. id[0] \in E
    BY <1>1, <2>1
  <2>3. ASSUME NEW j \in 1 .. n, id[j - 1] \in E PROVE id[j] \in E
    <3>1. j \in 0 .. n /\ j - 1 \in 0 .. n
      BY <1>1
    <3>2. k <= j - 1 => Begins(h[k], h[j - 1])
      BY <2>3, <3>1
    <3>3. h[k] \in X /\ h[j - 1] \in X /\ q[j] \in X /\ h[j] = h[j - 1] \o q[j]
      BY <1>1, <1>3, <3>1
    <3>4. k <= j - 1 => Begins(h[k], h[j])
      BY <3>2, <3>3, BeginsLonger DEF X
    <3>5. k <= j => k <= j - 1 \/ k = j
      BY <1>1
    <3> QED
      BY <2>1, <3>1, <3>4, <3>5
  <2>4. \A j \in 0 .. n : id[j] \in E
    <3> HIDE DEF E, id, n
    <3> QED
      BY <1>1, <2>2, <2>3, Along
  <2> QED
    BY <1>1, <2>4
<1>5. P \in [0 .. n -> Nat] /\ P[0] = 0 /\ P[n] = Len(A)
  BY <1>1, <1>2, <1>3 DEF X
<1>6. A = [i \in 1 .. Len(A) |-> A[i]] /\ Len(A) \in Nat
  <2>1. A \in Seq(S)
    BY <1>1, <1>2, <1>3 DEF X
  <2> QED
    BY <2>1
<1>7. ASSUME NEW k \in 1 .. n
      PROVE  /\ P[k] = P[k - 1] + Len(q[k]) /\ P[k] <= P[n]
             /\ \A i \in 1 .. Len(q[k]) : A[P[k - 1] + i] = q[k][i]
  <2>1. k \in 0 .. n /\ k - 1 \in 0 .. n
    BY <1>1
  <2>2. h[k - 1] \in X /\ h[k] \in X /\ q[k] \in X
    BY <1>1, <1>3, <2>1
  <2> DEFINE u == h[k - 1]
             v == q[k]
             w == h[k]
  <2>3. w = u \o v
    BY <1>3
  <2> HIDE DEF u, v, w
  <2>4. /\ Len(u) \in Nat /\ Len(v) \in Nat
        /\ Len(w) = Len(u) + Len(v)
        /\ \A i \in 1 .. Len(v) : w[Len(u) + i] = v[i]
    <3>1. u \in Seq(S) /\ v \in Seq(S)
      BY <2>2 DEF u, v, X
    <3>2. Len(u) \in Nat /\ Len(v) \in Nat
      BY <3>1, LenProperties
    <3>3. /\ Len(u \o v) = Len(u) + Len(v)
          /\ \A i \in 1 .. Len(u) + Len(v) : (u \o v)[i] = IF i <= Len(u) THEN u[i] ELSE v[i - Len(u)]
      BY <3>1, ConcatProperties
    <3>4. \A i \in 1 .. Len(u) + Len(v) : w[i] = IF i <= Len(u) THEN u[i] ELSE v[i - Len(u)]
      BY <2>3, <3>3
    <3>5. ASSUME NEW i \in 1 .. Len(v) PROVE w[Len(u) + i] = v[i]
      <4>1. Len(u) + i \in 1 .. Len(u) + Len(v) /\ ~ Len(u) + i <= Len(u) /\ (Len(u) + i) - Len(u) = i
        BY <3>2
      <4>2. w[Len(u) + i] = v[(Len(u) + i) - Len(u)]
        BY <3>4, <4>1
      <4> QED
        BY <4>1, <4>2
    <3> QED
      BY <2>3, <3>2, <3>3, <3>5
  <2>5. Len(w) <= Len(A) /\ \A i \in 1 .. Len(w) : A[i] = w[i]
    BY <1>2, <1>4, <2>1 DEF Begins, w
  <2>6. \A i \in 1 .. Len(v) : A[Len(u) + i] = v[i]
    <3>1. \A i \in 1 .. Len(v) : Len(u) + i \in 1 .. Len(w)
      BY <2>4
    <3> QED
      BY <2>4, <2>5, <3>1
  <2>7. P[k] = Len(w) /\ P[k - 1] = Len(u) /\ P[n] = Len(A)
    BY <1>1, <1>2, <2>1 DEF u, w
  <2> HIDE DEF P
  <2> QED
    BY <2>4, <2>5, <2>6, <2>7 DEF v
<1>8. IsLaidOut(P, q, A)
  <2> HIDE DEF P
  <2> QED
    BY <1>5, <1>6, <1>7 DEF IsLaidOut
<1> QED
  BY <1>8 DEF A

\* A pair behind a sequence.
LEMMA AppendPair ==
  ASSUME NEW S, NEW u \in Seq(S), NEW x \in S, NEW y \in S
  PROVE  /\ u \o <<x, y>> \in Seq(S)
         /\ Len(u) \in Nat
         /\ Len(u \o <<x, y>>) = Len(u) + 2
         /\ \A i \in 1 .. Len(u) : (u \o <<x, y>>)[i] = u[i]
         /\ (u \o <<x, y>>)[Len(u) + 1] = x
         /\ (u \o <<x, y>>)[Len(u) + 2] = y
<1>1. <<x, y>> \in Seq(S) /\ Len(<<x, y>>) = 2 /\ <<x, y>>[1] = x /\ <<x, y>>[2] = y
  OBVIOUS
<1> DEFINE p == <<x, y>>
<1> HIDE DEF p
<1>2. /\ u \o p \in Seq(S)
      /\ Len(u) \in Nat
      /\ Len(u \o p) = Len(u) + 2
      /\ \A i \in 1 .. Len(u) : (u \o p)[i] = u[i]
      /\ (u \o p)[Len(u) + 1] = p[1]
      /\ (u \o p)[Len(u) + 2] = p[2]
  BY <1>1, ConcatProperties DEF p
<1> QED
  BY <1>1, <1>2 DEF p

\* The text is pairs put together.
IsPairs(text, S, n, a, b) ==
    /\ text \in Seq(S)
    /\ Len(text) = 2 * n
    /\ \A i \in 1 .. n : text[2 * i - 1] = a[i] /\ text[2 * i] = b[i]

\* Pairs put together with FlattenSeq.
LEMMA PairsFlattened ==
  ASSUME NEW S, NEW n \in Nat, NEW a \in [1 .. n -> S], NEW b \in [1 .. n -> S],
         NEW q \in [1 .. n -> Seq(S)], \A i \in 1 .. n : q[i] = <<a[i], b[i]>>,
         NEW text, text = FlattenSeq(q)
  PROVE  IsPairs(text, S, n, a, b)
<1>1. q \in Seq(Seq(S)) /\ Len(q) = n
  BY SeqDef
<1>2. text = FlattenSeq(q)
  OBVIOUS
<1>3. CASE n = 0
  <2>1. text = q /\ q = <<>>
    BY <1>1, <1>2, <1>3, EmptySeq DEF FlattenSeq
  <2>2. text = <<>> /\ text \in Seq(S)
    BY <2>1
  <2>3. Len(text) = 2 * n /\ 1 .. n = {}
    BY <1>3, <2>2
  <2> QED
    BY <2>2, <2>3 DEF IsPairs
<1>4. CASE n # 0
  <2>1. PICK h : IsConcatenation(h, S, q) /\ h[n] = text
    BY <1>1, <1>2, <1>4, FlattenIs
  <2>2. /\ h \in [0 .. n -> Seq(S)]
        /\ h[0] = <<>>
        /\ \A k \in 1 .. n : h[k] = h[k - 1] \o <<a[k], b[k]>>
    BY <1>1, <2>1 DEF IsConcatenation
  <2> DEFINE Written(k) == /\ Len(h[k]) = 2 * k
                           /\ \A i \in 1 .. k : h[k][2 * i - 1] = a[i] /\ h[k][2 * i] = b[i]
             E == {k \in 0 .. n : Written(k)}
             id == [k \in 0 .. n |-> k]
  <2>3. id[0] \in E
    BY <2>2
  <2>4. ASSUME NEW k \in 1 .. n, id[k - 1] \in E PROVE id[k] \in E
    <3>1. k \in 0 .. n /\ k - 1 \in 0 .. n /\ k \in Nat
      OBVIOUS
    <3>2. Written(k - 1)
      BY <2>4, <3>1
    <3> DEFINE u == h[k - 1]
    <3>3. u \in Seq(S) /\ Len(u) = 2 * (k - 1) /\ h[k] = u \o <<a[k], b[k]>>
      BY <2>2, <3>1, <3>2
    <3>4. \A i \in 1 .. k - 1 : u[2 * i - 1] = a[i] /\ u[2 * i] = b[i]
      BY <3>2
    <3> HIDE DEF u
    <3>5. /\ Len(h[k]) = 2 * k
          /\ h[k][2 * k - 1] = a[k] /\ h[k][2 * k] = b[k]
      <4>1. Len(u) \in Nat /\ Len(u) + 1 = 2 * k - 1 /\ Len(u) + 2 = 2 * k
        BY <3>1, <3>3
      <4>2. a[k] \in S /\ b[k] \in S
        OBVIOUS
      <4> QED
        <5> DEFINE x == a[k]
                   y == b[k]
                   more == u \o <<x, y>>
        <5>1. u \in Seq(S) /\ x \in S /\ y \in S
          BY <3>3, <4>2
        <5> HIDE DEF x, y
        <5>2. Len(more) = Len(u) + 2 /\ more[Len(u) + 1] = x /\ more[Len(u) + 2] = y
          BY <5>1, AppendPair
        <5> HIDE DEF more
        <5>3. h[k] = more
          BY <3>3 DEF more, x, y
        <5> QED
          BY <4>1, <5>2, <5>3 DEF x, y
    <3>6. ASSUME NEW i \in 1 .. k - 1 PROVE h[k][2 * i - 1] = a[i] /\ h[k][2 * i] = b[i]
      <4>1. 2 * i - 1 \in 1 .. Len(u) /\ 2 * i \in 1 .. Len(u)
        BY <3>1, <3>3
      <4> QED
        BY <3>3, <3>4, <4>1
    <3>7. \A i \in 1 .. k : i \in 1 .. k - 1 \/ i = k
      BY <3>1
    <3> QED
      BY <3>1, <3>5, <3>6, <3>7
  <2>5. n \in 0 .. n /\ id[n] \in E
    <3>1. \A k \in 0 .. n : id[k] \in E
      <4> HIDE DEF E, id
      <4> QED
        BY <2>3, <2>4, Along
    <3> QED
      BY <3>1
  <2> QED
    BY <2>1, <2>2, <2>5 DEF IsPairs
<1> QED
  BY <1>3, <1>4

-----------------------------------------------------------------------------
(***************************************************************************)
(* Numbers and their digits.                                               *)
(***************************************************************************)
\* A number is made of its quotient and its remainder, and of nothing else.
LEMMA DivMod ==
  ASSUME NEW B \in Nat, B > 0, NEW x \in Nat
  PROVE  /\ x \div B \in Nat
         /\ x % B \in 0 .. B - 1
         /\ x = (x \div B) * B + (x % B)
<1>1. PICK q : q = x \div B
  OBVIOUS
<1>2. PICK r : r = x % B
  OBVIOUS
<1>3. r \in 0 .. B - 1 /\ q \in Int /\ x = B * q + r
  BY <1>1, <1>2
<1>4. q >= 0
  BY <1>3
<1>5. q \in Nat /\ r \in 0 .. B - 1 /\ x = q * B + r
  BY <1>3, <1>4
<1> QED
  BY <1>1, <1>2, <1>5

\* A quotient and a remainder make one number.
LEMMA DivModUnique ==
  ASSUME NEW B \in Nat, B > 0, NEW q \in Nat, NEW r \in 0 .. B - 1
  PROVE  (q * B + r) \div B = q /\ (q * B + r) % B = r
<1> DEFINE x == q * B + r
<1>1. x \in Nat /\ x = B * q + r
  OBVIOUS
<1> HIDE DEF x
<1>2. q = x \div B /\ r = x % B
  BY <1>1
<1> QED
  BY <1>2 DEF x

\* The values on the way when digits are read as a number in base B.
IsReading(h, B, q) ==
    /\ h \in [0 .. Len(q) -> Nat]
    /\ h[0] = 0
    /\ h[Len(q)] = FoldLeft(LAMBDA n, d : n * B + d, 0, q)
    /\ \A k \in 1 .. Len(q) : h[k] = h[k - 1] * B + q[k]

\* A number is read digit by digit.
LEMMA NumberFold ==
  ASSUME NEW B \in Nat, NEW q \in Seq(Nat)
  PROVE  \E h : IsReading(h, B, q)
<1> DEFINE n == Len(q)
           step == [k \in 1 .. n |-> [x \in Nat |-> x * B + q[k]]]
           Fold(h) == h = [s \in SUBSET DOMAIN q |->
                             IF s = {} THEN 0 ELSE h[s \ {Max(s)}] * B + q[Max(s)]]
<1>1. n \in Nat /\ DOMAIN q = 1 .. n /\ \A k \in 1 .. n : q[k] \in Nat
  OBVIOUS
<1>2. ASSUME NEW x \in Nat, NEW d \in Nat PROVE x * B + d \in Nat
  OBVIOUS
<1>3. step \in [1 .. n -> [Nat -> Nat]]
  BY <1>1, <1>2
<1>4. \A k \in 1 .. n, x \in Nat : step[k][x] = x * B + q[k]
  OBVIOUS
<1> HIDE DEF step
<1>5. \A g \in [SUBSET (1 .. n) -> Nat] : \A s \in SUBSET (1 .. n) :
         s # {} => step[Max(s)][g[s \ {Max(s)}]] = g[s \ {Max(s)}] * B + q[Max(s)]
  <2> SUFFICES ASSUME NEW g \in [SUBSET (1 .. n) -> Nat],
                      NEW s \in SUBSET (1 .. n), s # {}
               PROVE  step[Max(s)][g[s \ {Max(s)}]] = g[s \ {Max(s)}] * B + q[Max(s)]
    OBVIOUS
  <2>1. Max(s) \in 1 .. n
    BY <1>1, MaxIs
  <2>2. g[s \ {Max(s)}] \in Nat
    OBVIOUS
  <2> QED
    BY <1>4, <2>1, <2>2
<1>6. PICK g : IsIteration(g, Nat, 0, n, step)
  BY <1>1, <1>3, Iteration
<1>7. \E h : Fold(h)
  <2>1. /\ g \in [SUBSET (1 .. n) -> Nat]
        /\ \A s \in SUBSET (1 .. n) : g[s] = IF s = {} THEN 0 ELSE step[Max(s)][g[s \ {Max(s)}]]
    BY <1>6 DEF IsIteration
  <2>2. \A s \in SUBSET DOMAIN q : g[s] = IF s = {} THEN 0 ELSE g[s \ {Max(s)}] * B + q[Max(s)]
    BY <1>1, <1>5, <2>1
  <2>3. Fold(g)
    BY <1>1, <2>1, <2>2
  <2> QED
    BY <2>3
<1> DEFINE c == CHOOSE h : Fold(h)
<1>8. FoldLeft(LAMBDA x, d : x * B + d, 0, q) = c[1 .. n]
  BY <1>1, Zenon DEF FoldLeft, MapThenFoldSet
<1>9. Fold(c)
  BY <1>7, Zenon
<1> HIDE DEF c
<1>10. /\ c[{}] = 0
       /\ \A s \in SUBSET (1 .. n) : s # {} => c[s] = c[s \ {Max(s)}] * B + q[Max(s)]
  BY <1>1, <1>9
<1>11. FollowsSteps(c, Nat, 0, n, step)
  <2>1. \A s \in SUBSET (1 .. n) : s # {} => Max(s) \in 1 .. n
    BY <1>1, MaxIs
  <2> QED
    BY <1>4, <1>10, <2>1 DEF FollowsSteps
<1>12. PICK h : IsTrace(h, Nat, 0, n, step) /\ h[n] = c[1 .. n]
  <2>1. n \in Nat /\ 0 \in Nat
    BY <1>1
  <2> HIDE DEF n, Fold
  <2>2. ComesTo(Nat, 0, n, step, c[1 .. n])
    BY <1>3, <1>11, <2>1, Unrolled
  <2> QED
    BY <2>2 DEF ComesTo
<1>13. /\ h \in [0 .. n -> Nat]
       /\ h[0] = 0
       /\ \A k \in 1 .. n : h[k] = step[k][h[k - 1]]
  BY <1>12 DEF IsTrace
<1>14. \A k \in 1 .. n : h[k] = h[k - 1] * B + q[k]
  <2>1. \A k \in 1 .. n : h[k - 1] \in Nat
    <3>1. \A k \in 1 .. n : k - 1 \in 0 .. n
      BY <1>1
    <3> QED
      BY <1>13, <3>1
  <2> QED
    BY <1>4, <1>13, <2>1
<1> QED
  BY <1>8, <1>12, <1>13, <1>14 DEF IsReading

\* A product grows with its factor.
LEMMA ProductGrows ==
  ASSUME NEW B \in Nat, NEW q \in Nat, q >= B
  PROVE  q * B >= B * B
<1>1. (q - B) * B = q * B - B * B
  OBVIOUS
<1>2. ASSUME NEW u \in Nat, NEW v \in Nat PROVE u * v >= 0
  OBVIOUS
<1>3. q - B \in Nat
  OBVIOUS
<1>4. (q - B) * B >= 0
  BY <1>2, <1>3
<1> QED
  BY <1>1, <1>4

\* Two more digits.
LEMMA TwoMore ==
  ASSUME NEW B \in Nat, NEW x \in Nat, NEW c \in Nat, NEW d \in Nat
  PROVE  (x * B + c) * B + d = x * (B * B) + (c * B + d)
<1>1. (x * B + c) * B = (x * B) * B + c * B
  OBVIOUS
<1>2. (x * B) * B = x * (B * B)
  OBVIOUS
<1> QED
  BY <1>1, <1>2

\* What two digits in base B for each byte say is read back as the bytes.
LEMMA BytesRead ==
  ASSUME NEW B \in Nat, B > 0, NEW bytes \in Seq(0 .. B * B - 1),
         NEW text, text = FlattenSeq([i \in DOMAIN bytes |-> <<bytes[i] \div B, bytes[i] % B>>])
  PROVE  /\ text \in Seq(0 .. B - 1)
         /\ Len(text) = 2 * Len(bytes)
         /\ [i \in 1 .. (Len(text) \div 2) |-> text[2 * i - 1] * B + text[2 * i]] = bytes
<1> DEFINE n == Len(bytes)
           a == [i \in 1 .. n |-> bytes[i] \div B]
           b == [i \in 1 .. n |-> bytes[i] % B]
<1>1. /\ n \in Nat /\ DOMAIN bytes = 1 .. n
      /\ \A i \in 1 .. n : bytes[i] \in Nat /\ bytes[i] < B * B
      /\ bytes = [i \in 1 .. n |-> bytes[i]]
  OBVIOUS
<1>2. ASSUME NEW i \in 1 .. n
      PROVE  /\ a[i] \in 0 .. B - 1 /\ b[i] \in 0 .. B - 1
             /\ a[i] * B + b[i] = bytes[i]
  <2>1. PICK x \in Nat : x = bytes[i] /\ x < B * B
    BY <1>1
  <2>2. PICK q : q = x \div B
    OBVIOUS
  <2>3. PICK r : r = x % B
    OBVIOUS
  <2>4. q \in Nat /\ r \in 0 .. B - 1 /\ x = q * B + r
    BY <2>2, <2>3, DivMod
  <2>5. q < B
    <3>1. CASE q >= B
      <4>1. q * B >= B * B /\ q * B \in Nat /\ B * B \in Nat
        BY <2>4, <3>1, ProductGrows
      <4>2. PICK u, v \in Nat : u = q * B /\ v = B * B
        BY <4>1
      <4> QED
        <5>1. u + r < v /\ u >= v /\ r \in Nat
          BY <2>1, <2>4, <4>1, <4>2
        <5> QED
          BY <5>1
    <3> QED
      BY <2>4, <3>1
  <2>6. q \in 0 .. B - 1
    BY <2>4, <2>5
  <2> QED
    BY <2>1, <2>2, <2>3, <2>4, <2>6
<1>3. a \in [1 .. n -> 0 .. B - 1] /\ b \in [1 .. n -> 0 .. B - 1]
  BY <1>2
<1> DEFINE q == [i \in DOMAIN bytes |-> <<bytes[i] \div B, bytes[i] % B>>]
<1>4. q \in [1 .. n -> Seq(0 .. B - 1)] /\ \A i \in 1 .. n : q[i] = <<a[i], b[i]>>
  <2>1. \A i \in 1 .. n : q[i] = <<a[i], b[i]>>
    BY <1>1
  <2>2. \A i \in 1 .. n : <<a[i], b[i]>> \in Seq(0 .. B - 1)
    BY <1>2
  <2> QED
    BY <1>1, <2>1, <2>2
<1> HIDE DEF a, b, n, q
<1>5. /\ text \in Seq(0 .. B - 1)
      /\ Len(text) = 2 * n
      /\ \A i \in 1 .. n : text[2 * i - 1] = a[i] /\ text[2 * i] = b[i]
  <2> DEFINE D == 0 .. B - 1
  <2> HIDE DEF D
  <2>1. a \in [1 .. n -> D] /\ b \in [1 .. n -> D]
    BY <1>3 DEF D
  <2>2. /\ text \in Seq(D)
        /\ Len(text) = 2 * n
        /\ \A i \in 1 .. n : text[2 * i - 1] = a[i] /\ text[2 * i] = b[i]
    <3>1. text = FlattenSeq(q) /\ q \in [1 .. n -> Seq(D)]
      BY <1>4 DEF q, D
    <3>2. n \in Nat /\ \A i \in 1 .. n : q[i] = <<a[i], b[i]>>
      BY <1>1, <1>4
    <3>3. IsPairs(text, D, n, a, b)
      BY <2>1, <3>1, <3>2, PairsFlattened
    <3> QED
      BY <3>3 DEF IsPairs
  <2> QED
    BY <2>2 DEF D
<1>6. Len(text) \div 2 = n
  <2>1. ASSUME NEW k \in Nat PROVE (2 * k) \div 2 = k
    OBVIOUS
  <2> QED
    BY <1>1, <1>5, <2>1
<1>7. [i \in 1 .. n |-> text[2 * i - 1] * B + text[2 * i]] = bytes
  <2>1. \A i \in 1 .. n : text[2 * i - 1] * B + text[2 * i] = bytes[i]
    BY <1>2, <1>5
  <2> QED
    BY <1>1, <2>1
<1> QED
  BY <1>5, <1>6, <1>7 DEF n

\* Two digits in base B are a number, and so are four.
LEMMA DigitsRead ==
  ASSUME NEW B \in Nat, NEW text \in Seq(Nat)
  PROVE  LET number == FoldLeft(LAMBDA n, d : n * B + d, 0, text)
         IN  /\ Len(text) = 2 => number = text[1] * B + text[2]
             /\ Len(text) = 4 => number = (text[1] * B + text[2]) * (B * B) + (text[3] * B + text[4])
<1>1. PICK h : IsReading(h, B, text)
  BY NumberFold
<1> DEFINE number == FoldLeft(LAMBDA n, d : n * B + d, 0, text)
<1>2. /\ h[0] = 0
      /\ h[Len(text)] = number
      /\ \A k \in 1 .. Len(text) : h[k] = h[k - 1] * B + text[k]
  BY <1>1 DEF IsReading
<1> HIDE DEF number
<1>3. ASSUME Len(text) >= 2 PROVE h[2] = text[1] * B + text[2] /\ h[2] \in Nat
  <2>1. 1 \in 1 .. Len(text) /\ 2 \in 1 .. Len(text) /\ text[1] \in Nat /\ text[2] \in Nat
    BY <1>3
  <2>2. h[1] = h[0] * B + text[1] /\ h[2] = h[1] * B + text[2]
    BY <1>2, <2>1
  <2>3. h[1] = text[1]
    BY <1>2, <2>1, <2>2
  <2>4. text[1] * B \in Nat
    BY <2>1
  <2> QED
    BY SMTT(30), <2>1, <2>2, <2>3, <2>4
<1>4. ASSUME Len(text) = 4
      PROVE  number = (text[1] * B + text[2]) * (B * B) + (text[3] * B + text[4])
  <2>1. 3 \in 1 .. Len(text) /\ 4 \in 1 .. Len(text)
    BY <1>4
  <2>6. text[3] \in Nat /\ text[4] \in Nat
    BY <2>1
  <2>2. h[3] = h[2] * B + text[3] /\ h[4] = h[3] * B + text[4]
    BY <1>2, <2>1
  <2>3. PICK x \in Nat : x = h[2] /\ x = text[1] * B + text[2]
    BY <1>3, <1>4
  <2>4. h[4] = (x * B + text[3]) * B + text[4]
    BY <2>2, <2>3
  <2>5. (x * B + text[3]) * B + text[4] = x * (B * B) + (text[3] * B + text[4])
    <3>1. ASSUME NEW c \in Nat, NEW d \in Nat
          PROVE  (x * B + c) * B + d = x * (B * B) + (c * B + d)
      BY TwoMore
    <3> QED
      BY <2>6, <3>1
  <2> QED
    BY <1>2, <1>4, <2>3, <2>4, <2>5
<1>5. ASSUME Len(text) = 2 PROVE number = text[1] * B + text[2]
  BY <1>2, <1>3, <1>5
<1> QED
  BY <1>4, <1>5 DEF number

\* One or two bytes are read as a number from their digits.
LEMMA NumberRead ==
  ASSUME NEW B \in Nat, NEW bytes \in Seq(Nat), NEW text \in Seq(Nat),
         Len(text) = 2 * Len(bytes),
         \A i \in 1 .. Len(bytes) : text[2 * i - 1] * B + text[2 * i] = bytes[i]
  PROVE  LET number == FoldLeft(LAMBDA n, d : n * B + d, 0, text)
         IN  /\ Len(bytes) = 1 => number = bytes[1]
             /\ Len(bytes) = 2 => number = bytes[1] * (B * B) + bytes[2]
<1> DEFINE number == FoldLeft(LAMBDA n, d : n * B + d, 0, text)
<1>1. /\ Len(text) = 2 => number = text[1] * B + text[2]
      /\ Len(text) = 4 => number = (text[1] * B + text[2]) * (B * B) + (text[3] * B + text[4])
  BY DigitsRead
<1> HIDE DEF number
<1>2. ASSUME Len(bytes) = 1 PROVE number = bytes[1]
  <2>1. Len(text) = 2 /\ 1 \in 1 .. Len(bytes)
    BY <1>2
  <2>2. text[1] * B + text[2] = bytes[1]
    BY <2>1
  <2> QED
    BY <1>1, <2>1, <2>2
<1>3. ASSUME Len(bytes) = 2 PROVE number = bytes[1] * (B * B) + bytes[2]
  <2>1. Len(text) = 4 /\ 1 \in 1 .. Len(bytes) /\ 2 \in 1 .. Len(bytes)
    BY <1>3
  <2>2. text[1] * B + text[2] = bytes[1]
    BY <2>1
  <2>3. text[3] * B + text[4] = bytes[2]
    <3>1. text[2 * 2 - 1] * B + text[2 * 2] = bytes[2]
      BY <2>1
    <3> QED
      BY <3>1
  <2> QED
    BY <1>1, <2>1, <2>2, <2>3
<1> QED
  BY <1>2, <1>3 DEF number
=============================================================================
