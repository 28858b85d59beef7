----------------------------- MODULE QueueFacts -----------------------------
(***************************************************************************)
(* Lists and queues, in the form the proofs of this project cite: what     *)
(* Append and Tail do to a queue, what a loop that selects from a list     *)
(* returns, and induction over the natural numbers stated with sets.       *)
(***************************************************************************)
EXTENDS Integers, Sequences, FiniteSets, Selection, SequenceTheorems, FiniteSetTheorems,
        WellFoundedInduction, TLAPS

\* Posting: the queue grows by one element at its end.
LEMMA AppendFacts ==
    ASSUME NEW S, NEW q \in Seq(S), NEW e \in S
    PROVE  /\ Append(q, e) \in Seq(S)
           /\ Len(Append(q, e)) = Len(q) + 1
           /\ \A i \in 1..Len(q) : Append(q, e)[i] = q[i]
           /\ Append(q, e)[Len(q) + 1] = e
           /\ Append(q, e) # <<>>
           /\ q # <<>> => Head(Append(q, e)) = Head(q)
  <1>1. Append(q, e) # <<>>
    BY AppendProperties
  <1>2. q # <<>> => Head(Append(q, e)) = Head(q)
    BY HeadTailAppend
  <1> QED
    BY <1>1, <1>2

\* Taking: the first element goes, the others move up.
LEMMA TailFacts ==
    ASSUME NEW S, NEW q \in Seq(S), q # <<>>
    PROVE  /\ Len(q) > 0
           /\ Head(q) = q[1] /\ q[1] \in S
           /\ Tail(q) \in Seq(S)
           /\ Len(Tail(q)) = Len(q) - 1
           /\ \A i \in 1..(Len(q) - 1) : Tail(q)[i] = q[i + 1]
  OBVIOUS

-----------------------------------------------------------------------------
(***************************************************************************)
(* Messages of one kind in a queue.                                        *)
(***************************************************************************)
\* Queue q holds an element of the set M; it holds at most one.
Has(q, M) == \E i \in 1..Len(q) : q[i] \in M
AtMostOne(q, M) == \A i, j \in 1..Len(q) : q[i] \in M /\ q[j] \in M => i = j

LEMMA EmptyHas ==
    ASSUME NEW M
    PROVE  ~Has(<<>>, M) /\ AtMostOne(<<>>, M)
  BY DEF Has, AtMostOne

LEMMA AppendOther ==
    ASSUME NEW S, NEW q \in Seq(S), NEW e \in S, NEW M, e \notin M
    PROVE  /\ Has(Append(q, e), M) => Has(q, M)
           /\ AtMostOne(q, M) => AtMostOne(Append(q, e), M)
  <1>1. /\ Len(Append(q, e)) = Len(q) + 1 /\ Len(q) \in Nat
        /\ \A i \in 1..Len(q) : Append(q, e)[i] = q[i]
        /\ Append(q, e)[Len(q) + 1] = e
    BY AppendFacts
  <1>2. \A i \in 1..Len(Append(q, e)) : i \in 1..Len(q) \/ i = Len(q) + 1
    BY <1>1
  <1>3. Has(Append(q, e), M) => Has(q, M)
    BY <1>1, <1>2 DEF Has
  <1>4. AtMostOne(q, M) => AtMostOne(Append(q, e), M)
    BY <1>1, <1>2 DEF AtMostOne
  <1> QED
    BY <1>3, <1>4

LEMMA AppendHas ==
    ASSUME NEW S, NEW q \in Seq(S), NEW e \in S, NEW M
    PROVE  /\ e \in M => Has(Append(q, e), M)
           /\ ~Has(q, M) => AtMostOne(Append(q, e), M)
  <1>1. /\ Len(Append(q, e)) = Len(q) + 1 /\ Len(q) \in Nat
        /\ \A i \in 1..Len(q) : Append(q, e)[i] = q[i]
        /\ Append(q, e)[Len(q) + 1] = e
    BY AppendFacts
  <1>2. \A i \in 1..Len(Append(q, e)) : i \in 1..Len(q) \/ i = Len(q) + 1
    BY <1>1
  <1>3. Len(q) + 1 \in 1..Len(Append(q, e))
    BY <1>1
  <1>4. e \in M => Has(Append(q, e), M)
    BY <1>1, <1>3 DEF Has
  <1>5. ~Has(q, M) => AtMostOne(Append(q, e), M)
    BY <1>1, <1>2 DEF Has, AtMostOne
  <1> QED
    BY <1>4, <1>5

LEMMA TailHas ==
    ASSUME NEW S, NEW q \in Seq(S), q # <<>>, NEW M
    PROVE  /\ Head(q) \in M => Has(q, M)
           /\ Has(Tail(q), M) => Has(q, M)
           /\ Head(q) \in M /\ AtMostOne(q, M) => ~Has(Tail(q), M)
           /\ AtMostOne(q, M) => AtMostOne(Tail(q), M)
  <1>1. /\ Len(q) \in Nat /\ Len(q) > 0 /\ Head(q) = q[1]
        /\ Len(Tail(q)) = Len(q) - 1
        /\ \A i \in 1..(Len(q) - 1) : Tail(q)[i] = q[i + 1]
    BY TailFacts
  <1>2. \A i \in 1..Len(Tail(q)) : i + 1 \in 1..Len(q) /\ Tail(q)[i] = q[i + 1]
    BY <1>1
  <1>3. 1 \in 1..Len(q)
    BY <1>1
  <1>4. Head(q) \in M => Has(q, M)
    BY <1>1, <1>3 DEF Has
  <1>5. Has(Tail(q), M) => Has(q, M)
    BY <1>2 DEF Has
  <1>6. Head(q) \in M /\ AtMostOne(q, M) => ~Has(Tail(q), M)
    BY <1>1, <1>2, <1>3 DEF Has, AtMostOne
  <1>7. AtMostOne(q, M) => AtMostOne(Tail(q), M)
    BY <1>1, <1>2 DEF AtMostOne
  <1> QED
    BY <1>4, <1>5, <1>6, <1>7

-----------------------------------------------------------------------------
(***************************************************************************)
(* Induction, for sets of natural numbers.                                 *)
(***************************************************************************)
\* A set of natural numbers that is not empty has a least element.
LEMMA NatLeast ==
    ASSUME NEW T \in SUBSET Nat, T # {}
    PROVE  \E x \in T : \A y \in T : x <= y
  <1>1. PICK R : R = OpToRel(<, Nat)
    OBVIOUS
  <1>2. IsWellFoundedOn(R, Nat)
    BY <1>1, NatLessThanWellFounded
  <1>3. PICK x \in T : \A y \in T : ~(<<y, x>> \in R)
    BY <1>2, WFMin
  <1>4. R = {p \in Nat \X Nat : p[1] < p[2]}
    BY <1>1 DEF OpToRel
  <1>5. ASSUME NEW y \in T, y < x PROVE FALSE
    <2>1. <<y, x>> \in R
      BY <1>4, <1>5
    <2> QED
      BY <1>3, <2>1
  <1>6. \A y \in T : ~(y < x)
    BY <1>5
  <1>7. \A y \in T : x <= y
    BY <1>6
  <1> QED
    BY <1>7

\* A set that holds 0 and with each number the next one holds them all.
LEMMA NatInductionSet ==
    ASSUME NEW S \in SUBSET Nat, 0 \in S, \A n \in S : n + 1 \in S
    PROVE  S = Nat
  <1> SUFFICES ASSUME Nat \ S # {} PROVE FALSE
    OBVIOUS
  <1>1. PICK x \in Nat \ S : \A y \in Nat \ S : x <= y
    BY NatLeast
  <1>2. x # 0 /\ x - 1 \in Nat
    BY <1>1
  <1>3. x - 1 \in S
    BY <1>1, <1>2
  <1> QED
    BY <1>1, <1>3

\* A set that holds 0 and, up to n, with each number the next one.
LEMMA IntervalInduction ==
    ASSUME NEW n \in Nat, NEW P, 0 \in P, \A i \in 1..n : i - 1 \in P => i \in P
    PROVE  0..n \subseteq P
  <1> DEFINE S == {i \in Nat : i <= n => i \in P}
  <1>1. 0 \in S
    OBVIOUS
  <1>2. ASSUME NEW i \in S PROVE i + 1 \in S
    <2> SUFFICES ASSUME i + 1 <= n PROVE i + 1 \in P
      OBVIOUS
    <2>1. i \in P /\ i + 1 \in 1..n /\ (i + 1) - 1 = i
      OBVIOUS
    <2> QED
      BY <2>1
  <1>3. S \in SUBSET Nat
    OBVIOUS
  <1> HIDE DEF S
  <1>4. S = Nat
    BY <1>1, <1>2, <1>3, NatInductionSet
  <1> QED
    BY <1>4 DEF S

\* A loop of n turns begins with base, and the i-th turn changes x into Turn[i][x]:
\* the recursive function f that describes it.
IsLoop(f, n, base, Turn) ==
    /\ f = [i \in 0..n |-> f[i]]
    /\ f[0] = base
    /\ \A i \in 1..n : f[i] = Turn[i][f[i - 1]]

GoodTurns(n, Good, Turn) == \A i \in 1..n : \A x \in Good[i - 1] : Turn[i][x] \in Good[i]
StaysGood(f, n, Good) == \A i \in 0..n : f[i] \in Good[i]

\* When every turn leads from Good[i - 1] to Good[i] the function exists, and its
\* values are in these sets.
LEMMA LoopFacts ==
    ASSUME NEW n \in Nat, NEW base, NEW Good, NEW Turn, base \in Good[0],
           GoodTurns(n, Good, Turn)
    PROVE  \E f : IsLoop(f, n, base, Turn) /\ StaysGood(f, n, Good)
  <1> DEFINE Is(f, m) == f = [i \in 0..m |-> IF i = 0 THEN base ELSE Turn[i][f[i - 1]]]
             E == {m \in Nat : \E f : Is(f, m)}
  <1>1. 0 \in E
    <2>1. Is([i \in 0..0 |-> base], 0)
      OBVIOUS
    <2> QED
      BY <2>1
  <1>2. ASSUME NEW m \in E PROVE m + 1 \in E
    <2>1. m \in Nat /\ m + 1 \in Nat
      OBVIOUS
    <2>2. PICK f : Is(f, m)
      OBVIOUS
    <2> DEFINE g == [i \in 0..(m + 1) |-> IF i = m + 1 THEN Turn[m + 1][f[m]] ELSE f[i]]
    <2>3. \A i \in 0..m : f[i] = IF i = 0 THEN base ELSE Turn[i][f[i - 1]]
      BY <2>2
    <2>4. \A i \in 0..m : g[i] = f[i]
      BY <2>1
    <2>5. g[m + 1] = Turn[m + 1][f[m]]
      BY <2>1
    <2>6. \A i \in 0..(m + 1) : i \in 0..m \/ i = m + 1
      BY <2>1
    <2>7. \A i \in 0..m : i = 0 \/ i - 1 \in 0..m
      BY <2>1
    <2>8. g = [i \in 0..(m + 1) |-> g[i]]
      OBVIOUS
    <2> HIDE DEF g
    <2>9. ASSUME NEW i \in 0..(m + 1)
          PROVE  g[i] = IF i = 0 THEN base ELSE Turn[i][g[i - 1]]
      <3>1. CASE i = m + 1
        <4>1. i # 0 /\ i - 1 = m /\ m \in 0..m
          BY <2>1, <3>1
        <4> QED
          BY <2>4, <2>5, <3>1, <4>1
      <3>2. CASE i \in 0..m
        BY <2>3, <2>4, <2>7, <3>2
      <3> QED
        BY <2>6, <3>1, <3>2
    <2>10. Is(g, m + 1)
      BY <2>8, <2>9
    <2> HIDE DEF Is
    <2> QED
      BY <2>1, <2>10
  <1>3. E \in SUBSET Nat
    OBVIOUS
  <1> HIDE DEF E
  <1>4. E = Nat
    BY <1>1, <1>2, <1>3, NatInductionSet
  <1>5. PICK f : Is(f, n)
    BY <1>4 DEF E
  <1>6. \A i \in 0..n : f[i] = IF i = 0 THEN base ELSE Turn[i][f[i - 1]]
    BY <1>5
  <1> DEFINE P == {i \in 0..n : f[i] \in Good[i]}
  <1>7. 0 \in P
    BY <1>6
  <1>8. ASSUME NEW i \in 1..n, i - 1 \in P PROVE i \in P
    <2>1. f[i - 1] \in Good[i - 1] /\ i \in 0..n /\ i # 0
      BY <1>8
    <2> QED
      BY <1>6, <2>1 DEF GoodTurns
  <1>9. 0..n \subseteq P
    <2> HIDE DEF P
    <2> QED
      BY <1>7, <1>8, IntervalInduction
  <1>10. IsLoop(f, n, base, Turn)
    <2>1. f = [i \in 0..n |-> f[i]] /\ f[0] = base
      BY <1>5
    <2>2. \A i \in 1..n : f[i] = Turn[i][f[i - 1]]
      BY <1>6
    <2> QED
      BY <2>1, <2>2 DEF IsLoop
  <1>11. StaysGood(f, n, Good)
    BY <1>9 DEF StaysGood
  <1> QED
    BY <1>10, <1>11

-----------------------------------------------------------------------------
(***************************************************************************)
(* Selecting from a list.                                                  *)
(***************************************************************************)
\* r is what is selected from the first n elements of l: elements of l that are
\* in S, all of them, and if l has no element twice, nor has r, and their order is
\* kept.
Selected(l, S, n, r) ==
    /\ Len(r) \in 0..n
    /\ \A k \in 1..Len(r) : \E i \in 1..n : r[k] = l[i] /\ l[i] \in S
    /\ \A i \in 1..n : l[i] \in S => \E k \in 1..Len(r) : r[k] = l[i]
    /\ (\A i, j \in 1..n : l[i] = l[j] => i = j) =>
          /\ \A k, m \in 1..Len(r) : r[k] = r[m] => k = m
          /\ \A k, m \in 1..Len(r) : \A i, j \in 1..n :
                r[k] = l[i] /\ r[m] = l[j] /\ i < j => k < m

\* One more turn of the loop.
LEMMA SelectOneMore ==
    ASSUME NEW T, NEW l, NEW S, NEW n \in Nat, l[n + 1] \in T,
           NEW r \in Seq(T), Selected(l, S, n, r)
    PROVE  LET q == IF l[n + 1] \in S THEN Append(r, l[n + 1]) ELSE r
           IN  q \in Seq(T) /\ Selected(l, S, n + 1, q)
  <1>0. /\ 1..n \subseteq 1..(n + 1) /\ n + 1 \in 1..(n + 1)
        /\ \A i \in 1..(n + 1) : i \in 1..n \/ i = n + 1
    OBVIOUS
  <1>1. CASE l[n + 1] \notin S
    <2>1. Len(r) \in 0..(n + 1)
      BY DEF Selected
    <2>2. \A k \in 1..Len(r) : \E i \in 1..(n + 1) : r[k] = l[i] /\ l[i] \in S
      BY <1>0 DEF Selected
    <2>3. \A i \in 1..(n + 1) : l[i] \in S => \E k \in 1..Len(r) : r[k] = l[i]
      BY <1>0, <1>1 DEF Selected
    <2>4. (\A i, j \in 1..(n + 1) : l[i] = l[j] => i = j) =>
             \A k, m \in 1..Len(r) : r[k] = r[m] => k = m
      BY <1>0 DEF Selected
    <2>5. ASSUME \A i, j \in 1..(n + 1) : l[i] = l[j] => i = j,
                 NEW k \in 1..Len(r), NEW m \in 1..Len(r),
                 NEW i \in 1..(n + 1), NEW j \in 1..(n + 1),
                 r[k] = l[i], r[m] = l[j], i < j
          PROVE  k < m
      <3>1. \A x, y \in 1..n : l[x] = l[y] => x = y
        BY <2>5
      <3>2. PICK y \in 1..n : r[m] = l[y]
        BY DEF Selected
      <3>3. j = y /\ i \in 1..n /\ j \in 1..n
        <4>1. y \in 1..(n + 1) /\ l[j] = l[y]
          BY <1>0, <2>5, <3>2
        <4>2. j = y
          BY <2>5, <4>1
        <4> QED
          BY <2>5, <4>2
      <3> QED
        BY <2>5, <3>1, <3>3 DEF Selected
    <2> QED
      BY <1>1, <2>1, <2>2, <2>3, <2>4, <2>5 DEF Selected
  <1>2. CASE l[n + 1] \in S
    <2> DEFINE q == Append(r, l[n + 1])
    <2>1. /\ q \in Seq(T) /\ Len(q) = Len(r) + 1 /\ Len(r) \in Nat
          /\ \A k \in 1..Len(r) : q[k] = r[k]
          /\ q[Len(r) + 1] = l[n + 1]
      BY AppendFacts
    <2> HIDE DEF q
    <2>2. \A k \in 1..Len(q) : k \in 1..Len(r) \/ k = Len(r) + 1
      BY <2>1
    <2>4. Len(q) \in 0..(n + 1)
      BY <2>1 DEF Selected
    <2>5. \A k \in 1..Len(q) : \E i \in 1..(n + 1) : q[k] = l[i] /\ l[i] \in S
      <3> SUFFICES ASSUME NEW k \in 1..Len(q)
                   PROVE  \E i \in 1..(n + 1) : q[k] = l[i] /\ l[i] \in S
        OBVIOUS
      <3>1. CASE k = Len(r) + 1
        BY <1>0, <1>2, <2>1, <3>1
      <3>2. CASE k \in 1..Len(r)
        <4>1. PICK i \in 1..n : r[k] = l[i] /\ l[i] \in S
          BY <3>2 DEF Selected
        <4> QED
          BY <1>0, <2>1, <3>2, <4>1
      <3> QED
        BY <2>2, <3>1, <3>2
    <2>6. \A i \in 1..(n + 1) : l[i] \in S => \E k \in 1..Len(q) : q[k] = l[i]
      <3>1. 1..Len(r) \subseteq 1..Len(q) /\ Len(r) + 1 \in 1..Len(q)
        BY <2>1
      <3>2. \A i \in 1..n : l[i] \in S => \E k \in 1..Len(r) : r[k] = l[i]
        BY DEF Selected
      <3> QED
        BY <1>0, <2>1, <3>1, <3>2
    <2>7. ASSUME \A i, j \in 1..(n + 1) : l[i] = l[j] => i = j,
                 NEW k \in 1..Len(q), NEW m \in 1..Len(q), q[k] = q[m]
          PROVE  k = m
      <3>1. \A i, j \in 1..n : l[i] = l[j] => i = j
        BY <2>7
      <3>2. \A x \in 1..Len(r) : r[x] # l[n + 1]
        <4> SUFFICES ASSUME NEW x \in 1..Len(r), r[x] = l[n + 1] PROVE FALSE
          OBVIOUS
        <4>1. PICK i \in 1..n : r[x] = l[i]
          BY DEF Selected
        <4>2. i # n + 1
          OBVIOUS
        <4> QED
          BY <1>0, <2>7, <4>1, <4>2
      <3>3. \A x, y \in 1..Len(r) : r[x] = r[y] => x = y
        BY <3>1 DEF Selected
      <3> QED
        BY <2>1, <2>2, <2>7, <3>2, <3>3
    <2>8. ASSUME \A i, j \in 1..(n + 1) : l[i] = l[j] => i = j,
                 NEW k \in 1..Len(q), NEW m \in 1..Len(q),
                 NEW i \in 1..(n + 1), NEW j \in 1..(n + 1),
                 q[k] = l[i], q[m] = l[j], i < j
          PROVE  k < m
      <3>1. \A x, y \in 1..n : l[x] = l[y] => x = y
        BY <2>8
      <3>2. CASE k = Len(r) + 1
        <4>1. i = n + 1
          BY <1>0, <2>1, <2>8, <3>2
        <4> QED
          BY <2>8, <4>1
      <3>3. CASE k \in 1..Len(r) /\ m = Len(r) + 1
        BY <2>1, <3>3
      <3>4. CASE k \in 1..Len(r) /\ m \in 1..Len(r)
        <4>1. PICK y \in 1..n : r[m] = l[y]
          BY <3>4 DEF Selected
        <4>2. r[m] = l[j] /\ r[k] = l[i]
          BY <2>1, <2>8, <3>4
        <4>3. j = y /\ i \in 1..n /\ j \in 1..n
          <5>1. y \in 1..(n + 1) /\ l[j] = l[y]
            BY <1>0, <4>1, <4>2
          <5>2. j = y
            BY <2>8, <5>1
          <5> QED
            BY <2>8, <5>2
        <4> QED
          BY <2>8, <3>1, <3>4, <4>2, <4>3 DEF Selected
      <3> QED
        BY <2>2, <3>2, <3>3, <3>4
    <2>9. Selected(l, S, n + 1, q)
      BY <2>4, <2>5, <2>6, <2>7, <2>8 DEF Selected
    <2> QED
      BY <1>2, <2>1, <2>9 DEF q
  <1> QED
    BY <1>1, <1>2

\* What the loop returns.
LEMMA SelectFacts ==
    ASSUME NEW T, NEW l \in Seq(T), NEW S
    PROVE  /\ Select(l, S) \in Seq(T)
           /\ Selected(l, S, Len(l), Select(l, S))
  <1> DEFINE Body(f, i) == IF i = 0 THEN <<>>
                           ELSE IF l[i] \in S THEN Append(f[i - 1], l[i]) ELSE f[i - 1]
             IsKept(f, n) == f = [i \in 0..n |-> Body(f, i)]
             kept == CHOOSE f : IsKept(f, Len(l))
  <1>0. Len(l) \in Nat /\ \A i \in 1..Len(l) : l[i] \in T
    OBVIOUS
  \* The recursive function exists.
  <1>1. \A n \in Nat : \E f : IsKept(f, n)
    <2> DEFINE E == {n \in Nat : \E f : IsKept(f, n)}
    <2>1. 0 \in E
      <3>1. IsKept([i \in 0..0 |-> <<>>], 0)
        OBVIOUS
      <3> QED
        BY <3>1
    <2>2. ASSUME NEW n \in E PROVE n + 1 \in E
      <3>0. n \in Nat
        OBVIOUS
      <3>1. PICK f : IsKept(f, n)
        OBVIOUS
      <3> DEFINE g == [i \in 0..(n + 1) |-> IF i = n + 1 THEN Body(f, n + 1) ELSE f[i]]
      <3>2. ASSUME NEW i \in 0..n PROVE g[i] = f[i] /\ f[i] = Body(f, i)
        <4>1. i \in 0..(n + 1) /\ i # n + 1
          BY <3>0
        <4>2. f[i] = [j \in 0..n |-> Body(f, j)][i]
          BY <3>1
        <4> QED
          BY <4>1, <4>2
      <3>3. ASSUME NEW i \in 0..(n + 1) PROVE Body(g, i) = Body(f, i)
        <4>1. i # 0 => i - 1 \in 0..n
          OBVIOUS
        <4> QED
          BY <3>2, <4>1
      <3>4. ASSUME NEW i \in 0..(n + 1) PROVE g[i] = Body(g, i)
        <4>1. CASE i = n + 1
          BY <3>3, <4>1
        <4>2. CASE i \in 0..n
          BY <3>2, <3>3, <4>2
        <4> QED
          BY <4>1, <4>2
      <3>5. g = [i \in 0..(n + 1) |-> g[i]]
        OBVIOUS
      <3> HIDE DEF g
      <3>6. IsKept(g, n + 1)
        BY <3>4, <3>5
      <3> QED
        <4>1. n + 1 \in Nat
          BY <3>0
        <4> HIDE DEF IsKept
        <4>2. \E h : IsKept(h, n + 1)
          BY <3>6
        <4> QED
          BY <4>1, <4>2
    <2>3. E \in SUBSET Nat
      OBVIOUS
    <2> HIDE DEF E
    <2>4. E = Nat
      BY <2>1, <2>2, <2>3, NatInductionSet
    <2> QED
      BY <2>4 DEF E
  <1>2. IsKept(kept, Len(l))
    BY <1>0, <1>1
  <1>3. Select(l, S) = kept[Len(l)]
    BY DEF Select
  <1> HIDE DEF kept
  <1>4. /\ kept[0] = <<>>
        /\ \A i \in 1..Len(l) :
              kept[i] = IF l[i] \in S THEN Append(kept[i - 1], l[i]) ELSE kept[i - 1]
    <2>1. \A i \in 0..Len(l) : kept[i] = [j \in 0..Len(l) |-> Body(kept, j)][i]
      BY <1>2
    <2>2. \A i \in 0..Len(l) : kept[i] = Body(kept, i)
      BY <2>1
    <2>3. 0 \in 0..Len(l) /\ \A i \in 1..Len(l) : i \in 0..Len(l) /\ i # 0
      BY <1>0
    <2> QED
      BY <2>2, <2>3
  \* It selects.
  <1>5. \A n \in Nat : n <= Len(l) =>
            kept[n] \in Seq(T) /\ Selected(l, S, n, kept[n])
    <2> DEFINE G == {n \in Nat : n <= Len(l) =>
                                    kept[n] \in Seq(T) /\ Selected(l, S, n, kept[n])}
    <2>1. 0 \in G
      <3>1. << >> \in Seq(T) /\ Selected(l, S, 0, << >>)
        BY DEF Selected
      <3> QED
        BY <1>4, <3>1
    <2>2. ASSUME NEW n \in G PROVE n + 1 \in G
      <3> SUFFICES ASSUME n + 1 <= Len(l)
                   PROVE  kept[n + 1] \in Seq(T) /\ Selected(l, S, n + 1, kept[n + 1])
        OBVIOUS
      <3>1. /\ n \in Nat /\ n + 1 \in 1..Len(l) /\ l[n + 1] \in T
            /\ kept[n] \in Seq(T) /\ Selected(l, S, n, kept[n])
        BY <1>0
      <3>2. kept[n + 1] = IF l[n + 1] \in S THEN Append(kept[n], l[n + 1]) ELSE kept[n]
        BY <1>4, <3>1
      <3> QED
        BY <3>1, <3>2, SelectOneMore
    <2>3. G \in SUBSET Nat
      OBVIOUS
    <2> HIDE DEF G
    <2>4. G = Nat
      BY <2>1, <2>2, <2>3, NatInductionSet
    <2> QED
      BY <2>4 DEF G
  <1> QED
    BY <1>0, <1>3, <1>5

-----------------------------------------------------------------------------
(***************************************************************************)
(* How many elements a list has.                                           *)
(***************************************************************************)
Elements(q) == {q[i] : i \in 1..Len(q)}

\* A list without repetitions is as long as the set of its elements is large.
LEMMA CountElements ==
    ASSUME NEW S, NEW q \in Seq(S), \A i, j \in 1..Len(q) : q[i] = q[j] => i = j
    PROVE  Cardinality(Elements(q)) = Len(q) /\ IsFiniteSet(Elements(q))
  <1> DEFINE R == Elements(q)
  <1>1. Len(q) \in Nat /\ DOMAIN q = 1..Len(q) /\ q \in [1..Len(q) -> S]
    OBVIOUS
  <1>2. R = {q[i] : i \in 1..Len(q)}
    BY DEF Elements
  <1> HIDE DEF R
  <1>3. q \in [1..Len(q) -> R]
    BY <1>1, <1>2
  <1>4. q \in Injection(1..Len(q), R)
    BY <1>1, <1>3 DEF Injection, IsInjective
  <1>5. q \in Surjection(1..Len(q), R)
    BY <1>2, <1>3 DEF Surjection
  <1>6. ExistsBijection(1..Len(q), R)
    BY <1>4, <1>5 DEF Bijection, ExistsBijection
  <1>7. Cardinality(R) = Len(q)
    BY <1>1, <1>6, FS_CountingElements
  <1>8. IsFiniteSet(1..Len(q))
    BY <1>1, FS_Interval
  <1>9. IsFiniteSet(R)
    BY <1>6, <1>8, FS_Bijection
  <1> QED
    BY <1>7, <1>9 DEF R

\* A list without repetitions of elements of a finite set is shorter than the
\* set is large exactly when it leaves one out.
LEMMA ShortLists ==
    ASSUME NEW S, IsFiniteSet(S), NEW q \in Seq(S),
           \A i, j \in 1..Len(q) : q[i] = q[j] => i = j
    PROVE  Len(q) = Cardinality(S) <=> Elements(q) = S
  <1>1. Elements(q) \in SUBSET S
    BY DEF Elements
  <1>2. Cardinality(Elements(q)) = Len(q)
    BY CountElements
  <1>3. Cardinality(S) = Cardinality(Elements(q)) => S = Elements(q)
    BY <1>1, FS_Subset
  <1> QED
    BY <1>2, <1>3
=============================================================================
