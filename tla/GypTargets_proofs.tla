------------------------- MODULE GypTargets_proofs --------------------------
(***************************************************************************)
(* What holds of every project that Load can be given: the targets are     *)
(* listed after their dependencies, cycles are found when there are some   *)
(* and only then, published settings reach the targets they are due to,    *)
(* and the dependencies that generators get are safe. All of it follows    *)
(* from LoadInv, which says for each stage of Load what has been           *)
(* established by then.                                                    *)
(***************************************************************************)
EXTENDS GypTargets, DependencyGraph_proofs

Distinct(l) == \A i, j \in 1..Len(l) : l[i] = l[j] => i = j

\* A sequence is a list in the sense of IsTargetDict, and the other way round.
LEMMA ListOfSeq ==
    ASSUME NEW S, NEW l \in Seq(S)
    PROVE  IsList(l) /\ Len(l) \in Nat /\ DOMAIN l = 1..Len(l)
  BY DEF IsList

LEMMA SeqOfList ==
    ASSUME NEW l, IsList(l)
    PROVE  /\ l \in Seq(ToSet(l)) /\ Len(l) \in Nat /\ DOMAIN l = 1..Len(l)
           /\ ToSet(l) = {l[i] : i \in 1..Len(l)}
  <1>1. PICK n : n = Len(l)
    OBVIOUS
  <1>2. n \in Nat /\ l = [i \in 1..n |-> l[i]]
    BY <1>1 DEF IsList
  <1>3. DOMAIN l = 1..n
    BY <1>2
  <1>4. ToSet(l) = {l[i] : i \in 1..n}
    BY <1>3 DEF ToSet
  <1>5. \A i \in 1..n : l[i] \in ToSet(l)
    BY <1>4
  <1>6. PICK T : T = ToSet(l)
    OBVIOUS
  <1>7. l \in [1..n -> T]
    BY <1>2, <1>5, <1>6
  <1>8. l \in Seq(T)
    BY <1>2, <1>7
  <1> QED
    BY <1>1, <1>2, <1>3, <1>4, <1>6, <1>8

\* What is in a list, and lists over a larger set.
LEMMA SeqMember ==
    ASSUME NEW S, NEW l \in Seq(S), NEW x
    PROVE  /\ x \in ToSet(l) <=> \E i \in 1..Len(l) : l[i] = x
           /\ x \in ToSet(l) => x \in S
  BY ToSetOfSeq

LEMMA SeqWider ==
    ASSUME NEW S, NEW T, NEW l \in Seq(S), ToSet(l) \subseteq T
    PROVE  l \in Seq(T)
  <1>1. Len(l) \in Nat /\ l = [i \in 1..Len(l) |-> l[i]] /\ \A i \in 1..Len(l) : l[i] \in T
    BY SeqMember
  <1> QED
    BY <1>1

\* The list, the length, the elements and the set of a concatenation.
LEMMA ConcatFacts ==
    ASSUME NEW S, NEW p \in Seq(S), NEW q \in Seq(S)
    PROVE  /\ p \o q \in Seq(S)
           /\ Len(p \o q) = Len(p) + Len(q)
           /\ \A i \in 1..Len(p) : (p \o q)[i] = p[i]
           /\ \A i \in 1..Len(q) : (p \o q)[Len(p) + i] = q[i]
           /\ ToSet(p \o q) = ToSet(p) \cup ToSet(q)
  <1>1. PICK r, m, n : r = p \o q /\ m = Len(p) /\ n = Len(q)
    OBVIOUS
  <1>2. /\ r \in Seq(S) /\ m \in Nat /\ n \in Nat /\ Len(r) = m + n
        /\ \A i \in 1..m : r[i] = p[i]
        /\ \A i \in 1..(m + n) : i > m => r[i] = q[i - m]
    BY <1>1
  <1>3. \A i \in 1..n : r[m + i] = q[i]
    <2> SUFFICES ASSUME NEW i \in 1..n PROVE r[m + i] = q[i]
      OBVIOUS
    <2>1. m + i \in 1..(m + n) /\ m + i > m /\ (m + i) - m = i
      BY <1>2
    <2> QED
      BY <1>2, <2>1
  <1>4. ASSUME NEW x PROVE x \in ToSet(r) <=> x \in ToSet(p) \cup ToSet(q)
    <2>1. /\ x \in ToSet(r) <=> \E i \in 1..(m + n) : r[i] = x
          /\ x \in ToSet(p) <=> \E i \in 1..m : p[i] = x
          /\ x \in ToSet(q) <=> \E i \in 1..n : q[i] = x
      <3>0. r \in Seq(S)
        BY <1>2
      <3>1. x \in ToSet(r) <=> \E i \in 1..Len(r) : r[i] = x
        BY <3>0, SeqMember
      <3>2. x \in ToSet(p) <=> \E i \in 1..Len(p) : p[i] = x
        BY SeqMember
      <3>3. x \in ToSet(q) <=> \E i \in 1..Len(q) : q[i] = x
        BY SeqMember
      <3> QED
        BY <1>1, <1>2, <3>1, <3>2, <3>3
    <2>2. ASSUME NEW i \in 1..(m + n), r[i] = x PROVE x \in ToSet(p) \cup ToSet(q)
      <3>1. CASE i <= m
        <4>1. i \in 1..m
          BY <1>2, <3>1
        <4> QED
          BY <1>2, <2>1, <2>2, <4>1
      <3>2. CASE i > m
        <4>1. i - m \in 1..n
          BY <1>2, <3>2
        <4>2. r[i] = q[i - m]
          BY <1>2, <3>2
        <4> QED
          BY <2>1, <2>2, <4>1, <4>2
      <3> QED
        BY <1>2, <3>1, <3>2
    <2>3. ASSUME NEW i \in 1..m, p[i] = x PROVE x \in ToSet(r)
      <3>1. i \in 1..(m + n) /\ r[i] = x
        BY <1>2, <2>3
      <3> QED
        BY <2>1, <3>1
    <2>4. ASSUME NEW i \in 1..n, q[i] = x PROVE x \in ToSet(r)
      <3>1. m + i \in 1..(m + n) /\ r[m + i] = x
        BY <1>2, <1>3, <2>4
      <3> QED
        BY <2>1, <3>1
    <2> QED
      BY <2>1, <2>2, <2>3, <2>4
  <1>5. ToSet(r) = ToSet(p) \cup ToSet(q)
    BY <1>4
  <1> QED
    BY <1>1, <1>2, <1>3, <1>5

\* Select keeps what is in S, and does not repeat what was not repeated.
LEMMA SelectSet ==
    ASSUME NEW T, NEW l \in Seq(T), NEW S
    PROVE  /\ Select(l, S) \in Seq(T)
           /\ ToSet(Select(l, S)) = ToSet(l) \cap S
           /\ Distinct(l) => Distinct(Select(l, S))
  <1>1. PICK r, n : r = Select(l, S) /\ n = Len(l)
    OBVIOUS
  <1>2. r \in Seq(T) /\ Selected(l, S, n, r)
    BY <1>1, SelectFacts
  <1>3. ASSUME NEW x PROVE x \in ToSet(r) <=> x \in ToSet(l) \cap S
    <2>1. x \in ToSet(r) <=> \E k \in 1..Len(r) : r[k] = x
      BY <1>2, SeqMember
    <2>2. x \in ToSet(l) <=> \E i \in 1..n : l[i] = x
      BY <1>1, SeqMember
    <2> QED
      BY <1>2, <2>1, <2>2 DEF Selected
  <1>4. Distinct(l) => Distinct(r)
    BY <1>1, <1>2 DEF Selected, Distinct
  <1> QED
    BY <1>1, <1>2, <1>3, <1>4

\* A list with one element more.
LEMMA AppendSet ==
    ASSUME NEW T, NEW l \in Seq(T), NEW x \in T
    PROVE  /\ Append(l, x) \in Seq(T)
           /\ ToSet(Append(l, x)) = ToSet(l) \cup {x}
           /\ Distinct(l) /\ x \notin ToSet(l) => Distinct(Append(l, x))
  <1>1. PICK r, n : r = Append(l, x) /\ n = Len(l)
    OBVIOUS
  <1>2. /\ r \in Seq(T) /\ Len(r) = n + 1 /\ n \in Nat
        /\ \A i \in 1..n : r[i] = l[i]
        /\ r[n + 1] = x
    BY <1>1, AppendFacts
  <1>3. /\ \A i \in 1..(n + 1) : i \in 1..n \/ i = n + 1
        /\ 1..n \subseteq 1..(n + 1) /\ n + 1 \in 1..(n + 1)
    BY <1>2
  <1>4. ASSUME NEW y PROVE y \in ToSet(r) <=> y \in ToSet(l) \cup {x}
    <2>1. /\ y \in ToSet(r) <=> \E i \in 1..(n + 1) : r[i] = y
          /\ y \in ToSet(l) <=> \E i \in 1..n : l[i] = y
      <3>1. y \in ToSet(r) <=> \E i \in 1..Len(r) : r[i] = y
        BY <1>2, SeqMember
      <3>2. y \in ToSet(l) <=> \E i \in 1..Len(l) : l[i] = y
        BY SeqMember
      <3> QED
        BY <1>1, <1>2, <3>1, <3>2
    <2>2. (\E i \in 1..(n + 1) : r[i] = y) <=> (y = x \/ \E i \in 1..n : l[i] = y)
      BY <1>2, <1>3
    <2> QED
      BY <2>1, <2>2
  <1>5. ASSUME Distinct(l), x \notin ToSet(l) PROVE Distinct(r)
    <2>1. \A i \in 1..n : l[i] # x
      BY <1>1, <1>5, SeqMember
    <2> QED
      BY <1>1, <1>2, <1>3, <1>5, <2>1 DEF Distinct
  <1> QED
    BY <1>1, <1>2, <1>4, <1>5

\* The elements among the first n of l.
FirstSet(l, n) == {l[j] : j \in 1..n}

\* The first elements of a list, one after the other.
LEMMA FirstSetFacts ==
    ASSUME NEW l, NEW n \in Nat
    PROVE  /\ FirstSet(l, 0) = {}
           /\ FirstSet(l, n + 1) = FirstSet(l, n) \cup {l[n + 1]}
  <1>1. 1..0 = {}
    OBVIOUS
  <1>2. 1..(n + 1) = 1..n \cup {n + 1}
    OBVIOUS
  <1> QED
    BY <1>1, <1>2 DEF FirstSet

\* Unify leaves the same elements, each of them once.
LEMMA UnifyFacts ==
    ASSUME NEW T, NEW l \in Seq(T)
    PROVE  /\ Unify(l) \in Seq(T)
           /\ ToSet(Unify(l)) = ToSet(l)
           /\ Distinct(Unify(l))
  <1> DEFINE Eq(f) == f = [i \in 0..Len(l) |->
                 IF i = 0 THEN <<>>
                 ELSE IF l[i] \in ToSet(f[i - 1]) THEN f[i - 1] ELSE Append(f[i - 1], l[i])]
             u == CHOOSE f : Eq(f)
  <1>0. PICK n : n = Len(l)
    OBVIOUS
  <1>1. n \in Nat /\ \A i \in 1..n : l[i] \in T
    BY <1>0
  <1>2. \E f : Eq(f)
    <2> DEFINE Good == [i \in 0..n |-> Seq(T)]
               Turn == [i \in 1..n |-> [x \in Seq(T) |->
                            IF l[i] \in ToSet(x) THEN x ELSE Append(x, l[i])]]
    <2>1. << >> \in Good[0]
      BY <1>1
    <2>3. \A i \in 1..n : \A x \in Seq(T) :
             Turn[i][x] = IF l[i] \in ToSet(x) THEN x ELSE Append(x, l[i])
      OBVIOUS
    <2>4. \A i \in 0..n : Good[i] = Seq(T)
      OBVIOUS
    <2> HIDE DEF Good, Turn
    <2>2. GoodTurns(n, Good, Turn)
      <3> SUFFICES ASSUME NEW i \in 1..n, NEW x \in Good[i - 1] PROVE Turn[i][x] \in Good[i]
        BY DEF GoodTurns
      <3>1. i - 1 \in 0..n /\ i \in 0..n
        BY <1>1
      <3>2. x \in Seq(T) /\ Good[i] = Seq(T)
        BY <2>4, <3>1
      <3>3. l[i] \in T
        BY <1>1
      <3>4. Append(x, l[i]) \in Seq(T)
        BY <3>2, <3>3, AppendSet
      <3> QED
        BY <2>3, <3>2, <3>4
    <2>5. PICK f : IsLoop(f, n, <<>>, Turn) /\ StaysGood(f, n, Good)
      BY <1>1, <2>1, <2>2, LoopFacts, Zenon
    <2>6. \A i \in 0..n : i # 0 => Turn[i][f[i - 1]] =
             IF l[i] \in ToSet(f[i - 1]) THEN f[i - 1] ELSE Append(f[i - 1], l[i])
      <3> SUFFICES ASSUME NEW i \in 0..n, i # 0
                   PROVE  Turn[i][f[i - 1]] =
                            IF l[i] \in ToSet(f[i - 1]) THEN f[i - 1] ELSE Append(f[i - 1], l[i])
        OBVIOUS
      <3>1. i \in 1..n /\ i - 1 \in 0..n
        BY <1>1
      <3>2. f[i - 1] \in Seq(T)
        BY <2>4, <2>5, <3>1 DEF StaysGood
      <3> QED
        BY <2>3, <3>1, <3>2
    <2>7. Eq(f)
      BY <1>0, <2>5, <2>6 DEF IsLoop
    <2> QED
      BY <2>7
  <1>3. Eq(u)
    BY <1>2
  <1>4. Unify(l) = u[n]
    BY <1>0 DEF Unify
  <1> HIDE DEF u
  <1>5. /\ u[0] = <<>>
        /\ \A i \in 1..n : u[i] =
              IF l[i] \in ToSet(u[i - 1]) THEN u[i - 1] ELSE Append(u[i - 1], l[i])
    <2>1. \A i \in 0..n : u[i] = IF i = 0 THEN <<>>
             ELSE IF l[i] \in ToSet(u[i - 1]) THEN u[i - 1] ELSE Append(u[i - 1], l[i])
      BY <1>0, <1>3
    <2>2. 0 \in 0..n /\ \A i \in 1..n : i \in 0..n /\ i # 0
      BY <1>1
    <2> HIDE DEF Eq
    <2> QED
      BY <2>1, <2>2
  <1> HIDE DEF Eq
  <1> DEFINE P == {i \in 0..n : u[i] \in Seq(T) /\ ToSet(u[i]) = FirstSet(l, i) /\ Distinct(u[i])}
  <1>6. 0 \in P
    <2>1. << >> \in Seq(T) /\ Distinct(<<>>) /\ 0 \in 0..n
      BY <1>1 DEF Distinct
    <2>2. FirstSet(l, 0) = {}
      BY FirstSetFacts
    <2> QED
      BY <1>5, <2>1, <2>2, ToSetOfEmpty
  <1>7. ASSUME NEW i \in 1..n, i - 1 \in P PROVE i \in P
    <2>1. PICK v, w, m : v = u[i - 1] /\ w = u[i] /\ m = i - 1
      OBVIOUS
    <2>2. /\ v \in Seq(T) /\ ToSet(v) = FirstSet(l, m) /\ Distinct(v) /\ l[i] \in T
          /\ m \in Nat /\ i = m + 1
      BY <1>1, <1>7, <2>1
    <2>3. w = IF l[i] \in ToSet(v) THEN v ELSE Append(v, l[i])
      BY <1>5, <2>1
    <2>4. FirstSet(l, i) = FirstSet(l, m) \cup {l[i]}
      BY <2>2, FirstSetFacts
    <2>5. w \in Seq(T) /\ ToSet(w) = FirstSet(l, i) /\ Distinct(w)
      <3>1. CASE l[i] \in ToSet(v)
        BY <2>2, <2>3, <2>4, <3>1
      <3>2. CASE l[i] \notin ToSet(v)
        <4>1. w = Append(v, l[i])
          BY <2>3, <3>2
        <4>2. v \in Seq(T) /\ l[i] \in T
          BY <2>2
        <4>3. /\ w \in Seq(T) /\ ToSet(w) = ToSet(v) \cup {l[i]}
              /\ Distinct(v) /\ l[i] \notin ToSet(v) => Distinct(w)
          BY <4>1, <4>2, AppendSet
        <4> QED
          BY <2>2, <2>4, <3>2, <4>3
      <3> QED
        BY <3>1, <3>2
    <2> QED
      BY <2>1, <2>5
  <1>8. n \in P
    <2> HIDE DEF P
    <2>1. 0..n \subseteq P
      BY <1>1, <1>6, <1>7, IntervalInduction
    <2> QED
      BY <1>1, <2>1
  <1>9. ToSet(l) = FirstSet(l, n)
    BY <1>0, ToSetOfSeq DEF FirstSet
  <1> QED
    BY <1>4, <1>8, <1>9

\* An item is appended, or is left out and is there already.
LEMMA MergeListsFacts ==
    ASSUME NEW T, NEW to \in Seq(T), NEW fro \in Seq(T), NEW singletons
    PROVE  /\ MergeListsAppend(to, fro, singletons) \in Seq(T)
           /\ ToSet(MergeListsAppend(to, fro, singletons)) = ToSet(to) \cup ToSet(fro)
  <1> DEFINE Out(x, i) == fro[i] \in singletons /\ fro[i] \in ToSet(x)
             Eq(f) == f = [i \in 0..Len(fro) |->
                 IF i = 0 THEN to
                 ELSE IF Out(f[i - 1], i) THEN f[i - 1] ELSE Append(f[i - 1], fro[i])]
             u == CHOOSE f : Eq(f)
  <1>0. PICK n : n = Len(fro)
    OBVIOUS
  <1>1. n \in Nat /\ \A i \in 1..n : fro[i] \in T
    BY <1>0
  <1>2. \E f : Eq(f)
    <2> DEFINE Good == [i \in 0..n |-> Seq(T)]
               Turn == [i \in 1..n |-> [x \in Seq(T) |->
                            IF Out(x, i) THEN x ELSE Append(x, fro[i])]]
    <2>1. to \in Good[0]
      BY <1>1
    <2>3. \A i \in 1..n : \A x \in Seq(T) :
             Turn[i][x] = IF Out(x, i) THEN x ELSE Append(x, fro[i])
      OBVIOUS
    <2>4. \A i \in 0..n : Good[i] = Seq(T)
      OBVIOUS
    <2> HIDE DEF Good, Turn
    <2>2. GoodTurns(n, Good, Turn)
      <3> SUFFICES ASSUME NEW i \in 1..n, NEW x \in Good[i - 1] PROVE Turn[i][x] \in Good[i]
        BY DEF GoodTurns
      <3>1. i - 1 \in 0..n /\ i \in 0..n
        BY <1>1
      <3>2. x \in Seq(T) /\ Good[i] = Seq(T)
        BY <2>4, <3>1
      <3>3. fro[i] \in T
        BY <1>1
      <3>4. Append(x, fro[i]) \in Seq(T)
        BY <3>2, <3>3, AppendSet
      <3> QED
        BY <2>3, <3>2, <3>4
    <2>5. PICK f : IsLoop(f, n, to, Turn) /\ StaysGood(f, n, Good)
      BY <1>1, <2>1, <2>2, LoopFacts, Zenon
    <2>6. \A i \in 0..n : i # 0 => Turn[i][f[i - 1]] =
             IF Out(f[i - 1], i) THEN f[i - 1] ELSE Append(f[i - 1], fro[i])
      <3> SUFFICES ASSUME NEW i \in 0..n, i # 0
                   PROVE  Turn[i][f[i - 1]] =
                            IF Out(f[i - 1], i) THEN f[i - 1] ELSE Append(f[i - 1], fro[i])
        OBVIOUS
      <3>1. i \in 1..n /\ i - 1 \in 0..n
        BY <1>1
      <3>2. f[i - 1] \in Seq(T)
        BY <2>4, <2>5, <3>1 DEF StaysGood
      <3> QED
        BY <2>3, <3>1, <3>2
    <2>7. Eq(f)
      <3> HIDE DEF Out
      <3>1. f = [i \in 0..n |-> f[i]]
        BY <2>5 DEF IsLoop
      <3>2. ASSUME NEW i \in 0..n
            PROVE  f[i] = IF i = 0 THEN to
                          ELSE IF Out(f[i - 1], i) THEN f[i - 1] ELSE Append(f[i - 1], fro[i])
        <4>1. CASE i = 0
          BY <2>5, <4>1 DEF IsLoop
        <4>2. CASE i # 0
          <5>1. i \in 1..n
            BY <1>1, <4>2
          <5>2. f[i] = Turn[i][f[i - 1]]
            BY <2>5, <5>1 DEF IsLoop
          <5> QED
            BY <2>6, <4>2, <5>2
        <4> QED
          BY <4>1, <4>2
      <3> QED
        BY <1>0, <3>1, <3>2
    <2> QED
      BY <2>7
  <1>3. Eq(u)
    BY <1>2
  <1>4. MergeListsAppend(to, fro, singletons) = u[n]
    BY <1>0 DEF MergeListsAppend
  <1> HIDE DEF u
  <1>5. /\ u[0] = to
        /\ \A i \in 1..n : u[i] =
              IF Out(u[i - 1], i) THEN u[i - 1] ELSE Append(u[i - 1], fro[i])
    <2>1. \A i \in 0..n : u[i] = IF i = 0 THEN to
             ELSE IF Out(u[i - 1], i) THEN u[i - 1] ELSE Append(u[i - 1], fro[i])
      BY <1>0, <1>3
    <2>2. 0 \in 0..n /\ \A i \in 1..n : i \in 0..n /\ i # 0
      BY <1>1
    <2> HIDE DEF Eq
    <2> QED
      BY <2>1, <2>2
  <1> HIDE DEF Eq
  <1> DEFINE P == {i \in 0..n : u[i] \in Seq(T) /\ ToSet(u[i]) = ToSet(to) \cup FirstSet(fro, i)}
  <1>6. 0 \in P
    <2>1. FirstSet(fro, 0) = {} /\ 0 \in 0..n
      BY <1>1, FirstSetFacts
    <2> QED
      BY <1>5, <2>1
  <1>7. ASSUME NEW i \in 1..n, i - 1 \in P PROVE i \in P
    <2>1. PICK v, w, m : v = u[i - 1] /\ w = u[i] /\ m = i - 1
      OBVIOUS
    <2>2. /\ v \in Seq(T) /\ ToSet(v) = ToSet(to) \cup FirstSet(fro, m) /\ fro[i] \in T
          /\ m \in Nat /\ i = m + 1
      BY <1>1, <1>7, <2>1
    <2>3. w = IF Out(v, i) THEN v ELSE Append(v, fro[i])
      BY <1>5, <2>1
    <2>4. FirstSet(fro, i) = FirstSet(fro, m) \cup {fro[i]}
      BY <2>2, FirstSetFacts
    <2>5. w \in Seq(T) /\ ToSet(w) = ToSet(to) \cup FirstSet(fro, i)
      <3>1. CASE Out(v, i)
        BY <2>2, <2>3, <2>4, <3>1
      <3>2. CASE ~Out(v, i)
        <4>1. w = Append(v, fro[i])
          BY <2>3, <3>2
        <4> HIDE DEF Out
        <4> QED
          BY <2>2, <2>4, <4>1, AppendSet
      <3> QED
        BY <3>1, <3>2
    <2> QED
      BY <2>1, <2>5
  <1>8. n \in P
    <2> HIDE DEF P
    <2>1. 0..n \subseteq P
      BY <1>1, <1>6, <1>7, IntervalInduction
    <2> QED
      BY <1>1, <2>1
  <1>9. ToSet(fro) = FirstSet(fro, n)
    BY <1>0, ToSetOfSeq DEF FirstSet
  <1> QED
    BY <1>4, <1>8, <1>9

\* Items taken out of a list by their places are a list.
LEMMA ItemsAtFacts ==
    ASSUME NEW T, NEW l \in Seq(T), NEW indices
    PROVE  ItemsAt(l, indices) \in Seq(T)
  <1> DEFINE Eq(f) == f = [i \in 0..Len(l) |->
                 IF i = 0 THEN <<>>
                 ELSE IF i \in indices THEN Append(f[i - 1], l[i]) ELSE f[i - 1]]
             u == CHOOSE f : Eq(f)
  <1>0. PICK n : n = Len(l)
    OBVIOUS
  <1>1. n \in Nat /\ \A i \in 1..n : l[i] \in T
    BY <1>0
  <1>2. \E f : Eq(f)
    <2> DEFINE Good == [i \in 0..n |-> Seq(T)]
               Turn == [i \in 1..n |-> [x \in Seq(T) |->
                            IF i \in indices THEN Append(x, l[i]) ELSE x]]
    <2>1. << >> \in Good[0]
      BY <1>1
    <2>3. \A i \in 1..n : \A x \in Seq(T) :
             Turn[i][x] = IF i \in indices THEN Append(x, l[i]) ELSE x
      OBVIOUS
    <2>4. \A i \in 0..n : Good[i] = Seq(T)
      OBVIOUS
    <2> HIDE DEF Good, Turn
    <2>2. GoodTurns(n, Good, Turn)
      <3> SUFFICES ASSUME NEW i \in 1..n, NEW x \in Good[i - 1] PROVE Turn[i][x] \in Good[i]
        BY DEF GoodTurns
      <3>1. i - 1 \in 0..n /\ i \in 0..n
        BY <1>1
      <3>2. x \in Seq(T) /\ Good[i] = Seq(T)
        BY <2>4, <3>1
      <3>3. l[i] \in T
        BY <1>1
      <3>4. Append(x, l[i]) \in Seq(T)
        BY <3>2, <3>3, AppendSet
      <3> QED
        BY <2>3, <3>2, <3>4
    <2>5. PICK f : IsLoop(f, n, <<>>, Turn) /\ StaysGood(f, n, Good)
      BY <1>1, <2>1, <2>2, LoopFacts, Zenon
    <2>6. \A i \in 0..n : i # 0 => Turn[i][f[i - 1]] =
             IF i \in indices THEN Append(f[i - 1], l[i]) ELSE f[i - 1]
      <3> SUFFICES ASSUME NEW i \in 0..n, i # 0
                   PROVE  Turn[i][f[i - 1]] =
                            IF i \in indices THEN Append(f[i - 1], l[i]) ELSE f[i - 1]
        OBVIOUS
      <3>1. i \in 1..n /\ i - 1 \in 0..n
        BY <1>1
      <3>2. f[i - 1] \in Seq(T)
        BY <2>4, <2>5, <3>1 DEF StaysGood
      <3> QED
        BY <2>3, <3>1, <3>2
    <2>7. Eq(f)
      BY <1>0, <2>5, <2>6 DEF IsLoop
    <2> QED
      BY <2>7
  <1>3. Eq(u)
    BY <1>2
  <1>4. ItemsAt(l, indices) = u[n]
    BY <1>0 DEF ItemsAt
  <1> HIDE DEF u
  <1>5. /\ u[0] = <<>>
        /\ \A i \in 1..n : u[i] =
              IF i \in indices THEN Append(u[i - 1], l[i]) ELSE u[i - 1]
    <2>1. \A i \in 0..n : u[i] = IF i = 0 THEN <<>>
             ELSE IF i \in indices THEN Append(u[i - 1], l[i]) ELSE u[i - 1]
      BY <1>0, <1>3
    <2>2. 0 \in 0..n /\ \A i \in 1..n : i \in 0..n /\ i # 0
      BY <1>1
    <2> HIDE DEF Eq
    <2> QED
      BY <2>1, <2>2
  <1> HIDE DEF Eq
  <1> DEFINE P == {i \in 0..n : u[i] \in Seq(T)}
  <1>6. 0 \in P
    <2>1. << >> \in Seq(T) /\ 0 \in 0..n
      BY <1>1
    <2> QED
      BY <1>5, <2>1
  <1>7. ASSUME NEW i \in 1..n, i - 1 \in P PROVE i \in P
    <2>1. i \in 0..n /\ i # 0 /\ l[i] \in T /\ u[i - 1] \in Seq(T)
      BY <1>1, <1>7
    <2>2. u[i] \in Seq(T)
      <3>1. CASE i \in indices
        <4>1. u[i] = Append(u[i - 1], l[i])
          BY <1>5, <3>1
        <4> QED
          BY <2>1, <4>1, AppendSet
      <3>2. CASE i \notin indices
        BY <1>5, <2>1, <3>2
      <3> QED
        BY <3>1, <3>2
    <2> QED
      BY <2>1, <2>2
  <1>8. n \in P
    <2> HIDE DEF P
    <2>1. 0..n \subseteq P
      BY <1>1, <1>6, <1>7, IntervalInduction
    <2> QED
      BY <1>1, <2>1
  <1> QED
    BY <1>4, <1>8

\* A loop that puts lists one behind the other: f[i] is the list when the first i
\* of the lists of g have been appended, and r, the list in the end, holds what
\* they hold.
Concats(f, n, g) == f = [i \in 0..n |-> IF i = 0 THEN <<>> ELSE f[i - 1] \o g[i]]
Concatenated(r, n, g) ==
    /\ IsList(r)
    /\ \A i \in 1..n : ToSet(g[i]) \subseteq ToSet(r)
    /\ \A x \in ToSet(r) : \E i \in 1..n : x \in ToSet(g[i])

\* The loop that concatenates n lists has a result, with what is in any of them.
LEMMA ConcatLoop ==
    ASSUME NEW n \in Nat, NEW T, NEW g, \A i \in 1..n : g[i] \in Seq(T)
    PROVE  /\ \E f : Concats(f, n, g)
           /\ \A f : Concats(f, n, g) => f[n] \in Seq(T) /\ Concatenated(f[n], n, g)
  <1>1. \E f : f = [i \in 0..n |-> IF i = 0 THEN <<>> ELSE f[i - 1] \o g[i]]
    <2> DEFINE Good == [i \in 0..n |-> Seq(T)]
               Turn == [i \in 1..n |-> [x \in Seq(T) |-> x \o g[i]]]
    <2>1. << >> \in Good[0]
      OBVIOUS
    <2>3. \A i \in 1..n : \A x \in Seq(T) : Turn[i][x] = x \o g[i]
      OBVIOUS
    <2>4. \A i \in 0..n : Good[i] = Seq(T)
      OBVIOUS
    <2> HIDE DEF Good, Turn
    <2>2. GoodTurns(n, Good, Turn)
      <3> SUFFICES ASSUME NEW i \in 1..n, NEW x \in Good[i - 1] PROVE Turn[i][x] \in Good[i]
        BY DEF GoodTurns
      <3>1. i - 1 \in 0..n /\ i \in 0..n
        OBVIOUS
      <3>2. x \in Seq(T) /\ Good[i] = Seq(T)
        BY <2>4, <3>1
      <3> QED
        <4>1. x \o g[i] \in Seq(T)
          BY <3>2, ConcatFacts
        <4> QED
          BY <2>3, <3>2, <4>1
    <2>5. PICK f : IsLoop(f, n, <<>>, Turn) /\ StaysGood(f, n, Good)
      BY <2>1, <2>2, LoopFacts, Zenon
    <2>6. \A i \in 0..n : i # 0 => Turn[i][f[i - 1]] = f[i - 1] \o g[i]
      <3> SUFFICES ASSUME NEW i \in 0..n, i # 0 PROVE Turn[i][f[i - 1]] = f[i - 1] \o g[i]
        OBVIOUS
      <3>1. i \in 1..n /\ i - 1 \in 0..n
        OBVIOUS
      <3>2. f[i - 1] \in Seq(T)
        BY <2>4, <2>5, <3>1 DEF StaysGood
      <3> QED
        BY <2>3, <3>1, <3>2
    <2>7. f = [i \in 0..n |-> IF i = 0 THEN <<>> ELSE f[i - 1] \o g[i]]
      BY <2>5, <2>6 DEF IsLoop
    <2> QED
      BY <2>7
  <1>2. ASSUME NEW f, f = [i \in 0..n |-> IF i = 0 THEN <<>> ELSE f[i - 1] \o g[i]]
        PROVE  /\ f[n] \in Seq(T)
               /\ \A i \in 1..n : ToSet(g[i]) \subseteq ToSet(f[n])
               /\ \A x \in ToSet(f[n]) : \E i \in 1..n : x \in ToSet(g[i])
    <2>1. f[0] = <<>> /\ \A i \in 1..n : f[i] = f[i - 1] \o g[i]
      <3>1. \A i \in 0..n : f[i] = IF i = 0 THEN <<>> ELSE f[i - 1] \o g[i]
        BY <1>2
      <3>2. 0 \in 0..n /\ \A i \in 1..n : i \in 0..n /\ i # 0
        OBVIOUS
      <3> QED
        BY <3>1, <3>2
    <2> DEFINE P == {i \in 0..n : /\ f[i] \in Seq(T)
                                  /\ \A k \in 1..i : ToSet(g[k]) \subseteq ToSet(f[i])
                                  /\ \A x \in ToSet(f[i]) : \E k \in 1..i : x \in ToSet(g[k])}
    <2>2. 0 \in P
      <3>1. << >> \in Seq(T) /\ 0 \in 0..n /\ 1..0 = {}
        OBVIOUS
      <3> QED
        BY <2>1, <3>1, ToSetOfEmpty
    <2>3. ASSUME NEW i \in 1..n, i - 1 \in P PROVE i \in P
      <3>1. PICK v, w, m : v = f[i - 1] /\ w = f[i] /\ m = i - 1
        OBVIOUS
      <3>2. /\ v \in Seq(T) /\ g[i] \in Seq(T) /\ m \in Nat /\ i = m + 1
            /\ \A k \in 1..m : ToSet(g[k]) \subseteq ToSet(v)
            /\ \A x \in ToSet(v) : \E k \in 1..m : x \in ToSet(g[k])
        BY <2>3, <3>1
      <3>3. w = v \o g[i]
        BY <2>1, <3>1
      <3>4. w \in Seq(T) /\ ToSet(w) = ToSet(v) \cup ToSet(g[i])
        BY <3>2, <3>3, ConcatFacts
      <3>5. \A k \in 1..i : k \in 1..m \/ k = i
        BY <3>2
      <3>6. \A k \in 1..i : ToSet(g[k]) \subseteq ToSet(w)
        BY <3>2, <3>4, <3>5
      <3>7. \A x \in ToSet(w) : \E k \in 1..i : x \in ToSet(g[k])
        <4>1. 1..m \subseteq 1..i /\ i \in 1..i
          BY <3>2
        <4> QED
          BY <3>2, <3>4, <4>1
      <3> QED
        BY <3>1, <3>4, <3>6, <3>7
    <2>4. n \in P
      <3> HIDE DEF P
      <3>1. 0..n \subseteq P
        BY <2>2, <2>3, IntervalInduction
      <3> QED
        BY <3>1
    <2> QED
      BY <2>4
  <1>3. ASSUME NEW f, Concats(f, n, g) PROVE f[n] \in Seq(T) /\ Concatenated(f[n], n, g)
    <2>1. f = [i \in 0..n |-> IF i = 0 THEN <<>> ELSE f[i - 1] \o g[i]]
      BY <1>3 DEF Concats
    <2>2. /\ f[n] \in Seq(T)
          /\ \A i \in 1..n : ToSet(g[i]) \subseteq ToSet(f[n])
          /\ \A x \in ToSet(f[n]) : \E i \in 1..n : x \in ToSet(g[i])
      BY <1>2, <2>1
    <2>3. IsList(f[n])
      BY <2>2, ListOfSeq
    <2> QED
      BY <2>2, <2>3 DEF Concatenated
  <1> QED
    BY <1>1, <1>3 DEF Concats

\* One turn of a walk: nothing is left that it may enter, or it finds one more.
WalkTurn(w, next) ==
    LET left == Select(w.todo, DOMAIN next \ ToSet(w.found))
    IN  IF left = <<>> THEN w
        ELSE [found |-> Append(w.found, Head(left)),
              todo |-> next[Head(left)] \o Tail(left)]

Walked(w) == ToSet(w.found)
ToWalk(w, next) == ToSet(w.todo) \cap DOMAIN next
FindsOne(w, v, next, x) ==
    /\ x \in ToWalk(w, next) \ Walked(w)
    /\ Walked(v) = Walked(w) \cup {x}
    /\ ToSet(v.todo) \subseteq ToSet(w.todo) \cup ToSet(next[x])
    /\ ToSet(next[x]) \subseteq ToSet(v.todo)
    /\ ToWalk(w, next) \ Walked(w) \subseteq ToSet(v.todo) \cup {x}

-----------------------------------------------------------------------------
(***************************************************************************)
(* Walks through the graph: WalkTurn is repeated as often as there are     *)
(* nodes. Each turn that is not the last one finds a node, so that none is *)
(* left at the end.                                                        *)
(***************************************************************************)
\* One turn of a walk: it is at its end, or finds one more.
LEMMA WalkTurnFacts ==
    ASSUME NEW S, NEW w \in [found : Seq(S), todo : Seq(S)], NEW next,
           DOMAIN next \subseteq S, \A u \in DOMAIN next : next[u] \in Seq(S),
           NEW v, v = WalkTurn(w, next)
    PROVE  /\ v \in [found : Seq(S), todo : Seq(S)]
           /\ \/ v = w /\ ToWalk(w, next) \subseteq Walked(w)
              \/ \E x : FindsOne(w, v, next, x)
  <1>1. PICK N, f, t, left : /\ N = DOMAIN next /\ f = w.found /\ t = w.todo
                             /\ left = Select(t, N \ ToSet(f))
    OBVIOUS
  <1>2. f \in Seq(S) /\ t \in Seq(S) /\ N \subseteq S
    BY <1>1
  <1>3. left \in Seq(S) /\ ToSet(left) = ToSet(t) \cap (N \ ToSet(f))
    BY <1>1, <1>2, SelectSet
  <1>4. CASE left = <<>>
    <2>1. v = w
      BY <1>1, <1>4 DEF WalkTurn
    <2>2. ToSet(left) = {}
      BY <1>4, ToSetOfEmpty
    <2>3. ToWalk(w, next) \subseteq Walked(w)
      BY <1>1, <1>3, <2>2 DEF ToWalk, Walked
    <2> QED
      BY <2>1, <2>3
  <1>5. CASE left # <<>>
    <2>1. PICK x, r : x = Head(left) /\ r = Tail(left)
      OBVIOUS
    <2>2. v = [found |-> Append(f, x), todo |-> next[x] \o r]
      BY <1>1, <1>5, <2>1 DEF WalkTurn
    <2>3. /\ r \in Seq(S) /\ Len(left) \in Nat /\ Len(left) # 0
          /\ left[1] = x /\ Len(r) = Len(left) - 1
          /\ \A i \in 1..Len(r) : r[i] = left[i + 1]
      BY <1>3, <1>5, <2>1
    <2>4. ASSUME NEW y PROVE y \in ToSet(left) <=> y = x \/ y \in ToSet(r)
      <3>1. y \in ToSet(left) <=> \E i \in 1..Len(left) : left[i] = y
        BY <1>3, SeqMember
      <3>2. r \in Seq(S)
        BY <2>3
      <3>3. y \in ToSet(r) <=> \E i \in 1..Len(r) : r[i] = y
        BY <3>2, SeqMember
      <3>4. ASSUME NEW i \in 1..Len(left), left[i] = y PROVE y = x \/ \E j \in 1..Len(r) : r[j] = y
        <4>1. CASE i = 1
          BY <2>3, <3>4, <4>1
        <4>2. CASE i # 1
          <5>1. i - 1 \in 1..Len(r) /\ (i - 1) + 1 = i
            BY <2>3, <4>2
          <5>2. r[i - 1] = left[i]
            BY <2>3, <5>1
          <5> QED
            BY <3>4, <5>1, <5>2
        <4> QED
          BY <4>1, <4>2
      <3>5. 1 \in 1..Len(left) /\ \A j \in 1..Len(r) : j + 1 \in 1..Len(left)
        BY <2>3
      <3> QED
        BY <2>3, <3>1, <3>3, <3>4, <3>5
    <2>5. x \in ToSet(left) /\ x \in N /\ x \in S
      BY <1>2, <1>3, <2>4
    <2>6. next[x] \in Seq(S)
      BY <1>1, <2>5
    <2>7. PICK p, q : p = Append(f, x) /\ q = next[x] \o r
      OBVIOUS
    <2>8. p \in Seq(S) /\ ToSet(p) = ToSet(f) \cup {x}
      BY <1>2, <2>5, <2>7, AppendSet
    <2>9. q \in Seq(S) /\ ToSet(q) = ToSet(next[x]) \cup ToSet(r)
      BY <2>3, <2>6, <2>7, ConcatFacts
    <2>10. v = [found |-> p, todo |-> q]
      BY <2>2, <2>7
    <2>11. v \in [found : Seq(S), todo : Seq(S)] /\ v.found = p /\ v.todo = q
      BY <2>8, <2>9, <2>10
    <2>12. ToSet(left) = ToSet(r) \cup {x}
      BY <2>4
    <2>13. /\ ToWalk(w, next) = ToSet(t) \cap N /\ Walked(w) = ToSet(f) /\ Walked(v) = ToSet(p)
           /\ ToSet(v.todo) = ToSet(q) /\ ToSet(w.todo) = ToSet(t)
      BY <1>1, <2>11 DEF ToWalk, Walked
    <2>14. FindsOne(w, v, next, x)
      BY <1>3, <2>5, <2>8, <2>9, <2>12, <2>13 DEF FindsOne
    <2> QED
      BY <2>11, <2>14
  <1> QED
    BY <1>4, <1>5

\* The function of a walk: w[i] is where it is after i turns.
IsWalk(w, n, begin, list, next) ==
    /\ w[0] = [found |-> begin, todo |-> list]
    /\ \A i \in 1..n : w[i] = WalkTurn(w[i - 1], next)

\* A walk through a finite graph is a loop with as many turns as there are nodes.
LEMMA WalkExists ==
    ASSUME NEW S, NEW begin \in Seq(S), NEW list \in Seq(S), NEW next,
           IsFiniteSet(DOMAIN next), DOMAIN next \subseteq S,
           \A u \in DOMAIN next : next[u] \in Seq(S)
    PROVE  \E w : /\ IsWalk(w, Cardinality(DOMAIN next), begin, list, next)
                  /\ Walk(begin, list, next) = w[Cardinality(DOMAIN next)].found
  <1> DEFINE Eq(f) == f = [i \in 0..Cardinality(DOMAIN next) |->
                 IF i = 0 THEN [found |-> begin, todo |-> list]
                 ELSE LET w == f[i - 1]
                          left == Select(w.todo, DOMAIN next \ ToSet(w.found))
                      IN  IF left = <<>> THEN w
                          ELSE [found |-> Append(w.found, Head(left)),
                                todo |-> next[Head(left)] \o Tail(left)]]
             Eq2(f) == f = [i \in 0..Cardinality(DOMAIN next) |->
                 IF i = 0 THEN [found |-> begin, todo |-> list] ELSE WalkTurn(f[i - 1], next)]
             u == CHOOSE f : Eq(f)
  <1>0. PICK n, base, WS : /\ n = Cardinality(DOMAIN next)
                           /\ base = [found |-> begin, todo |-> list]
                           /\ WS = [found : Seq(S), todo : Seq(S)]
    OBVIOUS
  <1>1. n \in Nat
    BY <1>0, FS_CardinalityType
  <1>2. \A f : Eq2(f) => Eq(f)
    BY DEF WalkTurn
  <1>3. \A f : Eq(f) => Eq2(f)
    BY DEF WalkTurn
  <1>4. \E f : Eq2(f)
    <2> DEFINE Good == [i \in 0..n |-> WS]
               Turn == [i \in 1..n |-> [x \in WS |-> WalkTurn(x, next)]]
    <2>1. base \in Good[0]
      BY <1>0, <1>1
    <2>3. \A i \in 1..n : \A x \in WS : Turn[i][x] = WalkTurn(x, next)
      OBVIOUS
    <2>4. \A i \in 0..n : Good[i] = WS
      OBVIOUS
    <2> HIDE DEF Good, Turn
    <2>2. GoodTurns(n, Good, Turn)
      <3> SUFFICES ASSUME NEW i \in 1..n, NEW x \in Good[i - 1] PROVE Turn[i][x] \in Good[i]
        BY DEF GoodTurns
      <3>1. i - 1 \in 0..n /\ i \in 0..n
        BY <1>1
      <3>2. x \in WS /\ Good[i] = WS
        BY <2>4, <3>1
      <3>3. PICK v : v = WalkTurn(x, next)
        OBVIOUS
      <3>4. v \in WS
        BY <1>0, <3>2, <3>3, WalkTurnFacts
      <3> QED
        BY <2>3, <3>2, <3>3, <3>4
    <2>5. PICK f : IsLoop(f, n, base, Turn) /\ StaysGood(f, n, Good)
      BY <1>1, <2>1, <2>2, LoopFacts, Zenon
    <2>6. ASSUME NEW i \in 0..n PROVE f[i] = IF i = 0 THEN base ELSE WalkTurn(f[i - 1], next)
      <3>1. CASE i = 0
        BY <2>5, <3>1 DEF IsLoop
      <3>2. CASE i # 0
        <4>1. i \in 1..n /\ i - 1 \in 0..n
          BY <1>1, <3>2
        <4>2. f[i] = Turn[i][f[i - 1]] /\ f[i - 1] \in WS
          BY <2>4, <2>5, <4>1 DEF IsLoop, StaysGood
        <4> QED
          BY <2>3, <3>2, <4>1, <4>2
      <3> QED
        BY <3>1, <3>2
    <2>7. f = [i \in 0..n |-> f[i]]
      BY <2>5 DEF IsLoop
    <2>8. Eq2(f)
      BY <1>0, <2>6, <2>7
    <2> QED
      BY <2>8
  <1>5. Eq(u)
    <2> HIDE DEF Eq, Eq2
    <2>1. \E f : Eq(f)
      BY <1>2, <1>4
    <2> QED
      BY <2>1 DEF u
  <1>6. Walk(begin, list, next) = u[n].found
    BY <1>0 DEF Walk
  <1>7. Eq2(u)
    <2> HIDE DEF Eq, Eq2, u
    <2> QED
      BY <1>3, <1>5
  <1> HIDE DEF u, Eq
  <1>8. \A i \in 0..n : u[i] = IF i = 0 THEN base ELSE WalkTurn(u[i - 1], next)
    BY <1>0, <1>7
  <1>9. IsWalk(u, n, begin, list, next)
    <2> HIDE DEF Eq2
    <2>1. 0 \in 0..n /\ \A i \in 1..n : i \in 0..n /\ i # 0
      BY <1>1
    <2> QED
      BY <1>0, <1>8, <2>1 DEF IsWalk
  <1> QED
    BY <1>0, <1>6, <1>9

\* Begun with begin and list, what has been found is found for a reason, and nothing
\* is forgotten.
WalkInv(w, begin, list, next) ==
    /\ ToSet(begin) \subseteq Walked(w)
    /\ Walked(w) \subseteq ToSet(begin) \cup DOMAIN next
    /\ ToSet(list) \cap DOMAIN next \subseteq Walked(w) \cup ToWalk(w, next)
    /\ \A u \in Walked(w) \ ToSet(begin) :
          ToSet(next[u]) \cap DOMAIN next \subseteq Walked(w) \cup ToWalk(w, next)

\* A set that the walk cannot leave.
Encloses(X, list, next) ==
    /\ ToSet(list) \cap DOMAIN next \subseteq X
    /\ \A u \in X \cap DOMAIN next : ToSet(next[u]) \cap DOMAIN next \subseteq X

\* The list r is what a walk finds.
Reached(r, S, begin, list, next) ==
    /\ r \in Seq(S)
    /\ ToSet(begin) \subseteq ToSet(r)
    /\ ToSet(r) \subseteq ToSet(begin) \cup DOMAIN next
    /\ ToSet(list) \cap DOMAIN next \subseteq ToSet(r)
    /\ \A u \in ToSet(r) \ ToSet(begin) : ToSet(next[u]) \cap DOMAIN next \subseteq ToSet(r)
    /\ \A X : Encloses(X, list, next) => ToSet(r) \subseteq ToSet(begin) \cup X

\* What a walk finds: it is closed under the edges, and nothing is found that is not reached.
LEMMA WalkFacts ==
    ASSUME NEW S, NEW begin \in Seq(S), NEW list \in Seq(S), NEW next,
           IsFiniteSet(DOMAIN next), DOMAIN next \subseteq S,
           \A u \in DOMAIN next : next[u] \in Seq(S),
           NEW r, r = Walk(begin, list, next)
    PROVE  Reached(r, S, begin, list, next)
  <1>0. PICK n, WS, N : /\ n = Cardinality(DOMAIN next) /\ N = DOMAIN next
                        /\ WS = [found : Seq(S), todo : Seq(S)]
    OBVIOUS
  <1>1. n \in Nat
    BY <1>0, FS_CardinalityType
  <1>2. PICK w : IsWalk(w, n, begin, list, next) /\ r = w[n].found
    BY <1>0, WalkExists
  <1>3. w[0] = [found |-> begin, todo |-> list] /\ \A i \in 1..n : w[i] = WalkTurn(w[i - 1], next)
    BY <1>2 DEF IsWalk
  <1>4. \A i \in 0..n : w[i] \in WS
    <2> DEFINE P == {i \in 0..n : w[i] \in WS}
    <2>1. 0 \in P
      BY <1>0, <1>1, <1>3
    <2>2. ASSUME NEW i \in 1..n, i - 1 \in P PROVE i \in P
      <3>1. PICK x, v : x = w[i - 1] /\ v = w[i]
        OBVIOUS
      <3>2. x \in WS /\ v = WalkTurn(x, next) /\ i \in 0..n
        BY <1>1, <1>3, <2>2, <3>1
      <3>3. v \in WS
        BY <1>0, <3>2, WalkTurnFacts
      <3> QED
        BY <3>1, <3>2, <3>3
    <2> HIDE DEF P
    <2>3. 0..n \subseteq P
      BY <1>1, <2>1, <2>2, IntervalInduction
    <2> QED
      BY <2>3 DEF P
  <1>5. ASSUME NEW i \in 1..n
        PROVE  /\ i - 1 \in 0..n /\ i \in 0..n
               /\ \/ w[i] = w[i - 1] /\ ToWalk(w[i - 1], next) \subseteq Walked(w[i - 1])
                  \/ \E x : FindsOne(w[i - 1], w[i], next, x)
    <2>1. PICK x, v : x = w[i - 1] /\ v = w[i]
      OBVIOUS
    <2>2. i - 1 \in 0..n /\ i \in 0..n
      BY <1>1
    <2>3. x \in WS /\ v = WalkTurn(x, next)
      BY <1>3, <1>4, <2>1, <2>2
    <2>4. (v = x /\ ToWalk(x, next) \subseteq Walked(x)) \/ \E y : FindsOne(x, v, next, y)
      BY <1>0, <2>3, WalkTurnFacts
    <2> QED
      BY <2>1, <2>2, <2>4
  <1>6. \A i \in 0..n : WalkInv(w[i], begin, list, next)
    <2> DEFINE P == {i \in 0..n : WalkInv(w[i], begin, list, next)}
    <2>1. 0 \in P
      <3>1. Walked(w[0]) = ToSet(begin) /\ ToWalk(w[0], next) = ToSet(list) \cap DOMAIN next
        BY <1>3 DEF Walked, ToWalk
      <3> QED
        BY <1>1, <3>1 DEF WalkInv
    <2>2. ASSUME NEW i \in 1..n, i - 1 \in P PROVE i \in P
      <3>1. PICK x, v : x = w[i - 1] /\ v = w[i]
        OBVIOUS
      <3>2. /\ WalkInv(x, begin, list, next) /\ i \in 0..n
            /\ (v = x \/ \E y : FindsOne(x, v, next, y))
        BY <1>5, <2>2, <3>1
      <3>3. ASSUME NEW y, FindsOne(x, v, next, y) PROVE WalkInv(v, begin, list, next)
        <4>1. Walked(x) \cup ToWalk(x, next) \subseteq Walked(v) \cup ToWalk(v, next)
          BY <3>3 DEF FindsOne, ToWalk
        <4>2. y \in DOMAIN next /\ Walked(v) = Walked(x) \cup {y}
          BY <3>3 DEF FindsOne, ToWalk
        <4>3. ToSet(next[y]) \cap DOMAIN next \subseteq ToWalk(v, next)
          BY <3>3 DEF FindsOne, ToWalk
        <4>4. /\ ToSet(begin) \subseteq Walked(v)
              /\ Walked(v) \subseteq ToSet(begin) \cup DOMAIN next
              /\ ToSet(list) \cap DOMAIN next \subseteq Walked(v) \cup ToWalk(v, next)
          BY <3>2, <4>1, <4>2 DEF WalkInv
        <4>5. ASSUME NEW u \in Walked(v) \ ToSet(begin)
              PROVE  ToSet(next[u]) \cap DOMAIN next \subseteq Walked(v) \cup ToWalk(v, next)
          <5>1. CASE u = y
            BY <4>3, <5>1
          <5>2. CASE u \in Walked(x)
            <6>1. ToSet(next[u]) \cap DOMAIN next \subseteq Walked(x) \cup ToWalk(x, next)
              BY <3>2, <5>2 DEF WalkInv
            <6> QED
              BY <4>1, <6>1
          <5> QED
            BY <4>2, <5>1, <5>2
        <4> QED
          BY <4>4, <4>5 DEF WalkInv
      <3>4. WalkInv(v, begin, list, next)
        BY <3>2, <3>3
      <3> QED
        BY <3>1, <3>2, <3>4
    <2> HIDE DEF P
    <2>3. 0..n \subseteq P
      BY <1>1, <2>1, <2>2, IntervalInduction
    <2> QED
      BY <2>3 DEF P
  \* A turn that leaves something to be found has found one more.
  <1>7. ToWalk(w[n], next) \subseteq Walked(w[n])
    <2> DEFINE P == {i \in 0..n : \/ ToWalk(w[i], next) \subseteq Walked(w[i])
                                  \/ Cardinality(Walked(w[i]) \cap N) >= i}
    <2>1. 0 \in P
      <3>1. IsFiniteSet(Walked(w[0]) \cap N)
        BY <1>0, FS_Intersection
      <3>2. Cardinality(Walked(w[0]) \cap N) >= 0
        BY <3>1, FS_CardinalityType
      <3> QED
        BY <1>1, <3>2
    <2>2. ASSUME NEW i \in 1..n, i - 1 \in P PROVE i \in P
      <3>1. PICK x, v : x = w[i - 1] /\ v = w[i]
        OBVIOUS
      <3>2. /\ ToWalk(x, next) \subseteq Walked(x) \/ Cardinality(Walked(x) \cap N) >= i - 1
            /\ i \in 0..n
            /\ \/ v = x /\ ToWalk(x, next) \subseteq Walked(x)
               \/ \E y : FindsOne(x, v, next, y)
        BY <1>5, <2>2, <3>1
      <3>3. ASSUME NEW y, FindsOne(x, v, next, y) PROVE Cardinality(Walked(v) \cap N) >= i
        <4>1. PICK A : A = Walked(x) \cap N
          OBVIOUS
        <4>2. y \in N /\ y \notin A /\ Walked(v) \cap N = A \cup {y} /\ ~(ToWalk(x, next) \subseteq Walked(x))
          BY <1>0, <3>3, <4>1 DEF FindsOne, ToWalk
        <4>3. IsFiniteSet(A)
          BY <1>0, <4>1, FS_Intersection
        <4>4. Cardinality(A \cup {y}) = Cardinality(A) + 1 /\ Cardinality(A) \in Nat
          BY <4>2, <4>3, FS_AddElement, FS_CardinalityType
        <4>5. Cardinality(A) >= i - 1
          BY <3>2, <4>1, <4>2
        <4>6. PICK c : c = Cardinality(A)
          OBVIOUS
        <4>7. c \in Nat /\ c >= i - 1 /\ Cardinality(Walked(v) \cap N) = c + 1
          BY <4>2, <4>4, <4>5, <4>6
        <4> QED
          BY <4>7
      <3>4. ToWalk(v, next) \subseteq Walked(v) \/ Cardinality(Walked(v) \cap N) >= i
        BY <3>2, <3>3
      <3> QED
        BY <3>1, <3>2, <3>4
    <2> HIDE DEF P
    <2>3. 0..n \subseteq P
      BY <1>1, <2>1, <2>2, IntervalInduction
    <2>4. n \in P
      BY <1>1, <2>3
    <2>5. PICK A : A = Walked(w[n]) \cap N
      OBVIOUS
    <2>6. ToWalk(w[n], next) \subseteq Walked(w[n]) \/ Cardinality(A) >= n
      BY <2>4, <2>5 DEF P
    <2>7. ASSUME Cardinality(A) >= n PROVE A = N
      <3>1. A \in SUBSET N /\ IsFiniteSet(N)
        BY <1>0, <2>5
      <3>2. /\ Cardinality(A) \in Nat /\ Cardinality(A) <= Cardinality(N)
            /\ Cardinality(N) = Cardinality(A) => N = A
        BY <3>1, FS_Subset, FS_CardinalityType
      <3> QED
        BY <1>0, <1>1, <2>7, <3>2
    <2>8. ToWalk(w[n], next) \subseteq N
      BY <1>0 DEF ToWalk
    <2> QED
      BY <2>5, <2>6, <2>7, <2>8
  <1>8. ASSUME NEW X, Encloses(X, list, next) PROVE Walked(w[n]) \subseteq ToSet(begin) \cup X
    <2> DEFINE P == {i \in 0..n : Walked(w[i]) \subseteq ToSet(begin) \cup X /\ ToWalk(w[i], next) \subseteq X}
    <2>1. 0 \in P
      <3>1. Walked(w[0]) = ToSet(begin) /\ ToWalk(w[0], next) = ToSet(list) \cap DOMAIN next
        BY <1>3 DEF Walked, ToWalk
      <3> QED
        BY <1>1, <1>8, <3>1 DEF Encloses
    <2>2. ASSUME NEW i \in 1..n, i - 1 \in P PROVE i \in P
      <3>1. PICK x, v : x = w[i - 1] /\ v = w[i]
        OBVIOUS
      <3>2. /\ Walked(x) \subseteq ToSet(begin) \cup X /\ ToWalk(x, next) \subseteq X /\ i \in 0..n
            /\ (v = x \/ \E y : FindsOne(x, v, next, y))
        BY <1>5, <2>2, <3>1
      <3>3. ASSUME NEW y, FindsOne(x, v, next, y)
            PROVE  Walked(v) \subseteq ToSet(begin) \cup X /\ ToWalk(v, next) \subseteq X
        <4>1. y \in X /\ y \in DOMAIN next
          BY <3>2, <3>3 DEF FindsOne, ToWalk
        <4>2. ToSet(next[y]) \cap DOMAIN next \subseteq X
          BY <1>8, <4>1 DEF Encloses
        <4> QED
          BY <3>2, <3>3, <4>1, <4>2 DEF FindsOne, ToWalk
      <3>4. Walked(v) \subseteq ToSet(begin) \cup X /\ ToWalk(v, next) \subseteq X
        BY <3>2, <3>3
      <3> QED
        BY <3>1, <3>2, <3>4
    <2> HIDE DEF P
    <2>3. 0..n \subseteq P
      BY <1>1, <2>1, <2>2, IntervalInduction
    <2>4. n \in P
      BY <1>1, <2>3
    <2> QED
      BY <2>4 DEF P
  <1>9. Walked(w[n]) = ToSet(r) /\ w[n] \in WS /\ WalkInv(w[n], begin, list, next)
    <2>1. n \in 0..n
      BY <1>1
    <2> QED
      BY <1>2, <1>4, <1>6, <2>1 DEF Walked
  <1>10. r \in Seq(S)
    BY <1>0, <1>2, <1>9
  <1> QED
    BY <1>7, <1>8, <1>9, <1>10 DEF WalkInv, Reached

\* Closure is the smallest closed set, where there is one.
LEMMA ClosureIs ==
    ASSUME NEW base, NEW Step, NEW R, R \subseteq DOMAIN Step, base \subseteq R,
           \A t \in R : Step[t] \subseteq R,
           \A X \in SUBSET DOMAIN Step :
              base \subseteq X /\ (\A t \in X : Step[t] \subseteq X) => R \subseteq X
    PROVE  Closure(base, Step) = R
  <1> DEFINE closed == {X \in SUBSET DOMAIN Step : base \subseteq X /\ \A t \in X : Step[t] \subseteq X}
  <1>1. Closure(base, Step) = {t \in DOMAIN Step : \A X \in closed : t \in X}
    BY DEF Closure
  <1>2. R \in closed /\ \A X \in closed : R \subseteq X
    OBVIOUS
  <1> HIDE DEF closed
  <1> QED
    BY <1>1, <1>2

\* Closure within a graph.
LEMMA ClosureFacts ==
    ASSUME NEW base, NEW Step, base \subseteq DOMAIN Step,
           \A t \in DOMAIN Step : Step[t] \subseteq DOMAIN Step,
           NEW R, R = Closure(base, Step)
    PROVE  /\ R \subseteq DOMAIN Step /\ base \subseteq R /\ \A t \in R : Step[t] \subseteq R
           /\ \A X \in SUBSET DOMAIN Step :
                base \subseteq X /\ (\A t \in X : Step[t] \subseteq X) => R \subseteq X
  <1> DEFINE closed == {X \in SUBSET DOMAIN Step : base \subseteq X /\ \A t \in X : Step[t] \subseteq X}
  <1>1. R = {t \in DOMAIN Step : \A X \in closed : t \in X}
    BY DEF Closure
  <1>2. \A X \in closed : base \subseteq X /\ \A t \in X : Step[t] \subseteq X
    OBVIOUS
  <1>3. \A X \in SUBSET DOMAIN Step :
                base \subseteq X /\ (\A t \in X : Step[t] \subseteq X) => X \in closed
    OBVIOUS
  <1> HIDE DEF closed
  <1>4. R \subseteq DOMAIN Step /\ base \subseteq R
    BY <1>1, <1>2
  <1>5. \A t \in R : Step[t] \subseteq R
    BY <1>1, <1>2
  <1>6. \A X \in closed : R \subseteq X
    BY <1>1
  <1> QED
    BY <1>3, <1>4, <1>5, <1>6

\* A list put into another one behind its i-th element.
LEMMA InsertFacts ==
    ASSUME NEW S, NEW l \in Seq(S), NEW s \in Seq(S), NEW i \in 1..Len(l),
           NEW r, r = SubSeq(l, 1, i) \o s \o SubSeq(l, i + 1, Len(l))
    PROVE  /\ r \in Seq(S) /\ Len(r) = Len(l) + Len(s)
           /\ \A j \in 1..i : r[j] = l[j]
           /\ ToSet(r) = ToSet(l) \cup ToSet(s)
           /\ Distinct(l) /\ Distinct(s) /\ ToSet(l) \cap ToSet(s) = {} => Distinct(r)
  <1>1. PICK p, q, n, k : p = SubSeq(l, 1, i) /\ q = SubSeq(l, i + 1, Len(l)) /\ n = Len(l) /\ k = Len(s)
    OBVIOUS
  <1>2. n \in Nat /\ k \in Nat /\ i \in 1..n
    BY <1>1
  <1>3. p \in Seq(S) /\ Len(p) = i /\ \A j \in 1..i : p[j] = l[j]
    BY <1>1, <1>2
  <1>4. q \in Seq(S) /\ Len(q) = n - i /\ \A j \in 1..(n - i) : q[j] = l[i + j]
    BY <1>1, <1>2
  <1>5. PICK ps : ps = p \o s
    OBVIOUS
  <1>6. /\ ps \in Seq(S) /\ Len(ps) = i + k /\ ToSet(ps) = ToSet(p) \cup ToSet(s)
        /\ \A j \in 1..i : ps[j] = p[j]
        /\ \A j \in 1..k : ps[i + j] = s[j]
    <2>1. p \in Seq(S)
      BY <1>3
    <2>2. /\ p \o s \in Seq(S)
          /\ Len(p \o s) = Len(p) + Len(s)
          /\ \A j \in 1..Len(p) : (p \o s)[j] = p[j]
          /\ \A j \in 1..Len(s) : (p \o s)[Len(p) + j] = s[j]
          /\ ToSet(p \o s) = ToSet(p) \cup ToSet(s)
      BY <2>1, ConcatFacts, Zenon
    <2> QED
      BY <1>1, <1>3, <1>5, <2>2
  <1>7. r = ps \o q
    BY <1>1, <1>5
  <1>8. /\ r \in Seq(S) /\ Len(r) = (i + k) + (n - i) /\ ToSet(r) = ToSet(ps) \cup ToSet(q)
        /\ \A j \in 1..(i + k) : r[j] = ps[j]
        /\ \A j \in 1..(n - i) : r[(i + k) + j] = q[j]
    <2>1. ps \in Seq(S) /\ q \in Seq(S)
      BY <1>4, <1>6
    <2>2. /\ ps \o q \in Seq(S)
          /\ Len(ps \o q) = Len(ps) + Len(q)
          /\ \A j \in 1..Len(ps) : (ps \o q)[j] = ps[j]
          /\ \A j \in 1..Len(q) : (ps \o q)[Len(ps) + j] = q[j]
          /\ ToSet(ps \o q) = ToSet(ps) \cup ToSet(q)
      BY <2>1, ConcatFacts, Zenon
    <2> QED
      BY <1>4, <1>6, <1>7, <2>2
  <1>9. Len(r) = n + k
    <2>1. (i + k) + (n - i) = n + k
      BY <1>2
    <2> QED
      BY <1>8, <2>1
  <1>10. \A j \in 1..i : r[j] = l[j]
    <2>1. \A j \in 1..i : j \in 1..(i + k)
      BY <1>2
    <2> QED
      BY <1>3, <1>6, <1>8, <2>1
  <1>11. \A j \in 1..k : r[i + j] = s[j]
    <2>1. \A j \in 1..k : i + j \in 1..(i + k)
      BY <1>2
    <2> QED
      BY <1>6, <1>8, <2>1
  <1>12. \A j \in (i + 1)..n : r[k + j] = l[j]
    <2> SUFFICES ASSUME NEW j \in (i + 1)..n PROVE r[k + j] = l[j]
      OBVIOUS
    <2>1. j - i \in 1..(n - i) /\ (i + k) + (j - i) = k + j /\ i + (j - i) = j
      BY <1>2
    <2>2. r[(i + k) + (j - i)] = q[j - i] /\ q[j - i] = l[i + (j - i)]
      BY <1>4, <1>8, <2>1
    <2> QED
      BY <2>1, <2>2
  <1>13. ASSUME NEW y PROVE y \in ToSet(l) <=> y \in ToSet(p) \cup ToSet(q)
    <2>1. y \in ToSet(l) <=> \E j \in 1..n : l[j] = y
      BY <1>1, SeqMember
    <2>2. p \in Seq(S) /\ q \in Seq(S)
      BY <1>3, <1>4
    <2>3. y \in ToSet(p) <=> \E j \in 1..Len(p) : p[j] = y
      BY <2>2, SeqMember
    <2>4. y \in ToSet(q) <=> \E j \in 1..Len(q) : q[j] = y
      BY <2>2, SeqMember
    <2>5. ASSUME NEW j \in 1..n, l[j] = y PROVE y \in ToSet(p) \cup ToSet(q)
      <3>1. CASE j <= i
        <4>1. j \in 1..i
          BY <3>1
        <4> QED
          BY <1>3, <2>3, <2>5, <4>1
      <3>2. CASE j > i
        <4>1. j - i \in 1..(n - i) /\ i + (j - i) = j
          BY <1>2, <3>2
        <4>2. q[j - i] = y
          BY <1>4, <2>5, <4>1
        <4> QED
          BY <1>4, <2>4, <4>1, <4>2
      <3> QED
        BY <3>1, <3>2
    <2>6. ASSUME NEW j \in 1..i, p[j] = y PROVE y \in ToSet(l)
      <3>1. j \in 1..n /\ l[j] = y
        BY <1>2, <1>3, <2>6
      <3> QED
        BY <2>1, <3>1
    <2>7. ASSUME NEW j \in 1..(n - i), q[j] = y PROVE y \in ToSet(l)
      <3>1. i + j \in 1..n /\ l[i + j] = y
        BY <1>2, <1>4, <2>7
      <3> QED
        BY <2>1, <3>1
    <2> QED
      BY <1>3, <1>4, <2>1, <2>3, <2>4, <2>5, <2>6, <2>7
  <1>14. ToSet(r) = ToSet(l) \cup ToSet(s)
    BY <1>6, <1>8, <1>13
  <1>15. ASSUME Distinct(l), Distinct(s), ToSet(l) \cap ToSet(s) = {} PROVE Distinct(r)
    <2>1. \A a, b \in 1..n : l[a] = l[b] => a = b
      BY <1>1, <1>15 DEF Distinct
    <2>2. \A a, b \in 1..k : s[a] = s[b] => a = b
      BY <1>1, <1>15 DEF Distinct
    <2>3. \A a \in 1..n, b \in 1..k : l[a] # s[b]
      <3>1. ToSet(l) = {l[a] : a \in 1..n}
        BY <1>1, ToSetOfSeq
      <3>2. ToSet(s) = {s[a] : a \in 1..k}
        BY <1>1, ToSetOfSeq
      <3> QED
        BY <1>15, <3>1, <3>2
    \* Where the a-th element of r comes from.
    <2>4. ASSUME NEW a \in 1..(n + k)
          PROVE  \/ a \in 1..i
                 \/ \E b \in 1..k : a = i + b
                 \/ \E b \in (i + 1)..n : a = k + b
      <3>1. CASE a <= i
        BY <3>1
      <3>2. CASE a > i /\ a <= i + k
        <4>1. a - i \in 1..k /\ a = i + (a - i)
          BY <1>2, <3>2
        <4> QED
          BY <4>1
      <3>3. CASE a > i + k
        <4>1. a - k \in (i + 1)..n /\ a = k + (a - k)
          BY <1>2, <3>3
        <4> QED
          BY <4>1
      <3> QED
        BY <1>2, <3>1, <3>2, <3>3
    <2>5. ASSUME NEW a \in 1..(n + k), NEW b \in 1..(n + k), r[a] = r[b] PROVE a = b
      <3>0. 1..i \subseteq 1..n /\ (i + 1)..n \subseteq 1..n /\ \A x \in 1..i, y \in (i + 1)..n : x # y
        BY <1>2
      <3>1. CASE a \in 1..i
        <4>1. CASE b \in 1..i
          BY <1>10, <2>1, <2>5, <3>0, <3>1, <4>1
        <4>2. ASSUME NEW y \in 1..k, b = i + y PROVE FALSE
          BY <1>10, <1>11, <2>3, <2>5, <3>0, <3>1, <4>2
        <4>3. ASSUME NEW y \in (i + 1)..n, b = k + y PROVE FALSE
          <5>1. r[a] = l[a] /\ r[b] = l[y] /\ a \in 1..n /\ y \in 1..n /\ a # y
            BY <1>10, <1>12, <3>0, <3>1, <4>3
          <5> QED
            BY <2>1, <2>5, <5>1
        <4> QED
          BY <2>4, <4>1, <4>2, <4>3
      <3>2. ASSUME NEW x \in 1..k, a = i + x PROVE a = b
        <4>1. CASE b \in 1..i
          BY <1>10, <1>11, <2>3, <2>5, <3>0, <3>2, <4>1
        <4>2. ASSUME NEW y \in 1..k, b = i + y PROVE a = b
          BY <1>11, <2>2, <2>5, <3>2, <4>2
        <4>3. ASSUME NEW y \in (i + 1)..n, b = k + y PROVE FALSE
          <5>1. r[a] = s[x] /\ r[b] = l[y] /\ y \in 1..n
            BY <1>11, <1>12, <3>0, <3>2, <4>3
          <5> QED
            BY <2>3, <2>5, <5>1
        <4> QED
          BY <2>4, <4>1, <4>2, <4>3
      <3>3. ASSUME NEW x \in (i + 1)..n, a = k + x PROVE a = b
        <4>1. CASE b \in 1..i
          <5>1. r[b] = l[b] /\ r[a] = l[x] /\ b \in 1..n /\ x \in 1..n /\ b # x
            BY <1>10, <1>12, <3>0, <3>3, <4>1
          <5> QED
            BY <2>1, <2>5, <5>1
        <4>2. ASSUME NEW y \in 1..k, b = i + y PROVE FALSE
          <5>1. r[b] = s[y] /\ r[a] = l[x] /\ x \in 1..n
            BY <1>11, <1>12, <3>0, <3>3, <4>2
          <5> QED
            BY <2>3, <2>5, <5>1
        <4>3. ASSUME NEW y \in (i + 1)..n, b = k + y PROVE a = b
          <5>1. r[b] = l[y] /\ r[a] = l[x] /\ x \in 1..n /\ y \in 1..n
            BY <1>12, <3>0, <3>3, <4>3
          <5>2. x = y
            BY <2>1, <2>5, <5>1
          <5> QED
            BY <3>3, <4>3, <5>2
        <4> QED
          BY <2>4, <4>1, <4>2, <4>3
      <3> QED
        BY <2>4, <3>1, <3>2, <3>3
    <2> QED
      BY <1>9, <2>5 DEF Distinct
  <1> QED
    BY <1>1, <1>8, <1>9, <1>10, <1>14, <1>15

\* One turn of the loop of _AddImportedDependencies.
ImportTurn(l, i, exports) ==
    IF i > Len(l) \/ l[i] \notin DOMAIN exports THEN l
    ELSE SubSeq(l, 1, i) \o Select(exports[l[i]], ToSet(exports[l[i]]) \ ToSet(l))
           \o SubSeq(l, i + 1, Len(l))

ImportsAt(l, i, exports, r) ==
    /\ Distinct(l) => Distinct(r)
    /\ Len(l) <= Len(r) /\ \A j \in 1..Len(l) : j <= i => r[j] = l[j]
    /\ \/ r = l /\ (i > Len(l) \/ l[i] \notin DOMAIN exports)
       \/ /\ i \in 1..Len(l) /\ l[i] \in DOMAIN exports
          /\ ToSet(r) = ToSet(l) \cup ToSet(exports[l[i]])

-----------------------------------------------------------------------------
(***************************************************************************)
(* DirectAndImportedDependencies.                                          *)
(***************************************************************************)
\* One turn of _AddImportedDependencies: the exports of the i-th dependency go behind it.
LEMMA ImportTurnFacts ==
    ASSUME NEW S, NEW l \in Seq(S), NEW i \in Nat \ {0}, NEW exports,
           \A u \in DOMAIN exports : exports[u] \in Seq(S) /\ Distinct(exports[u]),
           NEW r, r = ImportTurn(l, i, exports)
    PROVE  r \in Seq(S) /\ ImportsAt(l, i, exports, r)
  <1> USE DEF ImportsAt
  <1>0. Len(l) \in Nat
    OBVIOUS
  <1>1. CASE i > Len(l) \/ l[i] \notin DOMAIN exports
    <2>1. r = l
      BY <1>1 DEF ImportTurn
    <2> QED
      BY <1>0, <1>1, <2>1
  <1>2. CASE ~(i > Len(l) \/ l[i] \notin DOMAIN exports)
    <2>1. i \in 1..Len(l) /\ l[i] \in DOMAIN exports
      BY <1>0, <1>2
    <2>2. PICK e, s : e = exports[l[i]] /\ s = Select(e, ToSet(e) \ ToSet(l))
      OBVIOUS
    <2>3. e \in Seq(S) /\ Distinct(e)
      BY <2>1, <2>2
    <2>4. s \in Seq(S) /\ ToSet(s) = ToSet(e) \cap (ToSet(e) \ ToSet(l)) /\ Distinct(s)
      BY <2>2, <2>3, SelectSet
    <2>5. r = SubSeq(l, 1, i) \o s \o SubSeq(l, i + 1, Len(l))
      BY <1>2, <2>2 DEF ImportTurn
    <2>6. /\ r \in Seq(S) /\ Len(r) = Len(l) + Len(s)
          /\ \A j \in 1..i : r[j] = l[j]
          /\ ToSet(r) = ToSet(l) \cup ToSet(s)
          /\ Distinct(l) /\ Distinct(s) /\ ToSet(l) \cap ToSet(s) = {} => Distinct(r)
      <3>1. s \in Seq(S)
        BY <2>4
      <3> QED
        BY <2>1, <2>5, <3>1, InsertFacts
    <2>7. Len(s) \in Nat
      BY <2>4
    <2>8. Len(l) <= Len(r) /\ \A j \in 1..Len(l) : j <= i => r[j] = l[j]
      BY <1>0, <2>6, <2>7
    <2>9. ToSet(r) = ToSet(l) \cup ToSet(e) /\ ToSet(l) \cap ToSet(s) = {}
      BY <2>4, <2>6
    <2> QED
      BY <2>1, <2>2, <2>4, <2>6, <2>8, <2>9
  <1> QED
    BY <1>1, <1>2

\* What the first i dependencies of l export is in l.
ImportedUpTo(l, i, exports) ==
    \A j \in 1..Len(l) : j <= i /\ l[j] \in DOMAIN exports => ToSet(exports[l[j]]) \subseteq ToSet(l)

\* A set that imports cannot leave.
Imports(X, base, exports) ==
    ToSet(base) \subseteq X /\ \A u \in X \cap DOMAIN exports : ToSet(exports[u]) \subseteq X

\* The list r is base with what is exported.
ImportedBy(r, S, base, exports) ==
    /\ r \in Seq(S) /\ Distinct(r) /\ ToSet(base) \subseteq ToSet(r)
    /\ \A X : Imports(X, base, exports) => ToSet(r) \subseteq X
    /\ ToSet(r) \subseteq DOMAIN exports =>
          \A u \in ToSet(r) : ToSet(exports[u]) \subseteq ToSet(r)

\* What DirectAndImportedDependencies returns: the dependencies and what they export.
LEMMA ImportedFacts ==
    ASSUME NEW S, NEW t \in DOMAIN targets, NEW exports, NEW base \in Seq(S),
           IsFiniteSet(DOMAIN targets), base = targets[t].node, Distinct(base),
           exports = [u \in DOMAIN targets |-> targets[u].exports],
           \A u \in DOMAIN exports : exports[u] \in Seq(S) /\ Distinct(exports[u]),
           NEW r, r = DirectAndImportedDependencies(t)
    PROVE  ImportedBy(r, S, base, exports)
  <1> DEFINE Eq(f) == f = [i \in 0..Cardinality(DOMAIN targets) |->
                 IF i = 0 THEN targets[t].node
                 ELSE LET l == f[i - 1]
                      IN  IF i > Len(l) \/ l[i] \notin DOMAIN targets THEN l
                          ELSE LET ex == targets[l[i]].exports
                               IN  SubSeq(l, 1, i) \o Select(ex, ToSet(ex) \ ToSet(l))
                                     \o SubSeq(l, i + 1, Len(l))]
             Eq2(f) == f = [i \in 0..Cardinality(DOMAIN targets) |->
                 IF i = 0 THEN base ELSE ImportTurn(f[i - 1], i, exports)]
             u == CHOOSE f : Eq(f)
  <1>0. PICK n, N : n = Cardinality(DOMAIN targets) /\ N = DOMAIN targets
    OBVIOUS
  <1>1. n \in Nat /\ IsFiniteSet(N) /\ DOMAIN exports = N
    BY <1>0, FS_CardinalityType
  <1>2. ASSUME NEW l, NEW i
        PROVE  ImportTurn(l, i, exports) =
                   IF i > Len(l) \/ l[i] \notin DOMAIN targets THEN l
                   ELSE LET ex == targets[l[i]].exports
                        IN  SubSeq(l, 1, i) \o Select(ex, ToSet(ex) \ ToSet(l))
                              \o SubSeq(l, i + 1, Len(l))
    <2>1. CASE i > Len(l) \/ l[i] \notin DOMAIN targets
      BY <1>0, <1>1, <2>1 DEF ImportTurn
    <2>2. CASE ~(i > Len(l) \/ l[i] \notin DOMAIN targets)
      <3>1. exports[l[i]] = targets[l[i]].exports
        BY <2>2
      <3> QED
        BY <1>0, <1>1, <2>2, <3>1 DEF ImportTurn
    <2> QED
      BY <2>1, <2>2
  <1>3. \A f : Eq2(f) <=> Eq(f)
    BY <1>2
  <1>4. \E f : Eq2(f)
    <2> DEFINE Good == [i \in 0..n |-> Seq(S)]
               Turn == [i \in 1..n |-> [x \in Seq(S) |-> ImportTurn(x, i, exports)]]
    <2>1. base \in Good[0]
      BY <1>0, <1>1
    <2>3. \A i \in 1..n : \A x \in Seq(S) : Turn[i][x] = ImportTurn(x, i, exports)
      OBVIOUS
    <2>4. \A i \in 0..n : Good[i] = Seq(S)
      OBVIOUS
    <2> HIDE DEF Good, Turn
    <2>2. GoodTurns(n, Good, Turn)
      <3> SUFFICES ASSUME NEW i \in 1..n, NEW x \in Good[i - 1] PROVE Turn[i][x] \in Good[i]
        BY DEF GoodTurns
      <3>1. i - 1 \in 0..n /\ i \in 0..n /\ i \in Nat \ {0}
        BY <1>1
      <3>2. x \in Seq(S) /\ Good[i] = Seq(S)
        BY <2>4, <3>1
      <3>3. PICK v : v = ImportTurn(x, i, exports)
        OBVIOUS
      <3>4. v \in Seq(S)
        BY <3>1, <3>2, <3>3, ImportTurnFacts
      <3> QED
        BY <2>3, <3>2, <3>3, <3>4
    <2>5. PICK f : IsLoop(f, n, base, Turn) /\ StaysGood(f, n, Good)
      BY <1>1, <2>1, <2>2, LoopFacts, Zenon
    <2>6. ASSUME NEW i \in 0..n PROVE f[i] = IF i = 0 THEN base ELSE ImportTurn(f[i - 1], i, exports)
      <3>1. CASE i = 0
        BY <2>5, <3>1 DEF IsLoop
      <3>2. CASE i # 0
        <4>1. i \in 1..n /\ i - 1 \in 0..n
          BY <1>1, <3>2
        <4>2. f[i] = Turn[i][f[i - 1]] /\ f[i - 1] \in Seq(S)
          BY <2>4, <2>5, <4>1 DEF IsLoop, StaysGood
        <4> QED
          BY <2>3, <3>2, <4>1, <4>2
      <3> QED
        BY <3>1, <3>2
    <2>7. f = [i \in 0..n |-> f[i]]
      BY <2>5 DEF IsLoop
    <2>8. Eq2(f)
      BY <1>0, <2>6, <2>7
    <2> QED
      BY <2>8
  <1>5. Eq(u)
    <2> HIDE DEF Eq, Eq2
    <2>1. \E f : Eq(f)
      BY <1>3, <1>4
    <2> QED
      BY <2>1 DEF u
  <1>6. r = u[n]
    BY <1>0 DEF DirectAndImportedDependencies
  <1>7. Eq2(u)
    <2> HIDE DEF Eq, Eq2, u
    <2> QED
      BY <1>3, <1>5
  <1> HIDE DEF u, Eq
  <1>8. u[0] = base /\ \A i \in 1..n : u[i] = ImportTurn(u[i - 1], i, exports)
    <2>1. \A i \in 0..n : u[i] = IF i = 0 THEN base ELSE ImportTurn(u[i - 1], i, exports)
      BY <1>0, <1>7
    <2>2. 0 \in 0..n /\ \A i \in 1..n : i \in 0..n /\ i # 0
      BY <1>1
    <2> QED
      BY <2>1, <2>2
  <1> HIDE DEF Eq2
  <1> DEFINE P == {i \in 0..n : /\ u[i] \in Seq(S) /\ Distinct(u[i]) /\ ToSet(base) \subseteq ToSet(u[i])
                                /\ ImportedUpTo(u[i], i, exports)
                                /\ \A X : Imports(X, base, exports) => ToSet(u[i]) \subseteq X}
  <1>9. 0 \in P
    <2>1. ImportedUpTo(base, 0, exports)
      BY DEF ImportedUpTo
    <2>2. \A X : Imports(X, base, exports) => ToSet(base) \subseteq X
      BY DEF Imports
    <2> QED
      BY <1>1, <1>8, <2>1, <2>2
  <1>10. ASSUME NEW i \in 1..n, i - 1 \in P PROVE i \in P
    <2>1. PICK l, v : l = u[i - 1] /\ v = u[i]
      OBVIOUS
    <2>2. /\ l \in Seq(S) /\ Distinct(l) /\ ToSet(base) \subseteq ToSet(l)
          /\ ImportedUpTo(l, i - 1, exports) /\ v = ImportTurn(l, i, exports)
          /\ \A X : Imports(X, base, exports) => ToSet(l) \subseteq X
      BY <1>8, <1>10, <2>1
    <2>3. l \in Seq(S) /\ i \in Nat \ {0} /\ v = ImportTurn(l, i, exports)
      BY <2>2
    <2>4. /\ v \in Seq(S)
          /\ Distinct(l) => Distinct(v)
          /\ Len(l) <= Len(v) /\ \A j \in 1..Len(l) : j <= i => v[j] = l[j]
          /\ \/ v = l /\ (i > Len(l) \/ l[i] \notin DOMAIN exports)
             \/ /\ i \in 1..Len(l) /\ l[i] \in DOMAIN exports
                /\ ToSet(v) = ToSet(l) \cup ToSet(exports[l[i]])
      <3>1. v \in Seq(S) /\ ImportsAt(l, i, exports, v)
        BY <2>3, ImportTurnFacts
      <3> QED
        BY <3>1 DEF ImportsAt
    <2>5. ToSet(l) \subseteq ToSet(v) /\ Len(l) \in Nat /\ Len(v) \in Nat
      <3>1. v \in Seq(S)
        BY <2>4
      <3>2. ToSet(l) \subseteq ToSet(v)
        BY <2>4
      <3> QED
        BY <2>3, <3>1, <3>2
    <2>6. ImportedUpTo(v, i, exports)
      <3>1. CASE v = l /\ (i > Len(l) \/ l[i] \notin DOMAIN exports)
        <4> SUFFICES ASSUME NEW j \in 1..Len(l), j <= i, l[j] \in DOMAIN exports
                     PROVE  ToSet(exports[l[j]]) \subseteq ToSet(l)
          BY <3>1 DEF ImportedUpTo
        <4>1. j # i
          BY <2>5, <3>1
        <4>2. j <= i - 1
          BY <2>5, <4>1
        <4> QED
          BY <2>2, <4>2 DEF ImportedUpTo
      <3>2. CASE /\ i \in 1..Len(l) /\ l[i] \in DOMAIN exports
                 /\ ToSet(v) = ToSet(l) \cup ToSet(exports[l[i]])
        <4> SUFFICES ASSUME NEW j \in 1..Len(v), j <= i, v[j] \in DOMAIN exports
                     PROVE  ToSet(exports[v[j]]) \subseteq ToSet(v)
          BY DEF ImportedUpTo
        <4>1. j \in 1..Len(l) /\ v[j] = l[j]
          BY <2>4, <2>5, <3>2
        <4>2. CASE j = i
          BY <3>2, <4>1, <4>2
        <4>3. CASE j # i
          <5>1. j <= i - 1
            BY <4>3
          <5> QED
            BY <2>2, <2>5, <4>1, <5>1 DEF ImportedUpTo
        <4> QED
          BY <4>2, <4>3
      <3> QED
        BY <2>4, <3>1, <3>2
    <2>7. ASSUME NEW X, Imports(X, base, exports) PROVE ToSet(v) \subseteq X
      <3>1. ToSet(l) \subseteq X
        BY <2>2, <2>7
      <3>2. CASE v = l
        BY <3>1, <3>2
      <3>3. CASE i \in 1..Len(l) /\ l[i] \in DOMAIN exports /\ ToSet(v) = ToSet(l) \cup ToSet(exports[l[i]])
        <4>1. l[i] \in ToSet(l)
          BY <2>3, <3>3, SeqMember
        <4> QED
          BY <2>7, <3>1, <3>3, <4>1 DEF Imports
      <3> QED
        BY <2>4, <3>2, <3>3
    <2>8. v \in Seq(S) /\ Distinct(v) /\ ToSet(base) \subseteq ToSet(v) /\ i \in 0..n
      BY <1>1, <2>2, <2>4, <2>5
    <2> QED
      BY <2>1, <2>6, <2>7, <2>8
  <1>11. n \in P
    <2> HIDE DEF P
    <2>1. 0..n \subseteq P
      BY <1>1, <1>9, <1>10, IntervalInduction
    <2> QED
      BY <1>1, <2>1
  <1>12. /\ r \in Seq(S) /\ Distinct(r) /\ ToSet(base) \subseteq ToSet(r)
         /\ ImportedUpTo(r, n, exports)
         /\ \A X : Imports(X, base, exports) => ToSet(r) \subseteq X
    BY <1>6, <1>11
  <1>13. ASSUME ToSet(r) \subseteq N, NEW x \in ToSet(r) PROVE ToSet(exports[x]) \subseteq ToSet(r)
    <2>1. r \in Seq(S)
      BY <1>12
    <2>2. r \in Seq(N)
      BY <1>13, <2>1, SeqWider
    <2>3. ToSet(r) = Elements(r) /\ Len(r) \in Nat
      BY <2>2, ToSetOfSeq
    <2>4. Cardinality(Elements(r)) = Len(r)
      BY <1>12, <2>2, CountElements DEF Distinct
    <2>5. Cardinality(Elements(r)) <= Cardinality(N)
      BY <1>1, <1>13, <2>3, FS_Subset
    <2>6. Len(r) <= n
      BY <1>0, <2>4, <2>5
    <2>7. PICK j \in 1..Len(r) : r[j] = x
      BY <2>1, SeqMember
    <2>8. j <= n
      BY <1>1, <2>3, <2>6
    <2> QED
      BY <1>1, <1>12, <1>13, <2>7, <2>8 DEF ImportedUpTo
  <1> QED
    BY <1>1, <1>12, <1>13 DEF ImportedBy

\* Everything on a path depends on what comes next.
IsPath(p, g) == \A i \in 1..(Len(p) - 1) : p[i + 1] \in g[p[i]]
PathsOf(g) == {p \in Seq(DOMAIN g) : IsPath(p, g)}

InFront(n, p, q) ==
    Len(q) = Len(p) + 1 /\ q[1] = n /\ \A i \in 1..Len(p) : q[i + 1] = p[i]

-----------------------------------------------------------------------------
(***************************************************************************)
(* FindCycles.                                                             *)
(***************************************************************************)
\* A path that is continued is a path.
LEMMA LongerPath ==
    ASSUME NEW g, NEW p \in PathsOf(g), NEW n \in NextNodes(g, p), NEW q, q = <<n>> \o p
    PROVE  q \in PathsOf(g) /\ InFront(n, p, q)
  <1>1. PICK S, one : S = DOMAIN g /\ one = <<n>>
    OBVIOUS
  <1>2. p \in Seq(S) /\ IsPath(p, g) /\ Len(p) \in Nat
    BY <1>1 DEF PathsOf
  <1>3. n \in S
    BY <1>1 DEF NextNodes, Dependents
  <1>4. one \in Seq(S) /\ Len(one) = 1 /\ one[1] = n
    BY <1>1, <1>3
  <1>5. /\ one \o p \in Seq(S)
        /\ Len(one \o p) = Len(one) + Len(p)
        /\ \A i \in 1..Len(one) : (one \o p)[i] = one[i]
        /\ \A i \in 1..Len(p) : (one \o p)[Len(one) + i] = p[i]
        /\ ToSet(one \o p) = ToSet(one) \cup ToSet(p)
    <2>1. one \in Seq(S) /\ p \in Seq(S)
      BY <1>2, <1>4
    <2> QED
      BY <2>1, ConcatFacts, Zenon
  <1>6. /\ q \in Seq(S) /\ Len(q) = Len(p) + 1 /\ q[1] = n
        /\ \A i \in 1..Len(p) : q[1 + i] = p[i]
    BY <1>1, <1>2, <1>4, <1>5
  <1>7. \A i \in 1..Len(p) : q[i + 1] = p[i]
    <2>1. \A i \in 1..Len(p) : 1 + i = i + 1
      BY <1>2
    <2> QED
      BY <1>6, <2>1
  <1>8. ASSUME NEW i \in 1..(Len(q) - 1) PROVE q[i + 1] \in g[q[i]]
    <2>1. i \in 1..Len(p) /\ q[i + 1] = p[i]
      BY <1>2, <1>6, <1>7
    <2>2. CASE i = 1
      <3>1. p # <<>>
        BY <2>1
      <3>2. p[1] \in g[n]
        BY <3>1 DEF NextNodes, Dependents
      <3> QED
        BY <1>6, <2>1, <2>2, <3>2
    <2>3. CASE i # 1
      <3>1. i - 1 \in 1..(Len(p) - 1) /\ (i - 1) + 1 = i /\ i - 1 \in 1..Len(p)
        BY <1>2, <2>1, <2>3
      <3>2. p[i] \in g[p[i - 1]]
        BY <1>2, <3>1 DEF IsPath
      <3>3. q[i] = p[i - 1]
        BY <1>7, <3>1
      <3> QED
        BY <2>1, <3>2, <3>3
    <2> QED
      BY <2>2, <2>3
  <1> QED
    BY <1>1, <1>6, <1>7, <1>8 DEF PathsOf, IsPath, InFront

LongerPaths(P, g) ==
    UNION {{<<n>> \o path : n \in NextNodes(g, path) \ ToSet(path)} : path \in P}

LEMMA LongerPathsFacts ==
    ASSUME NEW g, NEW P \in SUBSET PathsOf(g)
    PROVE  LongerPaths(P, g) \in SUBSET PathsOf(g)
  <1> SUFFICES ASSUME NEW q \in LongerPaths(P, g) PROVE q \in PathsOf(g)
    OBVIOUS
  <1>1. PICK path \in P : \E n \in NextNodes(g, path) \ ToSet(path) : q = <<n>> \o path
    BY DEF LongerPaths
  <1>2. PICK n \in NextNodes(g, path) : q = <<n>> \o path
    BY <1>1
  <1> QED
    BY <1>2, LongerPath

\* FindCycles only follows paths of the graph.
LEMMA PathsFacts ==
    ASSUME NEW g, IsFiniteSet(DOMAIN g)
    PROVE  Paths(g) \subseteq PathsOf(g)
  <1> DEFINE Eq(f) == f = [k \in 0..Cardinality(DOMAIN g) |->
                 IF k = 0 THEN {<<>>}
                 ELSE UNION {{<<n>> \o path : n \in NextNodes(g, path) \ ToSet(path)} :
                               path \in f[k - 1]}]
             Eq2(f) == f = [k \in 0..Cardinality(DOMAIN g) |->
                 IF k = 0 THEN {<<>>} ELSE LongerPaths(f[k - 1], g)]
             u == CHOOSE f : Eq(f)
  <1>0. PICK m, base, PP : m = Cardinality(DOMAIN g) /\ base = {<<>>} /\ PP = SUBSET PathsOf(g)
    OBVIOUS
  <1>1. m \in Nat
    BY <1>0, FS_CardinalityType
  <1>2. base \in PP
    BY <1>0 DEF PathsOf, IsPath
  <1>3. \A f : Eq2(f) <=> Eq(f)
    BY DEF LongerPaths
  <1>4. \E f : Eq2(f)
    <2> DEFINE Good == [i \in 0..m |-> PP]
               Turn == [i \in 1..m |-> [x \in PP |-> LongerPaths(x, g)]]
    <2>1. base \in Good[0]
      BY <1>1, <1>2
    <2>3. \A i \in 1..m : \A x \in PP : Turn[i][x] = LongerPaths(x, g)
      OBVIOUS
    <2>4. \A i \in 0..m : Good[i] = PP
      OBVIOUS
    <2> HIDE DEF Good, Turn
    <2>2. GoodTurns(m, Good, Turn)
      <3> SUFFICES ASSUME NEW i \in 1..m, NEW x \in Good[i - 1] PROVE Turn[i][x] \in Good[i]
        BY DEF GoodTurns
      <3>1. i - 1 \in 0..m /\ i \in 0..m
        BY <1>1
      <3>2. x \in PP /\ Good[i] = PP
        BY <2>4, <3>1
      <3>3. LongerPaths(x, g) \in PP
        BY <1>0, <3>2, LongerPathsFacts
      <3> QED
        BY <2>3, <3>2, <3>3
    <2>5. PICK f : IsLoop(f, m, base, Turn) /\ StaysGood(f, m, Good)
      BY <1>1, <2>1, <2>2, LoopFacts, Zenon
    <2>6. ASSUME NEW i \in 0..m PROVE f[i] = IF i = 0 THEN base ELSE LongerPaths(f[i - 1], g)
      <3>1. CASE i = 0
        BY <2>5, <3>1 DEF IsLoop
      <3>2. CASE i # 0
        <4>1. i \in 1..m /\ i - 1 \in 0..m
          BY <1>1, <3>2
        <4>2. f[i] = Turn[i][f[i - 1]] /\ f[i - 1] \in PP
          BY <2>4, <2>5, <4>1 DEF IsLoop, StaysGood
        <4> QED
          BY <2>3, <3>2, <4>1, <4>2
      <3> QED
        BY <3>1, <3>2
    <2>7. f = [i \in 0..m |-> f[i]]
      BY <2>5 DEF IsLoop
    <2>8. Eq2(f)
      BY <1>0, <2>6, <2>7
    <2> QED
      BY <2>8
  <1>5. Eq(u)
    <2> HIDE DEF Eq, Eq2
    <2>1. \E f : Eq(f)
      BY <1>3, <1>4
    <2> QED
      BY <2>1 DEF u
  <1>6. Paths(g) = UNION {u[k] : k \in 0..m}
    BY <1>0 DEF Paths
  <1>7. Eq2(u)
    <2> HIDE DEF Eq, Eq2, u
    <2> QED
      BY <1>3, <1>5
  <1> HIDE DEF u, Eq
  <1>8. u[0] = base /\ \A i \in 1..m : u[i] = LongerPaths(u[i - 1], g)
    <2>1. \A i \in 0..m : u[i] = IF i = 0 THEN base ELSE LongerPaths(u[i - 1], g)
      BY <1>0, <1>7
    <2>2. 0 \in 0..m /\ \A i \in 1..m : i \in 0..m /\ i # 0
      BY <1>1
    <2> QED
      BY <2>1, <2>2
  <1> HIDE DEF Eq2
  <1> DEFINE P == {i \in 0..m : u[i] \in PP}
  <1>9. 0 \in P
    BY <1>1, <1>2, <1>8
  <1>10. ASSUME NEW i \in 1..m, i - 1 \in P PROVE i \in P
    <2>1. u[i - 1] \in PP /\ i \in 0..m
      BY <1>1, <1>10
    <2>2. u[i] \in PP
      BY <1>0, <1>8, <2>1, LongerPathsFacts
    <2> QED
      BY <2>1, <2>2
  <1>11. 0..m \subseteq P
    <2> HIDE DEF P
    <2> QED
      BY <1>1, <1>9, <1>10, IntervalInduction
  <1> QED
    BY <1>0, <1>6, <1>11

\* What FindCycles returns for a finite graph.
LEMMA FindCyclesFacts ==
    ASSUME NEW g, IsFiniteSet(DOMAIN g), NEW c \in FindCycles(g)
    PROVE  c[1] = c[Len(c)] /\ \A i \in 1..(Len(c) - 1) : c[i + 1] \in g[c[i]]
  <1>1. PICK path \in Paths(g) : \E n \in NextNodes(g, path) \cap ToSet(path) :
            c = <<n>> \o SubSeq(path, 1, CHOOSE i \in DOMAIN path : path[i] = n)
    BY DEF FindCycles
  <1>2. PICK n \in NextNodes(g, path) \cap ToSet(path) :
            c = <<n>> \o SubSeq(path, 1, CHOOSE i \in DOMAIN path : path[i] = n)
    BY <1>1
  <1>3. PICK k : k = CHOOSE i \in DOMAIN path : path[i] = n
    OBVIOUS
  <1>4. path \in PathsOf(g)
    BY PathsFacts
  <1>5. path \in Seq(DOMAIN g) /\ IsPath(path, g) /\ Len(path) \in Nat /\ DOMAIN path = 1..Len(path)
    BY <1>4 DEF PathsOf
  <1>6. \E i \in DOMAIN path : path[i] = n
    BY <1>2 DEF ToSet
  <1>7. k \in 1..Len(path) /\ path[k] = n
    BY <1>3, <1>5, <1>6
  <1>8. PICK p : p = SubSeq(path, 1, k)
    OBVIOUS
  <1>9. p \in Seq(DOMAIN g) /\ Len(p) = k /\ \A i \in 1..k : p[i] = path[i]
    BY <1>5, <1>7, <1>8
  <1>10. IsPath(p, g)
    <2> SUFFICES ASSUME NEW i \in 1..(k - 1) PROVE p[i + 1] \in g[p[i]]
      BY <1>9 DEF IsPath
    <2>1. i \in 1..k /\ i + 1 \in 1..k /\ i \in 1..(Len(path) - 1)
      BY <1>5, <1>7
    <2> QED
      BY <1>5, <1>9, <2>1 DEF IsPath
  <1>11. n \in NextNodes(g, p)
    <2>1. path # <<>> /\ p # <<>> /\ p[1] = path[1]
      BY <1>5, <1>7, <1>9
    <2> QED
      BY <1>2, <2>1 DEF NextNodes
  <1>12. p \in PathsOf(g) /\ c = <<n>> \o p
    BY <1>2, <1>3, <1>8, <1>9, <1>10 DEF PathsOf
  <1>13. /\ c \in PathsOf(g) /\ Len(c) = Len(p) + 1 /\ c[1] = n
         /\ \A i \in 1..Len(p) : c[i + 1] = p[i]
    <2>1. c \in PathsOf(g) /\ InFront(n, p, c)
      BY <1>11, <1>12, LongerPath
    <2> QED
      BY <2>1 DEF InFront
  <1>14. c[Len(c)] = n
    BY <1>7, <1>9, <1>13
  <1> QED
    BY <1>13, <1>14 DEF PathsOf, IsPath

Keys == {"all", "direct", "link"}

\* What DoDependentSettings leaves alone in a dictionary.
SameBut(d, e) ==
    /\ DOMAIN e = DOMAIN d
    /\ \A k \in DOMAIN d \ {"flags", "settings"} : e[k] = d[k]
    /\ e.settings.all = d.settings.all /\ e.settings.direct = d.settings.direct

\* The settings s are merged once.
MergedOnce(d, s, key, e) ==
    /\ IsTargetDict(e) /\ SameBut(d, e)
    /\ ToSet(e.flags) = ToSet(d.flags) \cup ToSet(s.flags)
    /\ ToSet(e.settings.link.flags) =
          ToSet(d.settings.link.flags) \cup (IF key = "link" THEN {} ELSE ToSet(s.link))

-----------------------------------------------------------------------------
(***************************************************************************)
(* MergeSettings, for one dependency and for a list of them.               *)
(***************************************************************************)
\* The settings of one dependency are merged into a dictionary.
LEMMA MergeOne ==
    ASSUME NEW d, IsTargetDict(d), NEW s, IsList(s.flags), IsList(s.link), NEW key \in Keys,
           NEW e, e = MergeSettings(d, s, key)
    PROVE  MergedOnce(d, s, key, e)
  <1>1. PICK a, b, c : /\ a = d.flags /\ b = d.settings.link.flags
                       /\ c = IF key = "link" THEN b ELSE Merged(b, s.link)
    OBVIOUS
  <1>2. PICK f : f = Merged(a, s.flags)
    OBVIOUS
  <1>3. /\ WrittenKeys \subseteq DOMAIN d
        /\ {"all", "direct", "link"} \subseteq DOMAIN d.settings
        /\ {"flags", "link"} \subseteq DOMAIN d.settings.link
        /\ IsList(a) /\ IsList(b)
    BY <1>1 DEF IsTargetDict
  <1>4. ASSUME NEW x, IsList(x), NEW y, IsList(y), NEW z, z = Merged(x, y)
        PROVE  IsList(z) /\ ToSet(z) = ToSet(x) \cup ToSet(y)
    <2>1. PICK T : T = ToSet(x) \cup ToSet(y)
      OBVIOUS
    <2>2. x \in Seq(ToSet(x)) /\ y \in Seq(ToSet(y))
      BY <1>4, SeqOfList
    <2>3. x \in Seq(T) /\ y \in Seq(T)
      BY <2>1, <2>2, SeqWider
    <2>4. z \in Seq(T) /\ ToSet(z) = ToSet(x) \cup ToSet(y)
      BY <1>4, <2>3, MergeListsFacts DEF Merged
    <2> QED
      BY <2>4, ListOfSeq
  <1>5. IsList(f) /\ ToSet(f) = ToSet(a) \cup ToSet(s.flags)
    BY <1>2, <1>3, <1>4
  <1>6. IsList(c) /\ ToSet(c) = ToSet(b) \cup (IF key = "link" THEN {} ELSE ToSet(s.link))
    <2>1. CASE key = "link"
      BY <1>1, <1>3, <2>1
    <2>2. CASE key # "link"
      BY <1>1, <1>3, <1>4, <2>2
    <2> QED
      BY <2>1, <2>2
  <1>7. PICK g : g = [d EXCEPT !.flags = f]
    OBVIOUS
  <1>8. /\ DOMAIN g = DOMAIN d /\ g.flags = f
        /\ \A k \in DOMAIN d \ {"flags"} : g[k] = d[k]
    BY <1>3, <1>7 DEF WrittenKeys
  <1>9. e = [g EXCEPT !.settings.link.flags = c]
    BY <1>1, <1>2, <1>3, <1>7, <1>8 DEF MergeSettings, WrittenKeys
  <1>10. PICK ds, dl : ds = d.settings /\ dl = ds.link
    OBVIOUS
  <1>11. PICK el : el = [dl EXCEPT !.flags = c]
    OBVIOUS
  <1>12. DOMAIN el = DOMAIN dl /\ el.flags = c /\ \A k \in DOMAIN dl \ {"flags"} : el[k] = dl[k]
    BY <1>3, <1>10, <1>11
  <1>13. PICK es : es = [ds EXCEPT !.link = el]
    OBVIOUS
  <1>14. DOMAIN es = DOMAIN ds /\ es.link = el /\ \A k \in DOMAIN ds \ {"link"} : es[k] = ds[k]
    BY <1>3, <1>10, <1>13
  <1>15. g.settings = ds
    BY <1>3, <1>8, <1>10 DEF WrittenKeys
  <1>16. e = [g EXCEPT !.settings = es]
    BY <1>9, <1>10, <1>11, <1>13, <1>15
  <1>17. /\ DOMAIN e = DOMAIN d /\ e.settings = es /\ e.flags = f
         /\ \A k \in DOMAIN d \ {"flags", "settings"} : e[k] = d[k]
    BY <1>3, <1>8, <1>16 DEF WrittenKeys
  <1>18. SameBut(d, e)
    <2>1. "all" \in DOMAIN ds \ {"link"} /\ "direct" \in DOMAIN ds \ {"link"}
      BY <1>3, <1>10
    <2> QED
      BY <1>10, <1>14, <1>17, <2>1 DEF SameBut
  <1>19. IsTargetDict(e)
    <2>1. WrittenKeys \subseteq DOMAIN e
      BY <1>3, <1>17
    <2>2. \A k \in {"toolsets", "dependencies", "exports", "excluded", "exports_excluded", "flags"} : IsList(e[k])
      <3>1. \A k \in {"toolsets", "dependencies", "exports", "excluded", "exports_excluded"} :
                k \in DOMAIN d \ {"flags", "settings"} /\ IsList(d[k])
        BY <1>3 DEF WrittenKeys, IsTargetDict
      <3>2. \A k \in {"toolsets", "dependencies", "exports", "excluded", "exports_excluded"} : IsList(e[k])
        BY <1>17, <3>1
      <3>3. IsList(e.flags)
        BY <1>5, <1>17
      <3> QED
        BY <3>2, <3>3
    <2>3. {"all", "direct", "link"} \subseteq DOMAIN e.settings
      BY <1>3, <1>10, <1>14, <1>17
    <2>4. ASSUME NEW k \in {"all", "direct", "link"}
          PROVE  /\ {"flags", "link"} \subseteq DOMAIN e.settings[k]
                 /\ IsList(e.settings[k].flags) /\ IsList(e.settings[k].link)
      <3>0. /\ {"flags", "link"} \subseteq DOMAIN d.settings[k]
            /\ IsList(d.settings[k].flags) /\ IsList(d.settings[k].link)
        BY DEF IsTargetDict
      <3>1. CASE k = "link"
        <4>1. e.settings[k] = el
          BY <1>14, <1>17, <3>1
        <4>2. d.settings[k] = dl
          BY <1>10, <3>1
        <4>3. "link" \in DOMAIN dl \ {"flags"}
          BY <3>0, <4>2
        <4>4. el.link = dl.link
          BY <1>12, <4>3
        <4> QED
          BY <1>6, <1>12, <3>0, <4>1, <4>2, <4>4
      <3>2. CASE k # "link"
        <4>1. k \in DOMAIN ds \ {"link"}
          BY <1>3, <1>10, <3>2
        <4>2. e.settings[k] = d.settings[k]
          BY <1>10, <1>14, <1>17, <4>1
        <4> QED
          BY <3>0, <4>2
      <3> QED
        BY <3>1, <3>2
    <2> QED
      BY <2>1, <2>2, <2>3, <2>4 DEF IsTargetDict
  <1>20. e.settings.link.flags = c
    BY <1>12, <1>14, <1>17
  <1> QED
    BY <1>1, <1>5, <1>6, <1>17, <1>18, <1>19, <1>20 DEF MergedOnce

\* f[i] is the dictionary when i settings have been merged.
Merges(f, n, base, s, key) ==
    f = [i \in 0..n |-> IF i = 0 THEN base ELSE MergeSettings(f[i - 1], s[i], key)]
MergesList(f, l, d, key) ==
    f = [i \in 0..Len(l) |->
            IF i = 0 THEN d ELSE MergeSettings(f[i - 1], targets[l[i]].settings[key], key)]

\* The loop over the lists of a settings dictionary has a result.
LEMMA MergeLoop ==
    ASSUME NEW n \in Nat, NEW base, NEW s, NEW key
    PROVE  \E f : Merges(f, n, base, s, key)
  <1> DEFINE Is(f, m) == f = [i \in 0..m |-> IF i = 0 THEN base
                                             ELSE MergeSettings(f[i - 1], s[i], key)]
             E == {m \in Nat : \E f : Is(f, m)}
  <1>1. 0 \in E
    <2>1. Is([i \in 0..0 |-> base], 0)
      OBVIOUS
    <2> QED
      BY <2>1
  <1>2. ASSUME NEW m \in E PROVE m + 1 \in E
    <2>1. m \in Nat /\ m + 1 \in Nat
      OBVIOUS
    <2>2. PICK f : Is(f, m)
      OBVIOUS
    <2> DEFINE g == [i \in 0..(m + 1) |-> IF i = m + 1 THEN MergeSettings(f[m], s[m + 1], key) ELSE f[i]]
    <2>3. \A i \in 0..m : f[i] = IF i = 0 THEN base ELSE MergeSettings(f[i - 1], s[i], key)
      BY <2>2
    <2>4. \A i \in 0..m : g[i] = f[i]
      BY <2>1
    <2>5. g[m + 1] = MergeSettings(f[m], s[m + 1], key)
      BY <2>1
    <2>6. \A i \in 0..(m + 1) : i \in 0..m \/ i = m + 1
      BY <2>1
    <2>7. \A i \in 0..m : i = 0 \/ i - 1 \in 0..m
      BY <2>1
    <2>8. g = [i \in 0..(m + 1) |-> g[i]]
      OBVIOUS
    <2> HIDE DEF g
    <2>9. ASSUME NEW i \in 0..(m + 1)
          PROVE  g[i] = IF i = 0 THEN base ELSE MergeSettings(g[i - 1], s[i], key)
      <3>1. CASE i = m + 1
        <4>1. i # 0 /\ i - 1 = m /\ m \in 0..m
          BY <2>1, <3>1
        <4> QED
          BY <2>4, <2>5, <3>1, <4>1
      <3>2. CASE i \in 0..m
        BY <2>3, <2>4, <2>7, <3>2
      <3> QED
        BY <2>6, <3>1, <3>2
    <2>10. Is(g, m + 1)
      BY <2>8, <2>9
    <2> HIDE DEF Is
    <2> QED
      BY <2>1, <2>10
  <1>3. E \in SUBSET Nat
    OBVIOUS
  <1> HIDE DEF E
  <1>4. E = Nat
    BY <1>1, <1>2, <1>3, NatInductionSet
  <1> QED
    BY <1>4 DEF E, Merges

\* What is merged into the dictionary d of the targets of l.
MergedFrom(d, l, key, r) ==
    /\ IsTargetDict(r) /\ SameBut(d, r)
    /\ \A x : x \in ToSet(r.flags) <=>
          x \in ToSet(d.flags) \/ \E u \in ToSet(l) : x \in ToSet(targets[u].settings[key].flags)
    /\ \A x : x \in ToSet(r.settings.link.flags) <=>
          \/ x \in ToSet(d.settings.link.flags)
          \/ key # "link" /\ \E u \in ToSet(l) : x \in ToSet(targets[u].settings[key].link)

\* The settings of the dependencies of a list are merged into a dictionary, turn by turn.
LEMMA MergeTurns ==
    ASSUME NEW S, NEW l \in Seq(S), NEW d, IsTargetDict(d), NEW key \in Keys,
           \A t \in ToSet(l) : IsTargetDict(targets[t]),
           NEW n, n = Len(l), NEW u, u[0] = d,
           \A i \in 1..n : u[i] = MergeSettings(u[i - 1], targets[l[i]].settings[key], key)
    PROVE  MergedFrom(d, l, key, u[n])
  <1>1. n \in Nat
    OBVIOUS
  <1> DEFINE From(i, e) ==
               /\ IsTargetDict(e) /\ SameBut(d, e)
               /\ \A x : x \in ToSet(e.flags) <=>
                     x \in ToSet(d.flags) \/ \E j \in 1..i : x \in ToSet(targets[l[j]].settings[key].flags)
               /\ \A x : x \in ToSet(e.settings.link.flags) <=>
                     \/ x \in ToSet(d.settings.link.flags)
                     \/ key # "link" /\ \E j \in 1..i : x \in ToSet(targets[l[j]].settings[key].link)
             P == {i \in 0..n : From(i, u[i])}
  <1>7. 0 \in P
    <2>1. SameBut(d, d) /\ 1..0 = {} /\ 0 \in 0..n
      BY <1>1 DEF SameBut
    <2>2. From(0, d)
      BY <2>1
    <2> HIDE DEF From
    <2> QED
      BY <2>1, <2>2
  <1>8. ASSUME NEW i \in 1..n, i - 1 \in P PROVE i \in P
    <2>1. PICK a, e, st, m : a = u[i - 1] /\ e = u[i] /\ st = targets[l[i]].settings[key] /\ m = i - 1
      OBVIOUS
    <2>2. From(m, a) /\ i \in 0..n /\ m \in Nat /\ i = m + 1
      BY <1>1, <1>8, <2>1
    <2>3. e = MergeSettings(a, st, key)
      BY <2>1
    <2>4. l[i] \in ToSet(l)
      BY SeqMember
    <2>5. IsList(st.flags) /\ IsList(st.link)
      BY <2>1, <2>4 DEF IsTargetDict, Keys
    <2>6. /\ IsTargetDict(e) /\ SameBut(a, e)
          /\ ToSet(e.flags) = ToSet(a.flags) \cup ToSet(st.flags)
          /\ ToSet(e.settings.link.flags) =
                 ToSet(a.settings.link.flags) \cup (IF key = "link" THEN {} ELSE ToSet(st.link))
      <3>1. IsTargetDict(a)
        BY <2>2
      <3>2. MergedOnce(a, st, key, e)
        BY <2>3, <2>5, <3>1, MergeOne
      <3> QED
        BY <3>2 DEF MergedOnce
    <2>7. SameBut(d, e)
      <3>1. SameBut(d, a)
        BY <2>2
      <3> QED
        BY <2>6, <3>1 DEF SameBut
    <2>8. 1..i = 1..m \cup {i}
      BY <2>2
    <2>9. ASSUME NEW x
          PROVE  x \in ToSet(e.flags) <=>
                     x \in ToSet(d.flags) \/ \E j \in 1..i : x \in ToSet(targets[l[j]].settings[key].flags)
      <3>1. x \in ToSet(e.flags) <=> x \in ToSet(a.flags) \/ x \in ToSet(st.flags)
        BY <2>6
      <3>2. x \in ToSet(a.flags) <=>
                     x \in ToSet(d.flags) \/ \E j \in 1..m : x \in ToSet(targets[l[j]].settings[key].flags)
        BY <2>2
      <3> QED
        BY <2>1, <2>8, <3>1, <3>2
    <2>10. ASSUME NEW x
           PROVE  x \in ToSet(e.settings.link.flags) <=>
                     \/ x \in ToSet(d.settings.link.flags)
                     \/ key # "link" /\ \E j \in 1..i : x \in ToSet(targets[l[j]].settings[key].link)
      <3>1. x \in ToSet(e.settings.link.flags) <=>
               x \in ToSet(a.settings.link.flags) \/ (key # "link" /\ x \in ToSet(st.link))
        BY <2>6
      <3>2. x \in ToSet(a.settings.link.flags) <=>
                     \/ x \in ToSet(d.settings.link.flags)
                     \/ key # "link" /\ \E j \in 1..m : x \in ToSet(targets[l[j]].settings[key].link)
        BY <2>2
      <3> QED
        BY <2>1, <2>8, <3>1, <3>2
    <2>11. From(i, e)
      BY <2>6, <2>7, <2>9, <2>10
    <2> HIDE DEF From
    <2> QED
      BY <2>1, <2>2, <2>11
  <1>9. From(n, u[n])
    <2> HIDE DEF P, From
    <2>1. 0..n \subseteq P
      BY <1>1, <1>7, <1>8, IntervalInduction
    <2>2. n \in P
      BY <1>1, <2>1
    <2> QED
      BY <2>2 DEF P
  <1>10. ASSUME NEW x
         PROVE  (\E j \in 1..n : x = l[j]) <=> x \in ToSet(l)
    BY SeqMember
  <1> QED
    BY <1>9, <1>10 DEF MergedFrom

\* The loop over the dependencies has a result.
LEMMA MergeTurnsExist ==
    ASSUME NEW S, NEW l \in Seq(S), NEW d, NEW key
    PROVE  \E f : MergesList(f, l, d, key)
  <1>1. PICK n : n = Len(l)
    OBVIOUS
  <1>2. n \in Nat
    BY <1>1
  <1>3. PICK s : s = [i \in 1..n |-> targets[l[i]].settings[key]]
    OBVIOUS
  <1>3a. PICK f : Merges(f, n, d, s, key)
    BY <1>2, MergeLoop
  <1>4. f = [i \in 0..n |-> IF i = 0 THEN d ELSE MergeSettings(f[i - 1], s[i], key)]
    BY <1>3a DEF Merges
  <1>5. \A i \in 0..n : i # 0 => s[i] = targets[l[i]].settings[key]
    BY <1>2, <1>3
  <1>6. \A i \in 0..n : (IF i = 0 THEN d ELSE MergeSettings(f[i - 1], s[i], key)) =
                 IF i = 0 THEN d ELSE MergeSettings(f[i - 1], targets[l[i]].settings[key], key)
    BY <1>5
  <1>7. f = [i \in 0..n |->
                 IF i = 0 THEN d ELSE MergeSettings(f[i - 1], targets[l[i]].settings[key], key)]
    BY <1>4, <1>6
  <1> QED
    BY <1>1, <1>7 DEF MergesList

\* What that result is.
LEMMA MergesFrom ==
    ASSUME NEW S, NEW l \in Seq(S), NEW d, IsTargetDict(d), NEW key \in Keys,
           \A t \in ToSet(l) : IsTargetDict(targets[t]),
           NEW f, MergesList(f, l, d, key)
    PROVE  MergedFrom(d, l, key, f[Len(l)])
  <1>1. PICK n : n = Len(l)
    OBVIOUS
  <1>2. n \in Nat
    BY <1>1
  <1>3. \A i \in 0..n : f[i] = IF i = 0 THEN d
                                 ELSE MergeSettings(f[i - 1], targets[l[i]].settings[key], key)
    BY <1>1 DEF MergesList
  <1>4. 0 \in 0..n /\ \A i \in 1..n : i \in 0..n /\ i # 0
    BY <1>2
  <1>5. f[0] = d /\ \A i \in 1..n : f[i] = MergeSettings(f[i - 1], targets[l[i]].settings[key], key)
    BY <1>3, <1>4
  <1>6. MergedFrom(d, l, key, f[n])
    BY <1>1, <1>5, MergeTurns
  <1> QED
    BY <1>1, <1>6

\* The fold of DoDependentSettings is that loop.
LEMMA MergeAll ==
    ASSUME NEW S, NEW l \in Seq(S), NEW d, IsTargetDict(d), NEW key \in Keys,
           \A t \in ToSet(l) : IsTargetDict(targets[t]),
           NEW r, r = Folded(LAMBDA x, dep : MergeSettings(x, targets[dep].settings[key], key), d, l)
    PROVE  MergedFrom(d, l, key, r)
  <1> DEFINE u == CHOOSE f : MergesList(f, l, d, key)
  <1>1. \E f : MergesList(f, l, d, key)
    BY MergeTurnsExist
  <1>2. MergesList(u, l, d, key)
    BY <1>1
  <1>3. r = u[Len(l)]
    BY DEF Folded, MergesList
  <1> HIDE DEF u
  <1>4. MergedFrom(d, l, key, u[Len(l)])
    BY <1>2, MergesFrom
  <1> QED
    BY <1>3, <1>4

\* A key that is not looked up as written may be added.
LEMMA WithDict ==
    ASSUME NEW d, IsTargetDict(d), NEW key, key \notin WrittenKeys, NEW value,
           NEW e, e = With(d, key, value)
    PROVE  /\ IsTargetDict(e) /\ \A k \in WrittenKeys : e[k] = d[k]
           /\ e[key] = value /\ key \in DOMAIN e
  <1>1. /\ DOMAIN e = DOMAIN d \cup {key} /\ e[key] = value
        /\ \A k \in DOMAIN d \ {key} : e[k] = d[k]
    BY DEF With
  <1>2. WrittenKeys \subseteq DOMAIN d /\ \A k \in WrittenKeys : k \in DOMAIN d \ {key}
    BY DEF IsTargetDict
  <1>3. \A k \in WrittenKeys : e[k] = d[k]
    BY <1>1, <1>2
  <1>4. /\ \A k \in {"toolsets", "dependencies", "exports", "excluded", "exports_excluded", "flags"} : e[k] = d[k]
        /\ e.settings = d.settings
    BY <1>3 DEF WrittenKeys
  <1>5. IsTargetDict(e)
    BY <1>1, <1>2, <1>4 DEF IsTargetDict
  <1> QED
    BY <1>1, <1>3, <1>5

\* A list of dictionaries.
DictList(l) == IsList(l) /\ \A i \in DOMAIN l : IsTargetDict(l[i])

-----------------------------------------------------------------------------
(***************************************************************************)
(* The list filters, which the dependencies go through as other lists do.  *)
(***************************************************************************)
\* What the patterns up to the m-th one that match an item say of it: the last one
\* decides, and the exclusion list when there is none.
Hits(s, regexes, m) == {j \in 1..m : s \in regexes[j].matches}
StaysUpTo(s, excludes, regexes, m) ==
    \/ Hits(s, regexes, m) = {} /\ s \notin ToSet(excludes)
    \/ \E j \in Hits(s, regexes, m) :
          regexes[j].action = 1 /\ \A k \in Hits(s, regexes, m) : k <= j
Stays(s, excludes, regexes) == StaysUpTo(s, excludes, regexes, Len(regexes))

\* One pattern more.
LEMMA OneMorePattern ==
    ASSUME NEW s, NEW excludes, NEW regexes, NEW m \in Nat \ {0}
    PROVE  StaysUpTo(s, excludes, regexes, m) <=>
              IF s \in regexes[m].matches THEN regexes[m].action = 1
              ELSE StaysUpTo(s, excludes, regexes, m - 1)
  <1>1. PICK H : H = Hits(s, regexes, m - 1)
    OBVIOUS
  <1>2. H \subseteq 1..(m - 1)
    BY <1>1 DEF Hits
  <1>3. CASE s \in regexes[m].matches
    <2>1. Hits(s, regexes, m) = H \cup {m}
      BY <1>1, <1>3 DEF Hits
    <2>2. \A k \in H \cup {m} : k <= m
      BY <1>2
    <2>3. \A j \in H : ~(m <= j)
      BY <1>2
    <2> QED
      BY <1>3, <2>1, <2>2, <2>3 DEF StaysUpTo
  <1>4. CASE s \notin regexes[m].matches
    <2>1. Hits(s, regexes, m) = H
      BY <1>1, <1>4 DEF Hits
    <2> QED
      BY <1>1, <1>4, <2>1 DEF StaysUpTo
  <1> QED
    BY <1>3, <1>4

\* The actions that ProcessListFiltersInDict comes to.
LEMMA ActionsFacts ==
    ASSUME NEW T, NEW l \in Seq(T), NEW excludes,
           NEW regexes \in Seq([matches : SUBSET T, action : {0, 1}])
    PROVE  \A i \in 1..Len(l) :
              ListActions(l, excludes, regexes)[i] # 0 <=> Stays(l[i], excludes, regexes)
  <1> DEFINE Start == [i \in DOMAIN l |-> IF l[i] \in ToSet(excludes) THEN 0 ELSE -1]
             Turned(x, j) == [i \in DOMAIN l |->
                                IF l[i] \in regexes[j].matches THEN regexes[j].action ELSE x[i]]
             Eq(f) == f = [j \in 0..Len(regexes) |->
                             IF j = 0 THEN Start ELSE Turned(f[j - 1], j)]
             u == CHOOSE f : Eq(f)
  <1>0. PICK m, n : m = Len(regexes) /\ n = Len(l)
    OBVIOUS
  <1>1. /\ m \in Nat /\ n \in Nat /\ DOMAIN l = 1..n
        /\ \A j \in 1..m : regexes[j].action \in {0, 1}
    <2>1. m \in Nat /\ n \in Nat /\ DOMAIN l = 1..n
      BY <1>0
    <2>2. PICK R : R = [matches : SUBSET T, action : {0, 1}]
      OBVIOUS
    <2>3. regexes \in Seq(R)
      BY <2>2
    <2>4. \A j \in 1..m : regexes[j] \in R
      BY <1>0, <2>3
    <2> QED
      BY <2>1, <2>2, <2>4
  <1>2. \E f : Eq(f)
    <2> DEFINE A == [1..n -> {-1, 0, 1}]
               Good == [j \in 0..m |-> A]
               Turn == [j \in 1..m |-> [x \in A |-> Turned(x, j)]]
    <2>1. Start \in A
      BY <1>1
    <2>2. ASSUME NEW j \in 1..m, NEW x \in A PROVE Turned(x, j) \in A
      BY <1>1
    <2> HIDE DEF A, Turned, Start
    <2>3. \A j \in 1..m : \A x \in A : Turn[j][x] = Turned(x, j)
      OBVIOUS
    <2>4. \A j \in 0..m : Good[j] = A
      OBVIOUS
    <2> HIDE DEF Good, Turn
    <2>5. GoodTurns(m, Good, Turn)
      <3> SUFFICES ASSUME NEW j \in 1..m, NEW x \in Good[j - 1] PROVE Turn[j][x] \in Good[j]
        BY DEF GoodTurns
      <3>1. j - 1 \in 0..m /\ j \in 0..m
        BY <1>1
      <3> QED
        BY <2>2, <2>3, <2>4, <3>1
    <2>6. Start \in Good[0]
      BY <1>1, <2>1, <2>4
    <2>7. PICK f : IsLoop(f, m, Start, Turn) /\ StaysGood(f, m, Good)
      BY <1>1, <2>5, <2>6, LoopFacts, Zenon
    <2>8. ASSUME NEW j \in 0..m, j # 0 PROVE Turn[j][f[j - 1]] = Turned(f[j - 1], j)
      <3>1. j \in 1..m /\ j - 1 \in 0..m
        BY <1>1, <2>8
      <3>2. f[j - 1] \in A
        BY <2>4, <2>7, <3>1 DEF StaysGood
      <3> QED
        BY <2>3, <3>1, <3>2
    <2>9. Eq(f)
      <3>1. f = [j \in 0..m |-> f[j]]
        BY <2>7 DEF IsLoop
      <3>2. \A j \in 0..m : f[j] = IF j = 0 THEN Start ELSE Turned(f[j - 1], j)
        <4> SUFFICES ASSUME NEW j \in 0..m, j # 0 PROVE f[j] = Turned(f[j - 1], j)
          BY <2>7 DEF IsLoop
        <4>1. j \in 1..m
          BY <1>1
        <4> QED
          BY <2>7, <2>8, <4>1 DEF IsLoop
      <3> QED
        BY <1>0, <3>1, <3>2
    <2> QED
      BY <2>9
  <1>3. Eq(u)
    BY <1>2
  <1>4. ListActions(l, excludes, regexes) = u[m]
    BY <1>0 DEF ListActions
  <1> HIDE DEF u
  <1>5. u[0] = Start /\ \A j \in 1..m : u[j] = Turned(u[j - 1], j)
    <2>1. \A j \in 0..m : u[j] = IF j = 0 THEN Start ELSE Turned(u[j - 1], j)
      BY <1>0, <1>3
    <2>2. 0 \in 0..m /\ \A j \in 1..m : j \in 0..m /\ j # 0
      BY <1>1
    <2> HIDE DEF Eq, Start, Turned
    <2> QED
      BY <2>1, <2>2
  <1>6. ASSUME NEW i \in 1..n
        PROVE  u[m][i] # 0 <=> StaysUpTo(l[i], excludes, regexes, m)
    <2> DEFINE P == {j \in 0..m : u[j][i] # 0 <=> StaysUpTo(l[i], excludes, regexes, j)}
    <2>1. 0 \in P
      <3>1. u[0][i] # 0 <=> l[i] \notin ToSet(excludes)
        BY <1>1, <1>5
      <3>2. Hits(l[i], regexes, 0) = {}
        BY DEF Hits
      <3> QED
        BY <1>1, <3>1, <3>2 DEF StaysUpTo
    <2>2. ASSUME NEW j \in 1..m, j - 1 \in P PROVE j \in P
      <3>1. u[j][i] = IF l[i] \in regexes[j].matches THEN regexes[j].action ELSE u[j - 1][i]
        BY <1>1, <1>5
      <3>2. u[j - 1][i] # 0 <=> StaysUpTo(l[i], excludes, regexes, j - 1)
        BY <2>2
      <3>3. regexes[j].action # 0 <=> regexes[j].action = 1
        BY <1>1
      <3>4. j \in Nat \ {0} /\ j \in 0..m
        BY <1>1
      <3>5. StaysUpTo(l[i], excludes, regexes, j) <=>
              IF l[i] \in regexes[j].matches THEN regexes[j].action = 1
              ELSE StaysUpTo(l[i], excludes, regexes, j - 1)
        BY <3>4, OneMorePattern
      <3> QED
        BY <3>1, <3>2, <3>3, <3>4, <3>5
    <2>3. 0..m \subseteq P
      <3> HIDE DEF P
      <3> QED
        BY <1>1, <2>1, <2>2, IntervalInduction
    <2> QED
      BY <1>1, <2>3
  <1> QED
    BY <1>0, <1>4, <1>6 DEF Stays

\* Taking the items at the places where an element of S is selects these elements.
LEMMA ItemsAreSelected ==
    ASSUME NEW T, NEW l \in Seq(T), NEW S, NEW I,
           \A i \in 1..Len(l) : i \in I <=> l[i] \in S
    PROVE  ItemsAt(l, I) = Select(l, S)
  <1> DEFINE EqI(f) == f = [i \in 0..Len(l) |->
                 IF i = 0 THEN <<>>
                 ELSE IF i \in I THEN Append(f[i - 1], l[i]) ELSE f[i - 1]]
             EqS(f) == f = [i \in 0..Len(l) |->
                 IF i = 0 THEN <<>>
                 ELSE IF l[i] \in S THEN Append(f[i - 1], l[i]) ELSE f[i - 1]]
             a == CHOOSE f : EqI(f)
             b == CHOOSE f : EqS(f)
  <1>0. PICK n : n = Len(l)
    OBVIOUS
  <1>1. n \in Nat /\ \A i \in 1..n : l[i] \in T
    BY <1>0
  <1>2. \E f : EqI(f)
    <2> DEFINE Good == [i \in 0..n |-> Seq(T)]
               Turn == [i \in 1..n |-> [x \in Seq(T) |->
                            IF i \in I THEN Append(x, l[i]) ELSE x]]
    <2>1. << >> \in Good[0]
      BY <1>1
    <2>2. \A i \in 1..n : \A x \in Seq(T) : Turn[i][x] = IF i \in I THEN Append(x, l[i]) ELSE x
      OBVIOUS
    <2>3. \A i \in 0..n : Good[i] = Seq(T)
      OBVIOUS
    <2> HIDE DEF Good, Turn
    <2>4. GoodTurns(n, Good, Turn)
      <3> SUFFICES ASSUME NEW i \in 1..n, NEW x \in Good[i - 1] PROVE Turn[i][x] \in Good[i]
        BY DEF GoodTurns
      <3>1. i - 1 \in 0..n /\ i \in 0..n
        BY <1>1
      <3>2. x \in Seq(T) /\ Good[i] = Seq(T)
        BY <2>3, <3>1
      <3>3. l[i] \in T
        BY <1>1
      <3>4. Append(x, l[i]) \in Seq(T)
        BY <3>2, <3>3
      <3> QED
        BY <2>2, <3>2, <3>4
    <2>5. PICK f : IsLoop(f, n, <<>>, Turn) /\ StaysGood(f, n, Good)
      BY <1>1, <2>1, <2>4, LoopFacts, Zenon
    <2>6. ASSUME NEW i \in 0..n, i # 0
          PROVE  Turn[i][f[i - 1]] = IF i \in I THEN Append(f[i - 1], l[i]) ELSE f[i - 1]
      <3>1. i \in 1..n /\ i - 1 \in 0..n
        BY <1>1, <2>6
      <3>2. f[i - 1] \in Seq(T)
        BY <2>3, <2>5, <3>1 DEF StaysGood
      <3> QED
        BY <2>2, <3>1, <3>2
    <2>7. EqI(f)
      <3>1. f = [i \in 0..n |-> f[i]]
        BY <2>5 DEF IsLoop
      <3>2. \A i \in 0..n : f[i] = IF i = 0 THEN <<>>
               ELSE IF i \in I THEN Append(f[i - 1], l[i]) ELSE f[i - 1]
        <4> SUFFICES ASSUME NEW i \in 0..n, i # 0
                     PROVE  f[i] = IF i \in I THEN Append(f[i - 1], l[i]) ELSE f[i - 1]
          BY <2>5 DEF IsLoop
        <4>1. i \in 1..n
          BY <1>1
        <4> QED
          BY <2>5, <2>6, <4>1 DEF IsLoop
      <3> QED
        BY <1>0, <3>1, <3>2
    <2> QED
      BY <2>7
  <1>3. EqI(a)
    BY <1>2
  <1>4. \A f : EqI(f) => EqS(f)
    <2> SUFFICES ASSUME NEW f, EqI(f) PROVE EqS(f)
      OBVIOUS
    <2>1. \A i \in 0..Len(l) :
             (IF i = 0 THEN <<>> ELSE IF i \in I THEN Append(f[i - 1], l[i]) ELSE f[i - 1]) =
             (IF i = 0 THEN <<>> ELSE IF l[i] \in S THEN Append(f[i - 1], l[i]) ELSE f[i - 1])
      BY <1>0, <1>1
    <2> QED
      BY <2>1
  <1>5. EqS(b)
    BY <1>2, <1>4
  <1>6. ItemsAt(l, I) = a[n] /\ Select(l, S) = b[n]
    BY <1>0 DEF ItemsAt, Select
  <1> HIDE DEF a, b
  <1>7. EqS(a)
    BY <1>3, <1>4
  <1>8. ASSUME NEW f, EqS(f)
        PROVE  \A i \in 0..n : f[i] = IF i = 0 THEN <<>>
                  ELSE IF l[i] \in S THEN Append(f[i - 1], l[i]) ELSE f[i - 1]
    BY <1>0, <1>8
  <1> HIDE DEF EqI, EqS
  <1> DEFINE P == {i \in 0..n : a[i] = b[i]}
  <1>9. 0 \in P
    BY <1>1, <1>5, <1>7, <1>8
  <1>10. ASSUME NEW i \in 1..n, i - 1 \in P PROVE i \in P
    <2>1. i \in 0..n /\ i # 0 /\ a[i - 1] = b[i - 1]
      BY <1>1, <1>10
    <2> QED
      BY <1>5, <1>7, <1>8, <2>1
  <1>11. 0..n \subseteq P
    <2> HIDE DEF P
    <2> QED
      BY <1>1, <1>9, <1>10, IntervalInduction
  <1> QED
    BY <1>1, <1>6, <1>11

\* ProcessListFiltersInDict: for every list, exclusion list and sequence of patterns, an
\* item stays exactly when the last pattern that matches it includes it or, if none
\* does, when the exclusion list does not name it; the others go to the _excluded list,
\* and both lists keep the order.
THEOREM LastMatchDecides ==
    ASSUME NEW T, NEW l \in Seq(T), NEW excludes,
           NEW regexes \in Seq([matches : SUBSET T, action : {0, 1}]),
           NEW S, S = {s \in T : Stays(s, excludes, regexes)}
    PROVE  /\ Kept(l, excludes, regexes) = Select(l, S)
           /\ Excluded(l, excludes, regexes) = Select(l, T \ S)
  <1>1. PICK act : act = ListActions(l, excludes, regexes)
    OBVIOUS
  <1>2. \A i \in 1..Len(l) : act[i] # 0 <=> Stays(l[i], excludes, regexes)
    BY <1>1, ActionsFacts
  <1>3. DOMAIN l = 1..Len(l) /\ \A i \in 1..Len(l) : l[i] \in T
    OBVIOUS
  <1>4. /\ \A i \in 1..Len(l) : i \in {k \in DOMAIN l : act[k] # 0} <=> l[i] \in S
        /\ \A i \in 1..Len(l) : i \in {k \in DOMAIN l : act[k] = 0} <=> l[i] \in T \ S
    BY <1>2, <1>3
  <1>5. ItemsAt(l, {k \in DOMAIN l : act[k] # 0}) = Select(l, S)
    BY <1>4, ItemsAreSelected
  <1>6. ItemsAt(l, {k \in DOMAIN l : act[k] = 0}) = Select(l, T \ S)
    BY <1>4, ItemsAreSelected
  <1> QED
    BY <1>1, <1>5, <1>6 DEF Kept, Excluded

-----------------------------------------------------------------------------
(***************************************************************************)
(* The dictionaries that the build files give.                             *)
(***************************************************************************)
\* ProcessToolsets returns target dictionaries.
LEMMA ToolsetsFacts ==
    ASSUME NEW d, IsTargetDict(d), NEW r, r = ProcessToolsets(d)
    PROVE  DictList(r)
  <1>1. PICK toolsets : toolsets = IF project.multiple_toolsets THEN d.toolsets ELSE <<"target">>
    OBVIOUS
  <1>2. PICK n : n = Len(toolsets)
    OBVIOUS
  <1>3. n \in Nat
    <2>1. Len(d.toolsets) \in Nat
      BY DEF IsTargetDict, IsList
    <2> QED
      BY <1>1, <1>2, <2>1
  <1>4. CASE toolsets = <<>>
    <2>1. r = <<>>
      BY <1>1, <1>4 DEF ProcessToolsets
    <2> QED
      BY <2>1 DEF DictList, IsList
  <1>5. CASE toolsets # <<>>
    <2>1. r = [i \in 1..n |-> With(d, "toolset", toolsets[(i % n) + 1])]
      BY <1>1, <1>2, <1>5 DEF ProcessToolsets
    <2>2. ASSUME NEW i \in 1..n PROVE IsTargetDict(r[i])
      <3>1. r[i] = With(d, "toolset", toolsets[(i % n) + 1])
        BY <2>1
      <3>2. "toolset" \notin WrittenKeys
        BY DEF WrittenKeys
      <3> QED
        BY <3>1, <3>2, WithDict
    <2>3. DOMAIN r = 1..n
      BY <2>1
    <2>4. IsList(r)
      <3>0. PICK T : T = {r[i] : i \in 1..n}
        OBVIOUS
      <3>1. r \in Seq(T)
        <4>1. \A i \in 1..n : r[i] \in T
          BY <3>0
        <4>2. r = [i \in 1..n |-> r[i]]
          BY <2>1
        <4>3. r \in [1..n -> T]
          BY <4>1, <4>2
        <4> QED
          BY <1>3, <4>3
      <3> QED
        BY <3>1, ListOfSeq
    <2> QED
      BY <2>2, <2>3, <2>4 DEF DictList
  <1> QED
    BY <1>4, <1>5

\* Lists of any elements are concatenated.
LEMMA ConcatList ==
    ASSUME NEW n \in Nat, NEW g, \A i \in 1..n : IsList(g[i])
    PROVE  /\ \E f : Concats(f, n, g)
           /\ \A f : Concats(f, n, g) => Concatenated(f[n], n, g)
  <1>1. PICK T : T = UNION {ToSet(g[i]) : i \in 1..n}
    OBVIOUS
  <1>2. ASSUME NEW i \in 1..n PROVE g[i] \in Seq(T)
    <2>1. g[i] \in Seq(ToSet(g[i]))
      BY SeqOfList
    <2>2. ToSet(g[i]) \subseteq T
      BY <1>1
    <2> QED
      BY <2>1, <2>2, SeqWider
  <1> QED
    BY <1>2, ConcatLoop

\* What a build file holds after ProcessToolsets are target dictionaries.
LEMMA TargetsOfFacts ==
    ASSUME project \in Projects, NEW f \in Files, NEW r, r = TargetsOf(f)
    PROVE  DictList(r)
  <1>1. PICK l : l = project.files[f]
    OBVIOUS
  <1>2. PICK n : n = Len(l)
    OBVIOUS
  <1>3. IsList(l) /\ n \in Nat /\ DOMAIN l = 1..n /\ \A i \in 1..n : IsTargetDict(l[i])
    <2>1. IsList(l) /\ \A i \in DOMAIN l : IsTargetDict(l[i])
      BY <1>1, ProjectsAssumption DEF Files
    <2> QED
      BY <1>2, <2>1, SeqOfList
  <1>4. PICK g : g = [i \in 1..n |-> ProcessToolsets(l[i])]
    OBVIOUS
  <1>5. \A i \in 1..n : g[i] = ProcessToolsets(l[i]) /\ DictList(g[i])
    BY <1>3, <1>4, ToolsetsFacts
  <1>6. \A i \in 1..n : IsList(g[i])
    BY <1>5 DEF DictList
  <1> DEFINE Eq(h) == h = [i \in 0..Len(l) |-> IF i = 0 THEN <<>> ELSE h[i - 1] \o ProcessToolsets(l[i])]
             u == CHOOSE h : Eq(h)
  <1>7. \A i \in 0..n : i # 0 => i \in 1..n
    BY <1>3
  <1>8. \A h : Eq(h) <=> Concats(h, n, g)
    <2> SUFFICES ASSUME NEW h
                 PROVE  [i \in 0..n |-> IF i = 0 THEN <<>> ELSE h[i - 1] \o ProcessToolsets(l[i])]
                          = [i \in 0..n |-> IF i = 0 THEN <<>> ELSE h[i - 1] \o g[i]]
      BY <1>2 DEF Concats
    <2> QED
      BY <1>5, <1>7
  <1>9. \E h : Concats(h, n, g)
    BY <1>3, <1>6, ConcatList
  <1>10. Concats(u, n, g)
    <2> HIDE DEF Eq
    <2>1. Eq(u)
      BY <1>8, <1>9
    <2> QED
      BY <1>8, <2>1
  <1>11. r = u[n]
    BY <1>1, <1>2 DEF TargetsOf, Folded
  <1> HIDE DEF u
  <1>12. Concatenated(r, n, g)
    BY <1>3, <1>6, <1>10, <1>11, ConcatList
  <1>13. ASSUME NEW i \in DOMAIN r PROVE IsTargetDict(r[i])
    <2>1. r[i] \in ToSet(r)
      BY DEF ToSet
    <2>2. PICK j \in 1..n : r[i] \in ToSet(g[j])
      BY <1>12, <2>1 DEF Concatenated
    <2>3. PICK k \in DOMAIN g[j] : r[i] = g[j][k]
      BY <2>2 DEF ToSet
    <2> QED
      BY <1>5, <2>3 DEF DictList
  <1> QED
    BY <1>12, <1>13 DEF DictList, Concatenated

\* The stages of Load: before any settings are published, between the filters and the
\* graph, and once the targets have their nodes.
Unpublished ==
    {"qualify", "self", "wildcards", "links", "filters", "files", "flatten files", "graph",
     "flatten targets", "prune", "colliding", "all"}
Filtered == {"files", "flatten files", "graph"}
Listed == {"prune", "colliding", "all", "direct", "link", "adjust", "validate", "loaded"}
WithNodes == Listed \cup {"flatten targets"}
Adjusted == {"validate", "loaded"}

\* Every target has a dictionary that can be worked on, and there are finitely many.
Dicts == IsFiniteSet(DOMAIN targets) /\ \A t \in DOMAIN targets : IsTargetDict(targets[t])

\* No settings have been published yet.
AsWritten ==
    stage \in Unpublished =>
        \A t \in DOMAIN targets : /\ targets[t].flags = Original(t).flags
                                  /\ targets[t].settings = Original(t).settings

\* RemoveDuplicateDependencies has been there.
NoRepeats ==
    /\ stage \in Filtered =>
           \A t \in DOMAIN targets : Distinct(targets[t].dependencies)
    /\ stage \in Filtered \cup WithNodes =>
           \A t \in DOMAIN targets : Distinct(targets[t].exports)

\* The node of a target has the dependencies that the graph has, which are targets.
HasNode(t) ==
    /\ "node" \in DOMAIN targets[t] /\ IsList(targets[t].node) /\ Distinct(targets[t].node)
    /\ t \in DOMAIN nodes /\ nodes[t] = ToSet(targets[t].node)
    /\ nodes[t] \subseteq DOMAIN targets
NodesAreDependencies ==
    /\ stage \in WithNodes => \A t \in DOMAIN targets : HasNode(t)
    /\ stage \in WithNodes \ Adjusted =>
           \A t \in DOMAIN targets : targets[t].dependencies = targets[t].node

\* The list of FlattenToList, while it grows and when it is complete.
ListIsTargets ==
    /\ stage \in {"flatten files", "flatten targets"} => NothingForgotten
    /\ stage = "flatten targets" => DOMAIN nodes = DOMAIN targets
    /\ stage \in Listed => in_degree_zeros = {} /\ ToSet(flat_list) = DOMAIN targets

\* What is exported step by step are targets.
ExportsLeadTo(base, R) ==
    base \subseteq R /\ \A u \in R : ExportsOf[u] \subseteq R
ExportsFound ==
    stage \in {"link", "adjust"} =>
        \A t \in DOMAIN targets : \E R \in SUBSET DOMAIN targets : ExportsLeadTo(Graph[t], R)

OwnLink(t) == ToSet(targets[t].settings.link.flags)

\* The settings that have been published when those for all dependents are, and when
\* those for direct dependents are too.
AfterAll(t) ==
    /\ Flags(t) = ToSet(Original(t).flags) \cup AllFlags(Deep(t))
    /\ OwnLink(t) = LinkFlags(t) \cup AllLink(Deep(t))
    /\ targets[t].settings.direct = Original(t).settings.direct
AfterDirect(t) ==
    /\ Flags(t) = ToSet(Original(t).flags) \cup AllFlags(Deep(t)) \cup DirectFlags(Imported(t))
    /\ OwnLink(t) = LinkOf(t)

Published ==
    /\ stage = "direct" => \A t \in DOMAIN targets : AfterAll(t)
    /\ stage = "link" => \A t \in DOMAIN targets : AfterDirect(t)
    /\ SettingsReachTheirTargets

\* What AdjustStaticLibraryDependencies makes of the dependencies, deps[t] those of
\* target t: they are targets, they come earlier in the list, what is linked is there
\* and in order, and hard dependencies stay.
AreTargets(deps) == \A t \in DOMAIN targets : ToSet(deps[t]) \subseteq DOMAIN targets
ComeEarlier(deps) ==
    \A i \in DOMAIN flat_list :
        ToSet(deps[flat_list[i]]) \subseteq {flat_list[j] : j \in 1..(i - 1)}
\* The static libraries that are linked into t.
StaticStep(t) ==
    [u \in DOMAIN Graph |->
        IF u = t \/ targets[u].type = "static_library" THEN Graph[u] ELSE {}]
Needed(t) == {u \in Closure(Graph[t], StaticStep(t)) : targets[u].type = "static_library"}
LinksComplete(deps) ==
    \A t \in DOMAIN targets : targets[t].type \in LinkableTypes =>
        /\ Needed(t) \subseteq ToSet(deps[t])
        /\ project.sorted_dependencies =>
              \A i, j \in DOMAIN deps[t] : deps[t][i] \in Graph[deps[t][j]] => j < i
HardStay(deps) ==
    \A t \in DOMAIN targets : targets[t].type = "static_library" =>
        \A u \in Imported(t) :
            targets[u].hard_dependency /\ targets[u].type = "static_library"
                => u \in ToSet(deps[t])
SafeDependencies(deps) ==
    /\ AreTargets(deps)
    /\ (project.adjust_static_libraries => ExportsAreDependencies) => ComeEarlier(deps)
    /\ project.adjust_static_libraries => LinksComplete(deps) /\ HardStay(deps)
AdjustedSafely ==
    stage \in Adjusted => SafeDependencies([t \in DOMAIN targets |-> targets[t].dependencies])

LoadFacts ==
    /\ Dicts
    /\ ListInv
    /\ AsWritten
    /\ NoRepeats
    /\ NodesAreDependencies
    /\ ListIsTargets
    /\ ExportsFound
    /\ Published
    /\ AdjustedSafely

LoadInv == project \in Projects /\ LoadFacts

\* The dictionary that BuildTargetsDict enters for a target is the one written for it.
LEMMA TargetDictFacts ==
    ASSUME project \in Projects, NEW t \in AllTargets
    PROVE  /\ IsTargetDict(TargetDict(t))
           /\ ~DuplicateTarget => TargetDict(t) = Original(t)
  <1>1. PICK f \in Files : \E i \in DOMAIN TargetsOf(f) : t = QualifiedTarget(f, TargetsOf(f)[i])
    BY DEF AllTargets
  <1>2. PICK l : l = TargetsOf(f)
    OBVIOUS
  <1>3. DictList(l)
    BY <1>2, TargetsOfFacts
  <1>4. PICK i \in DOMAIN l : QualifiedTarget(f, l[i]) = t
    BY <1>1, <1>2
  <1>5. t[1] = f
    BY <1>4 DEF QualifiedTarget
  <1>6. PICK k : k = CHOOSE j \in DOMAIN l : QualifiedTarget(f, l[j]) = t
    OBVIOUS
  <1>7. k \in DOMAIN l /\ QualifiedTarget(f, l[k]) = t
    BY <1>4, <1>6
  <1>8. TargetDict(t) = l[k]
    BY <1>2, <1>5, <1>6 DEF TargetDict
  <1>9. ASSUME ~DuplicateTarget PROVE Original(t) = l[k]
    <2>1. PICK d : d = CHOOSE x \in ToSet(l) : QualifiedTarget(f, x) = t
      OBVIOUS
    <2>2. Original(t) = d
      BY <1>2, <1>5, <2>1 DEF Original
    <2>3. l[k] \in ToSet(l)
      BY <1>7 DEF ToSet
    <2>4. d \in ToSet(l) /\ QualifiedTarget(f, d) = t
      BY <1>7, <2>1, <2>3
    <2>5. PICK j \in DOMAIN l : d = l[j]
      BY <2>4 DEF ToSet
    <2>6. j = k
      BY <1>2, <1>7, <1>9, <2>4, <2>5 DEF DuplicateTarget
    <2> QED
      BY <2>2, <2>5, <2>6
  <1> QED
    BY <1>3, <1>7, <1>8, <1>9 DEF DictList

\* The image of a finite set is finite, and so there are finitely many targets.
LEMMA FiniteImage ==
    ASSUME NEW S, IsFiniteSet(S), NEW f, NEW T, T = {f[x] : x \in S}
    PROVE  IsFiniteSet(T)
  <1>1. PICK g : g = [x \in S |-> f[x]]
    OBVIOUS
  <1>2. g \in [S -> T] /\ \A y \in T : \E x \in S : g[x] = y
    BY <1>1
  <1>3. g \in Surjection(S, T)
    BY <1>2 DEF Surjection
  <1> QED
    BY <1>3, FS_Surjection

LEMMA AllTargetsFinite ==
    ASSUME project \in Projects
    PROVE  IsFiniteSet(AllTargets)
  <1>1. PICK g : g = [f \in Files |-> {QualifiedTarget(f, TargetsOf(f)[i]) : i \in DOMAIN TargetsOf(f)}]
    OBVIOUS
  <1>2. ASSUME NEW f \in Files PROVE IsFiniteSet(g[f])
    <2>1. PICK l : l = TargetsOf(f)
      OBVIOUS
    <2>2. IsList(l)
      BY <2>1, TargetsOfFacts DEF DictList
    <2>3. DOMAIN l = 1..Len(l) /\ Len(l) \in Nat
      BY <2>2, SeqOfList
    <2>4. IsFiniteSet(1..Len(l))
      BY <2>3, FS_Interval
    <2>5. PICK h : h = [i \in 1..Len(l) |-> QualifiedTarget(f, l[i])]
      OBVIOUS
    <2>6. g[f] = {h[i] : i \in 1..Len(l)}
      BY <1>1, <2>1, <2>3, <2>5
    <2> QED
      BY <2>4, <2>6, FiniteImage
  <1>3. IsFiniteSet(Files)
    BY ProjectsAssumption DEF Files
  <1>4. IsFiniteSet({g[f] : f \in Files})
    BY <1>3, FiniteImage
  <1>5. IsFiniteSet(UNION {g[f] : f \in Files})
    BY <1>2, <1>4, FS_UNION
  <1>6. AllTargets = UNION {g[f] : f \in Files}
    BY <1>1 DEF AllTargets
  <1> QED
    BY <1>5, <1>6

-----------------------------------------------------------------------------
(***************************************************************************)
(* The stages before the graph.                                            *)
(***************************************************************************)
\* What the build files say of a target does not change.
LEMMA OriginalStays ==
    ASSUME project' = project
    PROVE  \A t : Original(t)' = Original(t)
  BY DEF Original, TargetsOf, QualifiedTarget, ProcessToolsets, Folded, With

\* A step that leaves the graph alone.
LEMMA GraphStays ==
    ASSUME UNCHANGED graphVars
    PROVE  (ListInv => ListInv') /\ (NothingForgotten => NothingForgotten')
  BY DEF graphVars, ListInv, IsGraph, Ready, NothingForgotten, DependenciesComeFirst

\* The stages of which little is said.
Early == {"failed", "qualify", "self", "wildcards", "links", "filters"}
\* What is to be shown of a step to a stage before the filters.
LEMMA EarlyInv ==
    ASSUME stage' \in Early, project' \in Projects, Dicts', ListInv', AsWritten'
    PROVE  LoadInv'
  <1>1. stage' \notin Filtered \cup WithNodes /\ stage' \notin Adjusted
    BY DEF Early, Filtered, WithNodes, Listed, Adjusted
  <1>2. NoRepeats' /\ NodesAreDependencies' /\ ListIsTargets' /\ ExportsFound' /\ Published'
    BY <1>1 DEF Early, NoRepeats, NodesAreDependencies, ListIsTargets, ExportsFound, Published,
                SettingsReachTheirTargets, WithNodes, Listed
  <1>3. AdjustedSafely'
    BY <1>1 DEF AdjustedSafely
  <1> QED
    BY <1>2, <1>3 DEF LoadInv, LoadFacts

\* A step that ends Load with an error.
LEMMA FailInv ==
    ASSUME LoadInv, NEW what, Fail(what)
    PROVE  LoadInv'
  <1>1. /\ stage' = "failed" /\ project' = project /\ targets' = targets
        /\ UNCHANGED graphVars
    BY DEF Fail
  <1>2. ListInv' /\ Dicts'
    BY <1>1, GraphStays DEF LoadInv, LoadFacts, Dicts
  <1>3. AsWritten'
    BY <1>1 DEF AsWritten, Unpublished
  <1>4. stage' \in Early /\ project' \in Projects
    BY <1>1 DEF Early, LoadInv
  <1> QED
    BY <1>2, <1>3, <1>4, EarlyInv

\* A step that changes at most the dependency sections of the targets.
SectionsChanged ==
    /\ DOMAIN targets' = DOMAIN targets
    /\ \A t \in DOMAIN targets :
          /\ DOMAIN targets'[t] = DOMAIN targets[t]
          /\ \A k \in DOMAIN targets[t] \ {"dependencies", "exports", "excluded", "exports_excluded"} :
                targets'[t][k] = targets[t][k]
          /\ IsList(targets'[t].dependencies) /\ IsList(targets'[t].exports)
          /\ IsList(targets'[t].excluded) /\ IsList(targets'[t].exports_excluded)

\* A step that changes dependency sections only.
LEMMA SectionsInv ==
    ASSUME Dicts, SectionsChanged, project' = project
    PROVE  /\ Dicts'
           /\ stage \in Unpublished /\ AsWritten => AsWritten'
  <1>1. ASSUME NEW t \in DOMAIN targets
        PROVE  /\ IsTargetDict(targets'[t])
               /\ targets'[t].flags = targets[t].flags
               /\ targets'[t].settings = targets[t].settings
    <2>1. PICK d, e : d = targets[t] /\ e = targets'[t]
      OBVIOUS
    <2>2. IsTargetDict(d)
      BY <2>1 DEF Dicts
    <2>3. /\ DOMAIN e = DOMAIN d
          /\ \A k \in DOMAIN d \ {"dependencies", "exports", "excluded", "exports_excluded"} : e[k] = d[k]
          /\ IsList(e.dependencies) /\ IsList(e.exports)
          /\ IsList(e.excluded) /\ IsList(e.exports_excluded)
      BY <2>1 DEF SectionsChanged
    <2>4. WrittenKeys \subseteq DOMAIN d
      BY <2>2 DEF IsTargetDict
    <2>5. e.toolsets = d.toolsets /\ e.flags = d.flags /\ e.settings = d.settings
      BY <2>3, <2>4 DEF WrittenKeys
    <2>6. IsTargetDict(e)
      BY <2>2, <2>3, <2>4, <2>5 DEF IsTargetDict
    <2> QED
      BY <2>1, <2>5, <2>6
  <1>2. Dicts'
    BY <1>1 DEF Dicts, SectionsChanged
  <1>3. ASSUME stage \in Unpublished, AsWritten PROVE AsWritten'
    BY <1>1, <1>3, OriginalStays DEF AsWritten, SectionsChanged
  <1> QED
    BY <1>2, <1>3

\* A step that writes dependencies and exports.
LEMMA TwoSections ==
    ASSUME Dicts, NEW a, NEW b, \A t \in DOMAIN targets : IsList(a[t]) /\ IsList(b[t]),
           targets' = [t \in DOMAIN targets |->
                         [targets[t] EXCEPT !.dependencies = a[t], !.exports = b[t]]]
    PROVE  /\ SectionsChanged
           /\ \A t \in DOMAIN targets :
                 targets'[t].dependencies = a[t] /\ targets'[t].exports = b[t]
  <1>1. DOMAIN targets' = DOMAIN targets
    OBVIOUS
  <1>2. ASSUME NEW t \in DOMAIN targets
        PROVE  /\ DOMAIN targets'[t] = DOMAIN targets[t]
               /\ \A k \in DOMAIN targets[t] \ {"dependencies", "exports", "excluded", "exports_excluded"} :
                     targets'[t][k] = targets[t][k]
               /\ targets'[t].dependencies = a[t] /\ targets'[t].exports = b[t]
               /\ IsList(targets'[t].excluded) /\ IsList(targets'[t].exports_excluded)
    <2>1. PICK d, e : d = targets[t] /\ e = targets'[t]
      OBVIOUS
    <2>2. WrittenKeys \subseteq DOMAIN d /\ IsList(d.excluded) /\ IsList(d.exports_excluded)
      BY <2>1 DEF Dicts, IsTargetDict
    <2>3. e = [d EXCEPT !.dependencies = a[t], !.exports = b[t]]
      BY <2>1
    <2>4. /\ DOMAIN e = DOMAIN d /\ e.dependencies = a[t] /\ e.exports = b[t]
          /\ \A k \in DOMAIN d \ {"dependencies", "exports"} : e[k] = d[k]
      BY <2>2, <2>3 DEF WrittenKeys
    <2>5. e.excluded = d.excluded /\ e.exports_excluded = d.exports_excluded
      BY <2>2, <2>4 DEF WrittenKeys
    <2> QED
      BY <2>1, <2>2, <2>4, <2>5
  <1> QED
    BY <1>1, <1>2 DEF SectionsChanged

\* The first step of Load makes the dictionaries.
LEMMA BuildDictInv ==
    ASSUME LoadInv, BuildTargetsDict
    PROVE  LoadInv'
  <1>1. CASE DuplicateTarget
    BY <1>1, FailInv DEF BuildTargetsDict
  <1>2. CASE ~DuplicateTarget
    <2>1. /\ targets' = [t \in AllTargets |-> TargetDict(t)]
          /\ stage' = "qualify" /\ project' = project /\ UNCHANGED graphVars
      BY <1>2 DEF BuildTargetsDict, Proceed
    <2>2. project \in Projects /\ ListInv
      BY DEF LoadInv, LoadFacts
    <2>3. ListInv'
      BY <2>1, <2>2, GraphStays
    <2>4. \A t \in AllTargets : IsTargetDict(TargetDict(t)) /\ TargetDict(t) = Original(t)
      BY <1>2, <2>2, TargetDictFacts
    <2>5. \A t \in AllTargets : targets'[t] = TargetDict(t)
      BY <2>1
    <2>6. DOMAIN targets' = AllTargets
      BY <2>1
    <2>7. Dicts'
      BY <2>2, <2>4, <2>5, <2>6, AllTargetsFinite DEF Dicts
    <2>8. AsWritten'
      BY <2>1, <2>4, <2>5, <2>6, OriginalStays DEF AsWritten
    <2>9. stage' \in Early
      BY <2>1 DEF Early
    <2> QED
      BY <2>1, <2>2, <2>3, <2>7, <2>8, <2>9, EarlyInv
  <1> QED
    BY <1>1, <1>2

\* A step of the stages before the filters that changes dependency sections only.
LEMMA SectionStage ==
    ASSUME LoadInv, SectionsChanged, UNCHANGED graphVars, project' = project,
           stage \in Unpublished, stage' \in Early
    PROVE  LoadInv'
  <1>1. Dicts /\ ListInv /\ AsWritten /\ project \in Projects
    BY DEF LoadInv, LoadFacts
  <1>2. Dicts' /\ AsWritten' /\ ListInv'
    BY <1>1, SectionsInv, GraphStays
  <1> QED
    BY <1>1, <1>2, EarlyInv

\* A section with qualified names is a list, and QualifyDependencies keeps the invariant.
LEMMA QualifiedIsList ==
    ASSUME NEW t, NEW l, IsList(l)
    PROVE  IsList(QualifiedList(t, l))
  <1>1. PICK r : r = QualifiedList(t, l)
    OBVIOUS
  <1>2. Len(l) \in Nat /\ DOMAIN l = 1..Len(l)
    BY SeqOfList
  <1>3. DOMAIN r = 1..Len(l) /\ r = [i \in 1..Len(l) |-> r[i]]
    BY <1>1, <1>2 DEF QualifiedList
  <1>4. PICK T : T = {r[i] : i \in 1..Len(l)}
    OBVIOUS
  <1>5. r \in [1..Len(l) -> T]
    BY <1>3, <1>4
  <1>6. r \in Seq(T)
    BY <1>2, <1>5
  <1> QED
    BY <1>1, <1>6, ListOfSeq

LEMMA QualifyInv ==
    ASSUME LoadInv, QualifyDependencies
    PROVE  LoadInv'
  <1>1. CASE NotInDependencies \/ HasPatterns
    BY <1>1, FailInv DEF QualifyDependencies
  <1>2. CASE ~(NotInDependencies \/ HasPatterns)
    <2>1. /\ targets' = [t \in DOMAIN targets |->
                 [targets[t] EXCEPT !.dependencies = QualifiedList(t, @),
                                    !.excluded = QualifiedList(t, @),
                                    !.exports_excluded = QualifiedList(t, @),
                                    !.exports = QualifiedList(t, @)]]
          /\ stage = "qualify" /\ stage' = "self" /\ project' = project /\ UNCHANGED graphVars
      BY <1>2 DEF QualifyDependencies, Proceed
    <2>2. Dicts
      BY DEF LoadInv, LoadFacts
    <2>3. ASSUME NEW t \in DOMAIN targets
          PROVE  /\ DOMAIN targets'[t] = DOMAIN targets[t]
                 /\ \A k \in DOMAIN targets[t] \ {"dependencies", "exports", "excluded", "exports_excluded"} :
                       targets'[t][k] = targets[t][k]
                 /\ IsList(targets'[t].dependencies) /\ IsList(targets'[t].exports)
                 /\ IsList(targets'[t].excluded) /\ IsList(targets'[t].exports_excluded)
      <3>1. PICK d, e : d = targets[t] /\ e = targets'[t]
        OBVIOUS
      <3>2. /\ WrittenKeys \subseteq DOMAIN d
            /\ IsList(d.dependencies) /\ IsList(d.exports)
            /\ IsList(d.excluded) /\ IsList(d.exports_excluded)
        BY <2>2, <3>1 DEF Dicts, IsTargetDict
      <3>3. PICK a, b, c, x : /\ a = QualifiedList(t, d.dependencies)
                              /\ b = QualifiedList(t, d.exports)
                              /\ c = QualifiedList(t, d.excluded)
                              /\ x = QualifiedList(t, d.exports_excluded)
        OBVIOUS
      <3>4. IsList(a) /\ IsList(b) /\ IsList(c) /\ IsList(x)
        BY <3>2, <3>3, QualifiedIsList
      <3>5. e = [d EXCEPT !.dependencies = a, !.excluded = c, !.exports_excluded = x, !.exports = b]
        BY <2>1, <3>1, <3>2, <3>3 DEF WrittenKeys
      <3>6. /\ DOMAIN e = DOMAIN d /\ e.dependencies = a /\ e.exports = b /\ e.excluded = c
            /\ e.exports_excluded = x
            /\ \A k \in DOMAIN d \ {"dependencies", "exports", "excluded", "exports_excluded"} : e[k] = d[k]
        BY <3>2, <3>5 DEF WrittenKeys
      <3> QED
        BY <3>1, <3>4, <3>6
    <2>4. SectionsChanged
      BY <2>1, <2>3 DEF SectionsChanged
    <2>5. stage \in Unpublished /\ stage' \in Early
      BY <2>1 DEF Unpublished, Early
    <2> QED
      BY <2>1, <2>4, <2>5, SectionStage
  <1> QED
    BY <1>1, <1>2

\* A step of one of the stages that change the two dependency sections.
LEMMA TwoSectionsStage ==
    ASSUME LoadInv, NEW a, NEW b, \A t \in DOMAIN targets : IsList(a[t]) /\ IsList(b[t]),
           targets' = [t \in DOMAIN targets |->
                         [targets[t] EXCEPT !.dependencies = a[t], !.exports = b[t]]],
           UNCHANGED graphVars, project' = project, stage \in Unpublished, stage' \in Early
    PROVE  LoadInv'
  <1>1. Dicts
    BY DEF LoadInv, LoadFacts
  <1>2. SectionsChanged
    BY <1>1, TwoSections
  <1> QED
    BY <1>2, SectionStage

\* What is known of the dictionary of a target.
LEMMA ListsOf ==
    ASSUME LoadInv, NEW t \in DOMAIN targets
    PROVE  /\ IsTargetDict(targets[t])
           /\ IsList(targets[t].dependencies) /\ IsList(targets[t].exports)
           /\ IsList(targets[t].excluded) /\ IsList(targets[t].exports_excluded)
           /\ {"dependencies", "exports", "excluded", "exports_excluded", "flags", "settings"} \subseteq DOMAIN targets[t]
  BY DEF LoadInv, LoadFacts, Dicts, IsTargetDict, WrittenKeys

\* A selection from a list is a list; RemoveSelfDependencies selects.
LEMMA SelectIsList ==
    ASSUME NEW l, IsList(l), NEW S
    PROVE  IsList(Select(l, S)) /\ ToSet(Select(l, S)) = ToSet(l) \cap S
  <1>1. l \in Seq(ToSet(l))
    BY SeqOfList
  <1>2. Select(l, S) \in Seq(ToSet(l)) /\ ToSet(Select(l, S)) = ToSet(l) \cap S
    BY <1>1, SelectSet
  <1> QED
    BY <1>2, ListOfSeq

LEMMA SelfInv ==
    ASSUME LoadInv, RemoveSelfDependencies
    PROVE  LoadInv'
  <1> DEFINE Change(t, l) == IF targets[t].prune_self_dependency THEN Filter(l, t) ELSE l
  <1>1. PICK a, b : /\ a = [t \in DOMAIN targets |-> Change(t, targets[t].dependencies)]
                    /\ b = [t \in DOMAIN targets |-> Change(t, targets[t].exports)]
    OBVIOUS
  <1>2. targets' = [t \in DOMAIN targets |->
                      [targets[t] EXCEPT !.dependencies = Change(t, @), !.exports = Change(t, @)]]
    BY DEF RemoveSelfDependencies, ChangeSections
  <1>3. ASSUME NEW t, NEW l, IsList(l) PROVE IsList(Change(t, l))
    BY <1>3, SelectIsList DEF Filter
  <1> HIDE DEF Change
  <1>4. \A t \in DOMAIN targets : IsList(a[t]) /\ IsList(b[t])
    BY <1>1, <1>3, ListsOf
  <1>5. \A t \in DOMAIN targets :
            [targets[t] EXCEPT !.dependencies = Change(t, @), !.exports = Change(t, @)] =
            [targets[t] EXCEPT !.dependencies = a[t], !.exports = b[t]]
    BY <1>1, ListsOf
  <1>6. targets' = [t \in DOMAIN targets |->
                      [targets[t] EXCEPT !.dependencies = a[t], !.exports = b[t]]]
    BY <1>2, <1>5
  <1>7. /\ UNCHANGED graphVars /\ project' = project
        /\ stage \in Unpublished /\ stage' \in Early
    BY DEF RemoveSelfDependencies, Proceed, Unpublished, Early
  <1> QED
    BY <1>4, <1>6, <1>7, TwoSectionsStage

\* What a wildcard stands for is a list of the targets of a build file.
LEMMA ExpandedIsList ==
    ASSUME project \in Projects, NEW dep, dep[1] \in Files
    PROVE  IsList(Expanded(dep))
  <1> DEFINE S == {d \in ToSet(TargetsOf(dep[1])) : /\ ~d.suppress_wildcard
                                                    /\ dep[2] \in {"*", d.name}
                                                    /\ dep[3] \in {"*", d.toolset}}
             found == Select(TargetsOf(dep[1]), S)
  <1>1. Expanded(dep) = [i \in DOMAIN found |-> QualifiedTarget(dep[1], found[i])]
    BY DEF Expanded
  <1>2. IsList(TargetsOf(dep[1]))
    BY TargetsOfFacts DEF DictList
  <1> HIDE DEF S
  <1>3. IsList(found)
    BY <1>2, SelectIsList
  <1>4. PICK n : n = Len(found)
    OBVIOUS
  <1>5. n \in Nat /\ DOMAIN found = 1..n
    BY <1>3, <1>4, SeqOfList
  <1> HIDE DEF found
  <1>6. PICK r : r = [i \in 1..n |-> QualifiedTarget(dep[1], found[i])]
    OBVIOUS
  <1>7. PICK T : T = {r[i] : i \in 1..n}
    OBVIOUS
  <1>8. r \in [1..n -> T]
    BY <1>6, <1>7
  <1>9. r \in Seq(T)
    BY <1>5, <1>8
  <1>10. IsList(r)
    BY <1>9, ListOfSeq
  <1> QED
    BY <1>1, <1>5, <1>6, <1>10

\* What the wildcards of a list become.
ExpandedList(l) ==
    Folded(LAMBDA out, dep : out \o (IF IsWildcard(dep) THEN Expanded(dep) ELSE <<dep>>), <<>>, l)

\* A section whose wildcards are expanded is a list.
LEMMA ExpandedListIsList ==
    ASSUME project \in Projects, NEW l, IsList(l),
           \A dep \in ToSet(l) : IsWildcard(dep) => dep[1] \in Files
    PROVE  IsList(ExpandedList(l))
  <1> DEFINE Out(dep) == IF IsWildcard(dep) THEN Expanded(dep) ELSE <<dep>>
  <1>1. PICK n : n = Len(l)
    OBVIOUS
  <1>2. n \in Nat /\ DOMAIN l = 1..n /\ ToSet(l) = {l[i] : i \in 1..n}
    BY <1>1, SeqOfList
  <1>3. ASSUME NEW dep \in ToSet(l) PROVE IsList(Out(dep))
    <2>1. CASE IsWildcard(dep)
      BY <1>3, <2>1, ExpandedIsList
    <2>2. CASE ~IsWildcard(dep)
      <3>1. <<dep>> \in Seq({dep})
        OBVIOUS
      <3>2. IsList(<<dep>>)
        BY <3>1, ListOfSeq
      <3> QED
        BY <2>2, <3>2
    <2> QED
      BY <2>1, <2>2
  <1> DEFINE Eq(h) == h = [i \in 0..Len(l) |-> IF i = 0 THEN <<>> ELSE h[i - 1] \o Out(l[i])]
             u == CHOOSE h : Eq(h)
  <1>4. ExpandedList(l) = u[n]
    BY <1>1 DEF ExpandedList, Folded
  <1> HIDE DEF Out
  <1>5. PICK g : g = [i \in 1..n |-> Out(l[i])]
    OBVIOUS
  <1>6. \A i \in 1..n : g[i] = Out(l[i]) /\ IsList(g[i])
    BY <1>2, <1>3, <1>5
  <1>7. \A i \in 0..n : i # 0 => i \in 1..n
    BY <1>2
  <1>8. \A h : Eq(h) <=> Concats(h, n, g)
    <2> SUFFICES ASSUME NEW h
                 PROVE  [i \in 0..n |-> IF i = 0 THEN <<>> ELSE h[i - 1] \o Out(l[i])]
                          = [i \in 0..n |-> IF i = 0 THEN <<>> ELSE h[i - 1] \o g[i]]
      BY <1>1 DEF Concats
    <2> QED
      BY <1>6, <1>7
  <1>9. \E h : Concats(h, n, g)
    BY <1>2, <1>6, ConcatList
  <1>10. Concats(u, n, g)
    <2> HIDE DEF Eq
    <2>1. Eq(u)
      BY <1>8, <1>9
    <2> QED
      BY <1>8, <2>1
  <1> HIDE DEF u
  <1>11. Concatenated(u[n], n, g)
    BY <1>2, <1>6, <1>10, ConcatList
  <1> QED
    BY <1>4, <1>11 DEF Concatenated

\* ExpandWildcardDependencies keeps the invariant.
LEMMA WildcardsInv ==
    ASSUME LoadInv, ExpandWildcardDependencies
    PROVE  LoadInv'
  <1>1. CASE WrongWildcard
    BY <1>1, FailInv DEF ExpandWildcardDependencies
  <1>2. CASE ~WrongWildcard
    <2>1. PICK a, b : /\ a = [t \in DOMAIN targets |-> ExpandedList(targets[t].dependencies)]
                      /\ b = [t \in DOMAIN targets |-> ExpandedList(targets[t].exports)]
      OBVIOUS
    <2>2. targets' = [t \in DOMAIN targets |->
                        [targets[t] EXCEPT !.dependencies = ExpandedList(@),
                                           !.exports = ExpandedList(@)]]
      BY <1>2 DEF ExpandWildcardDependencies, ChangeSections, ExpandedList
    <2>3. \A t \in DOMAIN targets : IsList(a[t]) /\ IsList(b[t])
      <3> SUFFICES ASSUME NEW t \in DOMAIN targets
                   PROVE  /\ IsList(ExpandedList(targets[t].dependencies))
                          /\ IsList(ExpandedList(targets[t].exports))
        BY <2>1
      <3>1. \A dep \in ToSet(targets[t].dependencies) \cup ToSet(targets[t].exports) :
               IsWildcard(dep) => dep[1] \in Files
        BY <1>2 DEF WrongWildcard
      <3>2. project \in Projects
        BY DEF LoadInv
      <3> QED
        BY <3>1, <3>2, ListsOf, ExpandedListIsList
    <2>4. \A t \in DOMAIN targets :
              [targets[t] EXCEPT !.dependencies = ExpandedList(@), !.exports = ExpandedList(@)] =
              [targets[t] EXCEPT !.dependencies = a[t], !.exports = b[t]]
      BY <2>1, ListsOf
    <2>5. targets' = [t \in DOMAIN targets |->
                        [targets[t] EXCEPT !.dependencies = a[t], !.exports = b[t]]]
      BY <2>2, <2>4
    <2>6. /\ UNCHANGED graphVars /\ project' = project
          /\ stage \in Unpublished /\ stage' \in Early
      BY <1>2 DEF ExpandWildcardDependencies, Proceed, Unpublished, Early
    <2> QED
      BY <2>3, <2>5, <2>6, TwoSectionsStage
  <1> QED
    BY <1>1, <1>2

\* RemoveLinkDependenciesFromNoneTargets keeps the invariant.
LEMMA LinksInv ==
    ASSUME LoadInv, RemoveLinkDependenciesFromNoneTargets
    PROVE  LoadInv'
  <1> DEFINE none == {t \in DOMAIN targets : targets[t].type = "none"}
             missing == \E t \in none :
                          ~(ToSet(targets[t].dependencies) \cup ToSet(targets[t].exports)
                              \subseteq DOMAIN targets)
             Change(t, l) == IF t \notin none THEN l
                             ELSE Select(l, {dep \in ToSet(l) : ~targets[dep].link_dependency})
  <1>1. CASE missing
    <2>1. Fail("dependency not found")
      BY <1>1 DEF RemoveLinkDependenciesFromNoneTargets
    <2> QED
      BY <2>1, FailInv
  <1>2. CASE ~missing
    <2>1. PICK a, b : /\ a = [t \in DOMAIN targets |-> Change(t, targets[t].dependencies)]
                      /\ b = [t \in DOMAIN targets |-> Change(t, targets[t].exports)]
      OBVIOUS
    <2>2. targets' = [t \in DOMAIN targets |->
                        [targets[t] EXCEPT !.dependencies = Change(t, @), !.exports = Change(t, @)]]
      BY <1>2 DEF RemoveLinkDependenciesFromNoneTargets, ChangeSections
    <2>3. ASSUME NEW t, NEW l, IsList(l) PROVE IsList(Change(t, l))
      BY <2>3, SelectIsList
    <2>4. /\ UNCHANGED graphVars /\ project' = project
          /\ stage \in Unpublished /\ stage' \in Early
      BY <1>2 DEF RemoveLinkDependenciesFromNoneTargets, Proceed, Unpublished, Early
    <2> HIDE DEF Change, none, missing
    <2>5. \A t \in DOMAIN targets : IsList(a[t]) /\ IsList(b[t])
      BY <2>1, <2>3, ListsOf
    <2>6. \A t \in DOMAIN targets :
              [targets[t] EXCEPT !.dependencies = Change(t, @), !.exports = Change(t, @)] =
              [targets[t] EXCEPT !.dependencies = a[t], !.exports = b[t]]
      BY <2>1, ListsOf
    <2>7. targets' = [t \in DOMAIN targets |->
                        [targets[t] EXCEPT !.dependencies = a[t], !.exports = b[t]]]
      BY <2>2, <2>6
    <2> QED
      BY <2>4, <2>5, <2>7, TwoSectionsStage
  <1> QED
    BY <1>1, <1>2

\* What is to be shown of a step to a stage after the filters and before the graph.
LEMMA FilteredInv ==
    ASSUME stage' \in Filtered, project' \in Projects, Dicts', ListInv', AsWritten', NoRepeats',
           stage' = "flatten files" => NothingForgotten'
    PROVE  LoadInv'
  <1>1. stage' \notin WithNodes /\ stage' \notin Adjusted /\ stage' \notin Listed
    BY DEF Filtered, WithNodes, Listed, Adjusted
  <1>2. stage' \notin {"direct", "link", "adjust", "flatten targets", "colliding"}
    BY DEF Filtered
  <1>3. NodesAreDependencies' /\ ListIsTargets' /\ ExportsFound' /\ Published'
    BY <1>1, <1>2 DEF NodesAreDependencies, ListIsTargets, ExportsFound, Published,
                SettingsReachTheirTargets
  <1>4. AdjustedSafely'
    BY <1>1, <1>2 DEF AdjustedSafely
  <1> QED
    BY <1>3, <1>4 DEF LoadInv, LoadFacts

\* A section without repetitions is a list.
LEMMA UnifyIsList ==
    ASSUME NEW l, IsList(l)
    PROVE  IsList(Unify(l)) /\ ToSet(Unify(l)) = ToSet(l) /\ Distinct(Unify(l))
  <1>1. l \in Seq(ToSet(l))
    BY SeqOfList
  <1>2. /\ Unify(l) \in Seq(ToSet(l)) /\ ToSet(Unify(l)) = ToSet(l)
        /\ Distinct(Unify(l))
    BY <1>1, UnifyFacts
  <1> QED
    BY <1>2, ListOfSeq

\* What the filters keep is a list; FilterDependencies keeps the invariant.
LEMMA KeptIsList ==
    ASSUME NEW l, IsList(l), NEW excludes, NEW regexes
    PROVE  IsList(Kept(l, excludes, regexes))
  <1>1. l \in Seq(ToSet(l))
    BY SeqOfList
  <1>2. Kept(l, excludes, regexes) \in Seq(ToSet(l))
    BY <1>1, ItemsAtFacts DEF Kept
  <1> QED
    BY <1>2, ListOfSeq

LEMMA FilterInv ==
    ASSUME LoadInv, FilterDependencies
    PROVE  LoadInv'
  <1>1. PICK a, b :
          /\ a = [t \in DOMAIN targets |->
                    Unify(Kept(targets[t].dependencies, targets[t].excluded, <<>>))]
          /\ b = [t \in DOMAIN targets |->
                    Unify(Kept(targets[t].exports, targets[t].exports_excluded, <<>>))]
    OBVIOUS
  <1>2. ASSUME NEW t \in DOMAIN targets
        PROVE  IsList(a[t]) /\ IsList(b[t]) /\ Distinct(a[t]) /\ Distinct(b[t])
    <2>1. /\ IsList(Kept(targets[t].dependencies, targets[t].excluded, <<>>))
          /\ IsList(Kept(targets[t].exports, targets[t].exports_excluded, <<>>))
      BY ListsOf, KeptIsList
    <2> QED
      BY <1>1, <2>1, UnifyIsList
  <1>3. targets' = [t \in DOMAIN targets |->
          [targets[t] EXCEPT !.dependencies = Unify(Kept(@, targets[t].excluded, <<>>)),
                             !.exports = Unify(Kept(@, targets[t].exports_excluded, <<>>))]]
    BY DEF FilterDependencies
  <1>4. \A t \in DOMAIN targets :
          [targets[t] EXCEPT !.dependencies = Unify(Kept(@, targets[t].excluded, <<>>)),
                             !.exports = Unify(Kept(@, targets[t].exports_excluded, <<>>))] =
          [targets[t] EXCEPT !.dependencies = a[t], !.exports = b[t]]
    BY <1>1, ListsOf
  <1>5. targets' = [t \in DOMAIN targets |->
                      [targets[t] EXCEPT !.dependencies = a[t], !.exports = b[t]]]
    BY <1>3, <1>4
  <1>6. Dicts /\ ListInv /\ AsWritten /\ project \in Projects
    BY DEF LoadInv, LoadFacts
  <1>7. /\ SectionsChanged
        /\ \A t \in DOMAIN targets :
              targets'[t].dependencies = a[t] /\ targets'[t].exports = b[t]
    <2>1. \A t \in DOMAIN targets : IsList(a[t]) /\ IsList(b[t])
      BY <1>2
    <2>2. SectionsChanged
      BY <1>5, <1>6, <2>1, TwoSections
    <2>3. ASSUME NEW t \in DOMAIN targets
          PROVE  targets'[t].dependencies = a[t] /\ targets'[t].exports = b[t]
      <3>1. targets'[t] = [targets[t] EXCEPT !.dependencies = a[t], !.exports = b[t]]
        BY <1>5
      <3> QED
        BY <3>1, ListsOf
    <2> QED
      BY <2>2, <2>3
  <1>8. /\ UNCHANGED graphVars /\ project' = project
        /\ stage \in Unpublished /\ stage' \in {"files", "graph"}
    BY DEF FilterDependencies, Proceed, Unpublished
  <1>9. Dicts' /\ AsWritten' /\ ListInv'
    BY <1>6, <1>7, <1>8, SectionsInv, GraphStays
  <1>10. NoRepeats'
    BY <1>2, <1>7, <1>8 DEF NoRepeats, SectionsChanged, Filtered, WithNodes, Listed
  <1>11. stage' \in Filtered /\ stage' # "flatten files"
    BY <1>8 DEF Filtered
  <1> QED
    BY <1>6, <1>8, <1>9, <1>10, <1>11, FilteredInv

\* A step that does not change the targets or what the build files hold.
LEMMA TargetsStay ==
    ASSUME LoadInv, targets' = targets, project' = project
    PROVE  /\ Dicts' /\ project' \in Projects
           /\ stage \in Unpublished => AsWritten'
           /\ stage \in Filtered /\ stage' \in Filtered => NoRepeats'
  <1>1. Dicts' /\ project' \in Projects
    BY DEF LoadInv, LoadFacts, Dicts
  <1>2. ASSUME stage \in Unpublished PROVE AsWritten'
    BY <1>2, OriginalStays DEF AsWritten, LoadInv, LoadFacts
  <1>3. ASSUME stage \in Filtered, stage' \in Filtered PROVE NoRepeats'
    <2>1. stage' \notin WithNodes
      BY <1>3 DEF Filtered, WithNodes, Listed
    <2> QED
      BY <1>3, <2>1 DEF NoRepeats, LoadInv, LoadFacts, Distinct
  <1> QED
    BY <1>1, <1>2, <1>3

\* The graph of the build files has finitely many nodes and no edge that leaves it.
LEMMA FileGraphIsGraph ==
    ASSUME Dicts, \A f \in DOMAIN FileGraph : FileGraph[f] \subseteq DOMAIN FileGraph
    PROVE  IsGraph(FileGraph)
  <1>1. PICK h : h = [t \in DOMAIN targets |-> BuildFile(t)]
    OBVIOUS
  <1>2. DOMAIN FileGraph = {h[t] : t \in DOMAIN targets}
    BY <1>1 DEF FileGraph
  <1>3. IsFiniteSet(DOMAIN FileGraph)
    BY <1>2, FiniteImage DEF Dicts
  <1> QED
    BY <1>3 DEF IsGraph

\* The graph of the build files is handed to FlattenToList.
LEMMA FilesInv ==
    ASSUME LoadInv, VerifyNoGYPFileCircularDependencies
    PROVE  LoadInv'
  <1> DEFINE missing == \E f \in DOMAIN FileGraph : ~(FileGraph[f] \subseteq DOMAIN FileGraph)
  <1>1. CASE missing
    <2>1. Fail("build file not found")
      BY <1>1 DEF VerifyNoGYPFileCircularDependencies
    <2> QED
      BY <2>1, FailInv
  <1>2. CASE ~missing
    <2>1. /\ StartFlatten(FileGraph) /\ targets' = targets /\ project' = project
          /\ stage = "files" /\ stage' = "flatten files"
      BY <1>2 DEF VerifyNoGYPFileCircularDependencies, Proceed
    <2>2. IsGraph(FileGraph)
      BY <1>2, FileGraphIsGraph DEF LoadInv, LoadFacts
    <2>3. PICK g : g = FileGraph
      OBVIOUS
    <2>4. IsGraph(g) /\ StartFlatten(g)
      BY <2>1, <2>2, <2>3
    <2>5. GraphInv'
      BY <2>4, StartsWell
    <2>6. stage \in Unpublished /\ stage \in Filtered /\ stage' \in Filtered
      BY <2>1 DEF Unpublished, Filtered
    <2> QED
      BY <2>1, <2>5, <2>6, TargetsStay, FilteredInv DEF GraphInv
  <1> QED
    BY <1>1, <1>2

\* The stages in which the targets have their nodes and nothing is published.
Noded == {"flatten targets", "prune", "colliding", "all"}

-----------------------------------------------------------------------------
(***************************************************************************)
(* The graph, its list, and the targets that are pruned.                   *)
(***************************************************************************)
\* What is to be shown of a step to a stage between the graph and the settings.
LEMMA NodedInv ==
    ASSUME stage' \in Noded, project' \in Projects, Dicts', ListInv', AsWritten', NoRepeats',
           NodesAreDependencies', ListIsTargets'
    PROVE  LoadInv'
  <1>1. stage' \notin Adjusted /\ stage' \in WithNodes \ Adjusted
    BY DEF Noded, Adjusted, WithNodes, Listed
  <1>2. stage' \notin {"direct", "link", "adjust", "loaded"}
    BY DEF Noded
  <1>3. ExportsFound' /\ Published'
    BY <1>2 DEF ExportsFound, Published, SettingsReachTheirTargets
  <1>4. AdjustedSafely'
    BY <1>1 DEF AdjustedSafely
  <1> QED
    BY <1>3, <1>4 DEF LoadInv, LoadFacts

\* The graph of the targets is handed to FlattenToList.
LEMMA BuildListInv ==
    ASSUME LoadInv, BuildDependencyList
    PROVE  LoadInv'
  <1> DEFINE missing == \E t \in DOMAIN targets :
                            ~(ToSet(targets[t].dependencies) \subseteq DOMAIN targets)
  <1>1. CASE missing
    <2>1. Fail("dependency not found")
      BY <1>1 DEF BuildDependencyList
    <2> QED
      BY <2>1, FailInv
  <1>2. CASE ~missing
    <2>1. PICK g : g = [t \in DOMAIN targets |-> ToSet(targets[t].dependencies)]
      OBVIOUS
    <2>2. /\ StartFlatten(g)
          /\ targets' = [t \in DOMAIN targets |->
                            With(targets[t], "node", targets[t].dependencies)]
          /\ stage = "graph" /\ stage' = "flatten targets" /\ project' = project
      BY <1>2, <2>1 DEF BuildDependencyList, Proceed
    <2>3. Dicts /\ AsWritten /\ NoRepeats /\ project \in Projects
      BY DEF LoadInv, LoadFacts
    <2>4. IsGraph(g)
      BY <1>2, <2>1, <2>3 DEF IsGraph, Dicts
    <2>5. GraphInv' /\ nodes' = g
      BY <2>2, <2>4, StartsWell DEF StartFlatten
    <2>6. ASSUME NEW t \in DOMAIN targets
          PROVE  /\ IsTargetDict(targets'[t]) /\ "node" \in DOMAIN targets'[t]
                 /\ targets'[t].flags = targets[t].flags
                 /\ targets'[t].settings = targets[t].settings
                 /\ targets'[t].exports = targets[t].exports
                 /\ targets'[t].dependencies = targets[t].dependencies
                 /\ targets'[t].node = targets[t].dependencies
      <3>1. PICK d, e, v : d = targets[t] /\ e = targets'[t] /\ v = targets[t].dependencies
        OBVIOUS
      <3>2. e = With(d, "node", v)
        BY <2>2, <3>1
      <3>3. IsTargetDict(d) /\ "node" \notin WrittenKeys
        BY <2>3, <3>1 DEF Dicts, WrittenKeys
      <3>4. /\ IsTargetDict(e) /\ \A k \in WrittenKeys : e[k] = d[k]
            /\ e.node = v /\ "node" \in DOMAIN e
        BY <3>2, <3>3, WithDict
      <3> QED
        BY <3>1, <3>4 DEF WrittenKeys
    <2>7. DOMAIN targets' = DOMAIN targets
      BY <2>2
    <2>8. Dicts'
      BY <2>3, <2>6, <2>7 DEF Dicts
    <2>9. AsWritten'
      <3>1. \A t \in DOMAIN targets :
               targets[t].flags = Original(t).flags /\ targets[t].settings = Original(t).settings
        BY <2>2, <2>3 DEF AsWritten, Unpublished
      <3>2. \A t \in DOMAIN targets :
               /\ targets'[t].flags = Original(t)'.flags
               /\ targets'[t].settings = Original(t)'.settings
        BY <2>2, <2>6, <3>1, OriginalStays
      <3> QED
        BY <2>7, <3>2 DEF AsWritten
    <2>10. \A t \in DOMAIN targets :
              Distinct(targets[t].dependencies) /\ Distinct(targets[t].exports)
      BY <2>2, <2>3 DEF NoRepeats, Filtered
    <2>11. NoRepeats'
      BY <2>2, <2>6, <2>7, <2>10 DEF NoRepeats, Filtered
    <2>12. ASSUME NEW t \in DOMAIN targets PROVE HasNode(t)'
      <3>1. IsList(targets[t].dependencies)
        BY ListsOf
      <3>2. g[t] = ToSet(targets[t].dependencies) /\ g[t] \subseteq DOMAIN targets /\ t \in DOMAIN g
        BY <1>2, <2>1
      <3> QED
        BY <2>5, <2>6, <2>7, <2>10, <3>1, <3>2 DEF HasNode
    <2>13. NodesAreDependencies'
      BY <2>6, <2>7, <2>12 DEF NodesAreDependencies
    <2>14. DOMAIN nodes' = DOMAIN targets'
      BY <2>1, <2>5, <2>7
    <2>15. ListIsTargets'
      BY <2>2, <2>5, <2>14 DEF ListIsTargets, GraphInv, Listed
    <2>16. stage' \in Noded
      BY <2>2 DEF Noded
    <2> QED
      BY <2>2, <2>3, <2>5, <2>8, <2>9, <2>11, <2>13, <2>15, <2>16, NodedInv DEF GraphInv
  <1> QED
    BY <1>1, <1>2

\* A step that changes neither the targets nor their nodes, while nothing is published.
LEMMA NodesStay ==
    ASSUME LoadInv, targets' = targets, nodes' = nodes, project' = project,
           stage \in Noded, stage' \in Noded
    PROVE  Dicts' /\ project' \in Projects /\ AsWritten' /\ NoRepeats' /\ NodesAreDependencies'
  <1>1. /\ stage \in Unpublished /\ stage \in WithNodes \ Adjusted
        /\ stage' \in WithNodes \ Adjusted /\ stage' \notin Filtered
    BY DEF Noded, Unpublished, WithNodes, Listed, Adjusted, Filtered
  <1>2. Dicts' /\ project' \in Projects /\ AsWritten'
    BY <1>1, TargetsStay
  <1>3. NoRepeats'
    BY <1>1 DEF NoRepeats, LoadInv, LoadFacts, Distinct
  <1>4. \A t \in DOMAIN targets : HasNode(t) /\ targets[t].dependencies = targets[t].node
    BY <1>1 DEF NodesAreDependencies, LoadInv, LoadFacts
  <1>5. \A t \in DOMAIN targets : HasNode(t)'
    BY <1>4 DEF HasNode
  <1>6. NodesAreDependencies'
    BY <1>4, <1>5 DEF NodesAreDependencies
  <1> QED
    BY <1>2, <1>3, <1>6

\* A round of FlattenToList, and its end.
LEMMA FlattenInv ==
    ASSUME LoadInv, FlattenToList
    PROVE  LoadInv'
  <1>1. /\ PopZero /\ targets' = targets /\ project' = project
        /\ stage' = stage /\ stage \in {"flatten files", "flatten targets"}
    BY DEF FlattenToList, targetVars
  <1>2. ListInv /\ NothingForgotten /\ nodes' = nodes
    BY <1>1 DEF LoadInv, LoadFacts, ListIsTargets, PopZero
  <1>3. ListInv' /\ NothingForgotten'
    BY <1>1, <1>2, PopZeroInv
  <1>4. CASE stage = "flatten files"
    <2>1. stage \in Unpublished /\ stage \in Filtered /\ stage' \in Filtered
      BY <1>1, <1>4 DEF Unpublished, Filtered
    <2> QED
      BY <1>1, <1>3, <2>1, TargetsStay, FilteredInv
  <1>5. CASE stage = "flatten targets"
    <2>1. stage \in Noded /\ stage' \in Noded
      BY <1>1, <1>5 DEF Noded
    <2>2. DOMAIN nodes = DOMAIN targets
      BY <1>5 DEF LoadInv, LoadFacts, ListIsTargets
    <2>3. ListIsTargets'
      BY <1>1, <1>2, <1>3, <1>5, <2>2 DEF ListIsTargets, Listed
    <2> QED
      BY <1>1, <1>2, <1>3, <2>1, <2>3, NodesStay, NodedInv
  <1> QED
    BY <1>1, <1>4, <1>5

LEMMA EndFlattenInv ==
    ASSUME LoadInv, EndFlatten
    PROVE  LoadInv'
  <1>1. CASE Circular
    <2>1. PICK what : Fail(what)
      BY <1>1 DEF EndFlatten
    <2> QED
      BY <2>1, FailInv
  <1>2. CASE ~Circular
    <2>1. /\ UNCHANGED graphVars /\ targets' = targets /\ project' = project
          /\ in_degree_zeros = {}
          /\ stage \in {"flatten files", "flatten targets"}
          /\ stage' = IF stage = "flatten files" THEN "graph" ELSE "prune"
      BY <1>2 DEF EndFlatten, Proceed
    <2>2. ListInv /\ NothingForgotten
      BY <2>1 DEF LoadInv, LoadFacts, ListIsTargets
    <2>3. ListInv'
      BY <2>1, <2>2, GraphStays
    <2>4. CASE stage = "flatten files"
      <3>1. /\ stage \in Unpublished /\ stage \in Filtered /\ stage' \in Filtered
            /\ stage' # "flatten files"
        BY <2>1, <2>4 DEF Unpublished, Filtered
      <3> QED
        BY <2>1, <2>3, <3>1, TargetsStay, FilteredInv
    <2>5. CASE stage = "flatten targets"
      <3>1. stage \in Noded /\ stage' \in Noded /\ stage' = "prune"
        BY <2>1, <2>5 DEF Noded
      <3>2. DOMAIN nodes = DOMAIN targets
        BY <2>5 DEF LoadInv, LoadFacts, ListIsTargets
      <3>3. ToSet(flat_list) = DOMAIN nodes
        BY <1>2, <2>1, <2>2, ShortListLeavesOut DEF GraphInv
      <3>4. nodes' = nodes /\ in_degree_zeros' = {} /\ flat_list' = flat_list
        BY <2>1 DEF graphVars
      <3>5. ToSet(flat_list') = DOMAIN targets'
        BY <2>1, <3>2, <3>3, <3>4
      <3>6. ListIsTargets'
        BY <3>1, <3>4, <3>5 DEF ListIsTargets
      <3> QED
        BY <2>1, <2>3, <3>1, <3>4, <3>6, NodesStay, NodedInv
    <2> QED
      BY <2>1, <2>4, <2>5
  <1> QED
    BY <1>1, <1>2

\* VerifyNoCollidingTargets changes nothing.
LEMMA CollidingInv ==
    ASSUME LoadInv, VerifyNoCollidingTargets
    PROVE  LoadInv'
  <1> DEFINE colliding == \E t, u \in DOMAIN targets :
                 t # u /\ Dir[t[1]] = Dir[u[1]] /\ t[2] = u[2] /\ t[3] = u[3]
  <1>1. CASE colliding
    <2>1. Fail("colliding targets")
      BY <1>1 DEF VerifyNoCollidingTargets
    <2> QED
      BY <2>1, FailInv
  <1>2. CASE ~colliding
    <2>1. /\ UNCHANGED graphVars /\ targets' = targets /\ project' = project
          /\ stage = "colliding" /\ stage' = "all"
      BY <1>2 DEF VerifyNoCollidingTargets, Proceed
    <2>2. ListInv /\ in_degree_zeros = {} /\ ToSet(flat_list) = DOMAIN targets
      BY <2>1 DEF LoadInv, LoadFacts, ListIsTargets, Listed
    <2>3. ListInv'
      BY <2>1, <2>2, GraphStays
    <2>4. stage \in Noded /\ stage' \in Noded
      BY <2>1 DEF Noded
    <2>5. nodes' = nodes /\ in_degree_zeros' = {} /\ flat_list' = flat_list
      BY <2>1, <2>2 DEF graphVars
    <2>6. ToSet(flat_list') = DOMAIN targets'
      BY <2>1, <2>2, <2>5
    <2>7. ListIsTargets'
      BY <2>1, <2>5, <2>6 DEF ListIsTargets
    <2> QED
      BY <2>1, <2>3, <2>4, <2>5, <2>7, NodesStay, NodedInv
  <1> QED
    BY <1>1, <1>2

\* The targets have their nodes, and the nodes are targets.
Nodes == Dicts /\ \A t \in DOMAIN targets : HasNode(t)

\* What is known of the targets once they have nodes.
LEMMA NodesFacts ==
    ASSUME Nodes
    PROVE  /\ DOMAIN Graph = DOMAIN targets /\ IsFiniteSet(DOMAIN targets)
           /\ \A t \in DOMAIN targets :
                 /\ Graph[t] = nodes[t] /\ Graph[t] = ToSet(targets[t].node)
                 /\ Graph[t] \subseteq DOMAIN targets
                 /\ IsTargetDict(targets[t])
                 /\ targets[t].node \in Seq(DOMAIN targets) /\ Distinct(targets[t].node)
  <1>1. ASSUME NEW t \in DOMAIN targets
        PROVE  targets[t].node \in Seq(DOMAIN targets)
    <2>1. IsList(targets[t].node) /\ ToSet(targets[t].node) \subseteq DOMAIN targets
      BY DEF Nodes, HasNode
    <2>2. targets[t].node \in Seq(ToSet(targets[t].node))
      BY <2>1, SeqOfList
    <2> QED
      BY <2>1, <2>2, SeqWider
  <1> QED
    BY <1>1 DEF Nodes, Dicts, HasNode, Graph

\* What DeepDependencies finds: everything a target depends on.
LEMMA DeepFacts ==
    ASSUME Nodes, NEW t \in DOMAIN targets, NEW r, r = DeepDependencies(t)
    PROVE  /\ r \in Seq(DOMAIN targets) /\ ToSet(r) = Deep(t)
           /\ Graph[t] \subseteq ToSet(r) /\ \A u \in ToSet(r) : Graph[u] \subseteq ToSet(r)
  <1>1. PICK next, list, D : /\ next = [u \in DOMAIN targets |-> targets[u].node]
                             /\ list = targets[t].node /\ D = DOMAIN targets
    OBVIOUS
  <1>2. /\ DOMAIN Graph = D /\ IsFiniteSet(D) /\ t \in D
        /\ \A u \in D : /\ Graph[u] = ToSet(targets[u].node) /\ Graph[u] \subseteq D
                        /\ targets[u].node \in Seq(D)
    BY <1>1, NodesFacts
  <1>3. /\ DOMAIN next = D /\ list \in Seq(D) /\ Graph[t] = ToSet(list)
        /\ \A u \in D : next[u] \in Seq(D) /\ Graph[u] = ToSet(next[u])
    BY <1>1, <1>2
  <1>4. r = Walk(<<>>, list, next)
    BY <1>1 DEF DeepDependencies
  <1>5. << >> \in Seq(D) /\ ToSet(<<>>) = {}
    BY ToSetOfEmpty
  <1>6. /\ r \in Seq(D) /\ ToSet(list) \cap D \subseteq ToSet(r)
        /\ \A u \in ToSet(r) \ {} : ToSet(next[u]) \cap D \subseteq ToSet(r)
        /\ \A X : Encloses(X, list, next) => ToSet(r) \subseteq {} \cup X
    <2>1. Reached(r, D, <<>>, list, next)
      BY <1>2, <1>3, <1>4, <1>5, WalkFacts
    <2> QED
      BY <1>3, <1>5, <2>1 DEF Reached
  <1>7. PICK R : R = ToSet(r)
    OBVIOUS
  <1>8. R \subseteq D
    BY <1>6, <1>7, ToSetOfSeq
  <1>9. Graph[t] \subseteq R /\ \A u \in R : Graph[u] \subseteq R
    <2>1. Graph[t] \subseteq D /\ \A u \in R : Graph[u] \subseteq D /\ Graph[u] = ToSet(next[u])
      BY <1>2, <1>3, <1>8
    <2> QED
      BY <1>3, <1>6, <1>7, <2>1
  <1>10. ASSUME NEW X \in SUBSET D, Graph[t] \subseteq X, \A u \in X : Graph[u] \subseteq X
         PROVE  R \subseteq X
    <2>1. Encloses(X, list, next)
      BY <1>3, <1>10 DEF Encloses
    <2> QED
      BY <1>6, <1>7, <2>1
  <1>11. Closure(Graph[t], Graph) = R
    BY <1>2, <1>8, <1>9, <1>10, ClosureIs
  <1> QED
    BY <1>1, <1>6, <1>7, <1>9, <1>11 DEF Deep

\* The invariant says so from the graph on.
LEMMA NodedFacts ==
    ASSUME LoadInv, stage \in WithNodes
    PROVE  Nodes
  BY DEF LoadInv, LoadFacts, NodesAreDependencies, Nodes

\* What is wanted is wanted with everything it depends on.
LEMMA WantedFacts ==
    ASSUME Nodes
    PROVE  Wanted \subseteq DOMAIN targets /\ \A t \in Wanted : nodes[t] \subseteq Wanted
  <1>1. PICK roots : roots = {t \in DOMAIN targets : t[2] \in project.root_targets}
    OBVIOUS
  <1>2. Wanted = roots \cup UNION {ToSet(DeepDependencies(t)) : t \in roots}
    BY <1>1 DEF Wanted
  <1>3. ASSUME NEW t \in roots
        PROVE  /\ ToSet(DeepDependencies(t)) \subseteq DOMAIN targets
               /\ nodes[t] \subseteq ToSet(DeepDependencies(t))
               /\ \A u \in ToSet(DeepDependencies(t)) : nodes[u] \subseteq ToSet(DeepDependencies(t))
    <2>1. PICK r : r = DeepDependencies(t)
      OBVIOUS
    <2>2. t \in DOMAIN targets
      BY <1>1
    <2>3. /\ r \in Seq(DOMAIN targets) /\ Graph[t] \subseteq ToSet(r)
          /\ \A u \in ToSet(r) : Graph[u] \subseteq ToSet(r)
      BY <2>1, <2>2, DeepFacts
    <2>4. ToSet(r) \subseteq DOMAIN targets
      BY <2>3, ToSetOfSeq
    <2>5. \A u \in DOMAIN targets : Graph[u] = nodes[u]
      BY NodesFacts
    <2> QED
      BY <2>1, <2>2, <2>3, <2>4, <2>5
  <1>4. Wanted \subseteq DOMAIN targets
    BY <1>1, <1>2, <1>3
  <1>5. ASSUME NEW t \in Wanted PROVE nodes[t] \subseteq Wanted
    <2>1. CASE t \in roots
      BY <1>2, <1>3, <2>1
    <2>2. CASE t \notin roots
      <3>1. PICK u \in roots : t \in ToSet(DeepDependencies(u))
        BY <1>2, <2>2
      <3> QED
        BY <1>2, <1>3, <3>1
    <2> QED
      BY <2>1, <2>2
  <1> QED
    BY <1>4, <1>5

\* PruneUnwantedTargets keeps what is wanted, with everything that depends on.
LEMMA PruneTargetsInv ==
    ASSUME LoadInv, PruneUnwantedTargets
    PROVE  LoadInv'
  <1> DEFINE notFound == \E name \in project.root_targets : \A t \in DOMAIN targets : t[2] # name
  <1>0. stage = "prune" /\ stage \in Noded /\ stage \in WithNodes \ Adjusted /\ stage \in Listed
        /\ stage \in Unpublished
    BY DEF PruneUnwantedTargets, Noded, WithNodes, Listed, Adjusted, Unpublished
  <1>1. ListInv /\ in_degree_zeros = {} /\ ToSet(flat_list) = DOMAIN targets
    BY <1>0 DEF LoadInv, LoadFacts, ListIsTargets
  <1>2. CASE project.root_targets = {}
    <2>1. /\ UNCHANGED graphVars /\ targets' = targets /\ project' = project
          /\ stage' = "colliding"
      BY <1>2 DEF PruneUnwantedTargets, Proceed
    <2>2. ListInv'
      BY <1>1, <2>1, GraphStays
    <2>3. stage' \in Noded
      BY <2>1 DEF Noded
    <2>4. nodes' = nodes /\ in_degree_zeros' = {} /\ flat_list' = flat_list
      BY <1>1, <2>1 DEF graphVars
    <2>5. ToSet(flat_list') = DOMAIN targets'
      BY <1>1, <2>1, <2>4
    <2>6. ListIsTargets'
      BY <2>1, <2>4, <2>5 DEF ListIsTargets
    <2> QED
      BY <1>0, <2>1, <2>2, <2>3, <2>4, <2>6, NodesStay, NodedInv
  <1>3. CASE project.root_targets # {} /\ notFound
    <2>1. Fail("root target not found")
      BY <1>3 DEF PruneUnwantedTargets
    <2> QED
      BY <2>1, FailInv
  <1>4. CASE project.root_targets # {} /\ ~notFound
    <2>1. /\ targets' = [t \in Wanted |-> targets[t]]
          /\ PruneList(Wanted) /\ stage' = "colliding" /\ project' = project
      BY <1>4 DEF PruneUnwantedTargets, Proceed
    <2>2. PICK W : W = Wanted
      OBVIOUS
    <2>3. W \subseteq DOMAIN targets /\ \A t \in W : nodes[t] \subseteq W
      BY <1>0, <2>2, NodedFacts, WantedFacts
    <2>4. DOMAIN targets' = W /\ \A t \in W : targets'[t] = targets[t]
      BY <2>1, <2>2
    <2>5. PruneUnwanted
      BY <1>1, <2>1, <2>2, <2>3 DEF PruneUnwanted
    <2>6. ListInv'
      BY <1>1, <2>5, PruneInv
    <2>7. nodes' = nodes /\ in_degree_zeros' = {} /\ flat_list' = Select(flat_list, W)
      BY <1>1, <2>1, <2>2 DEF PruneList
    <2>8. ToSet(flat_list') = W
      <3>1. flat_list \in Seq(DOMAIN nodes)
        BY <1>1 DEF ListInv
      <3> QED
        BY <1>1, <2>3, <2>7, <3>1, SelectSet
    <2>9. ListIsTargets'
      BY <2>1, <2>4, <2>7, <2>8 DEF ListIsTargets
    <2>10. Dicts /\ AsWritten /\ NoRepeats /\ NodesAreDependencies /\ project \in Projects
      BY DEF LoadInv, LoadFacts
    <2>11. Dicts'
      <3>1. IsFiniteSet(W)
        BY <2>3, <2>10, FS_Subset DEF Dicts
      <3> QED
        BY <2>3, <2>4, <2>10, <3>1 DEF Dicts
    <2>12. AsWritten'
      BY <1>0, <2>1, <2>3, <2>4, <2>10, OriginalStays DEF AsWritten
    <2>13. stage' \in Noded /\ stage' \notin Filtered
      BY <2>1 DEF Noded, Filtered
    <2>14. NoRepeats'
      BY <1>0, <2>3, <2>4, <2>10, <2>13 DEF NoRepeats, Distinct
    <2>15. \A t \in DOMAIN targets : HasNode(t) /\ targets[t].dependencies = targets[t].node
      BY <1>0, <2>10 DEF NodesAreDependencies
    <2>16. \A t \in W : HasNode(t)' /\ targets'[t].dependencies = targets'[t].node
      BY <2>3, <2>4, <2>7, <2>15 DEF HasNode
    <2>17. NodesAreDependencies'
      BY <2>4, <2>16 DEF NodesAreDependencies
    <2> QED
      BY <2>1, <2>6, <2>9, <2>10, <2>11, <2>12, <2>13, <2>14, <2>17, NodedInv
  <1> QED
    BY <1>2, <1>3, <1>4

\* The targets have their nodes and no export twice.
Exporting == Nodes /\ \A t \in DOMAIN targets : Distinct(targets[t].exports)

\* The list r is the dependencies of t and what they export.
ImportsOf(r, t) ==
    /\ IsList(r) /\ Distinct(r) /\ Graph[t] \subseteq ToSet(r)
    /\ \A X : Graph[t] \subseteq X /\ (\A u \in X \cap DOMAIN targets : ExportsOf[u] \subseteq X)
          => ToSet(r) \subseteq X
    /\ ToSet(r) \subseteq DOMAIN targets =>
          /\ \A u \in ToSet(r) : ExportsOf[u] \subseteq ToSet(r)
          /\ ToSet(r) = Imported(t)

-----------------------------------------------------------------------------
(***************************************************************************)
(* The settings that are published.                                        *)
(***************************************************************************)
\* DirectAndImportedDependencies in terms of the graph and the exports.
LEMMA ImportsFacts ==
    ASSUME Exporting, NEW t \in DOMAIN targets, NEW r, r = DirectAndImportedDependencies(t)
    PROVE  ImportsOf(r, t)
  <1>1. PICK exports, base, D :
          /\ exports = [u \in DOMAIN targets |-> targets[u].exports]
          /\ base = targets[t].node /\ D = DOMAIN targets
    OBVIOUS
  <1>2. /\ DOMAIN Graph = D /\ IsFiniteSet(D) /\ t \in D
        /\ base \in Seq(D) /\ Distinct(base) /\ Graph[t] = ToSet(base) /\ Graph[t] \subseteq D
    <2>1. Nodes
      BY DEF Exporting
    <2> QED
      BY <1>1, <2>1, NodesFacts
  <1>3. DOMAIN exports = D
    BY <1>1
  <1>4. \A u \in D : IsList(exports[u]) /\ Distinct(exports[u]) /\ ExportsOf[u] = ToSet(exports[u])
    BY <1>1 DEF Exporting, Nodes, Dicts, IsTargetDict, ExportsOf
  <1>5. PICK S : S = D \cup UNION {ToSet(exports[u]) : u \in D}
    OBVIOUS
  <1>6. base \in Seq(S)
    <2>1. ToSet(base) \subseteq S
      BY <1>2, <1>5
    <2> QED
      BY <1>2, <2>1, SeqWider
  <1>7. ASSUME NEW u \in D PROVE exports[u] \in Seq(S)
    <2>1. exports[u] \in Seq(ToSet(exports[u]))
      BY <1>4, SeqOfList
    <2>2. ToSet(exports[u]) \subseteq S
      BY <1>5
    <2> QED
      BY <2>1, <2>2, SeqWider
  <1>8. ImportedBy(r, S, base, exports)
    BY <1>1, <1>2, <1>3, <1>4, <1>6, <1>7, ImportedFacts
  <1>9. PICK R : R = ToSet(r)
    OBVIOUS
  <1>10. IsList(r) /\ Distinct(r) /\ Graph[t] \subseteq R
    BY <1>2, <1>8, <1>9, ListOfSeq DEF ImportedBy
  <1>11. ASSUME NEW X, Graph[t] \subseteq X, \A u \in X \cap D : ExportsOf[u] \subseteq X
         PROVE  R \subseteq X
    <2>1. Imports(X, base, exports)
      BY <1>2, <1>3, <1>4, <1>11 DEF Imports
    <2> QED
      BY <1>8, <1>9, <2>1 DEF ImportedBy
  <1>12. ASSUME R \subseteq D
         PROVE  (\A u \in R : ExportsOf[u] \subseteq R) /\ R = Imported(t)
    <2>1. \A u \in R : ExportsOf[u] \subseteq R
      BY <1>3, <1>4, <1>8, <1>9, <1>12 DEF ImportedBy
    <2>2. DOMAIN ExportsOf = D
      BY <1>1 DEF ExportsOf
    <2>3. ASSUME NEW X \in SUBSET D, Graph[t] \subseteq X, \A u \in X : ExportsOf[u] \subseteq X
          PROVE  R \subseteq X
      BY <1>11, <2>3
    <2>4. Closure(Graph[t], ExportsOf) = R
      BY <1>10, <1>12, <2>1, <2>2, <2>3, ClosureIs
    <2> QED
      BY <2>1, <2>4 DEF Imported
  <1> QED
    BY <1>1, <1>9, <1>10, <1>11, <1>12 DEF ImportsOf

\* What the walk of _LinkDependenciesInternal enters.
Entered(shared) == {u \in DOMAIN targets :
                      /\ targets[u].type \notin {"executable", "loadable_module"}
                      /\ targets[u].type = "shared_library" => shared}
\* The list r is what is linked into t: it begins with t, and it holds what is in a
\* node of t or of what it holds, where the walk may enter.
LinkedBy(r, t, shared) ==
    /\ r \in Seq(DOMAIN targets) /\ t \in ToSet(r)
    /\ ToSet(r) \subseteq {t} \cup Entered(shared)
    /\ Graph[t] \cap Entered(shared) \subseteq ToSet(r)
    /\ \A u \in ToSet(r) \ {t} : Through[u] \cap Entered(shared) \subseteq ToSet(r)
    /\ \A X \in SUBSET DOMAIN targets :
          Graph[t] \cap Entered(shared) \subseteq X
          /\ (\A u \in X \cap Entered(shared) : Through[u] \cap Entered(shared) \subseteq X)
             => ToSet(r) \subseteq {t} \cup X

\* The walk of _LinkDependenciesInternal.
LEMMA LinkWalkFacts ==
    ASSUME Nodes, NEW t \in DOMAIN targets, targets[t].type \in LinkableTypes, NEW shared,
           NEW r, r = LinkDependencies(t, shared)
    PROVE  LinkedBy(r, t, shared)
  <1>1. PICK next, list, D, E :
          /\ next = [u \in Entered(shared) |-> IF Ends(u) THEN <<>> ELSE targets[u].node]
          /\ list = targets[t].node /\ D = DOMAIN targets /\ E = Entered(shared)
    OBVIOUS
  <1>2. /\ DOMAIN Graph = D /\ IsFiniteSet(D) /\ t \in D
        /\ \A u \in D : /\ Graph[u] = ToSet(targets[u].node) /\ Graph[u] \subseteq D
                        /\ targets[u].node \in Seq(D)
    BY <1>1, NodesFacts
  <1>3. r = Walk(<<t>>, list, next)
    BY <1>1 DEF LinkDependencies, Entered, Ends
  <1>4. /\ DOMAIN next = E /\ E \subseteq D /\ IsFiniteSet(E) /\ list \in Seq(D)
        /\ Graph[t] = ToSet(list)
    <2>1. E \subseteq D
      BY <1>1 DEF Entered
    <2>2. IsFiniteSet(E)
      BY <1>2, <2>1, FS_Subset
    <2> QED
      BY <1>1, <1>2, <2>1, <2>2
  <1>5. ASSUME NEW u \in E PROVE next[u] \in Seq(D) /\ ToSet(next[u]) = Through[u]
    <2>1. u \in D /\ << >> \in Seq(D)
      BY <1>4
    <2>2. Through[u] = IF Ends(u) THEN {} ELSE Graph[u]
      BY <1>1, <2>1 DEF Through
    <2>3. next[u] = IF Ends(u) THEN <<>> ELSE targets[u].node
      BY <1>1
    <2>4. CASE Ends(u)
      BY <2>1, <2>2, <2>3, <2>4, ToSetOfEmpty
    <2>5. CASE ~Ends(u)
      BY <1>2, <2>1, <2>2, <2>3, <2>5
    <2> QED
      BY <2>4, <2>5
  <1>6. <<t>> \in Seq(D) /\ ToSet(<<t>>) = {t}
    BY <1>2 DEF ToSet
  <1>7. Reached(r, D, <<t>>, list, next)
    BY <1>3, <1>4, <1>5, <1>6, WalkFacts
  <1>8. PICK R : R = ToSet(r)
    OBVIOUS
  <1>9. /\ r \in Seq(D) /\ t \in R /\ R \subseteq {t} \cup E /\ Graph[t] \cap E \subseteq R
        /\ \A u \in R \ {t} : ToSet(next[u]) \cap E \subseteq R
        /\ \A X : Encloses(X, list, next) => R \subseteq {t} \cup X
    BY <1>4, <1>6, <1>7, <1>8 DEF Reached
  <1>10. \A u \in R \ {t} : Through[u] \cap E \subseteq R
    BY <1>5, <1>9
  <1>11. ASSUME NEW X \in SUBSET D, Graph[t] \cap E \subseteq X,
                \A u \in X \cap E : Through[u] \cap E \subseteq X
         PROVE  R \subseteq {t} \cup X
    <2>1. Encloses(X, list, next)
      BY <1>4, <1>5, <1>11 DEF Encloses
    <2> QED
      BY <1>9, <2>1
  <1> QED
    BY <1>1, <1>8, <1>9, <1>10, <1>11 DEF LinkedBy

\* What that walk finds are the link sources of the target.
LEMMA LinkedFacts ==
    ASSUME Nodes, NEW t \in DOMAIN targets, targets[t].type \in LinkableTypes,
           NEW shared, NEW r, LinkedBy(r, t, shared)
    PROVE  ToSet(r) = LinkSources(t, shared)
  <1>1. PICK R, E, D, C : /\ R = ToSet(r) /\ E = Entered(shared) /\ D = DOMAIN targets
                          /\ C = Closure(Graph[t], Through)
    OBVIOUS
  <1>2. /\ t \in D /\ t \in R /\ R \subseteq {t} \cup E /\ Graph[t] \cap E \subseteq R
        /\ \A u \in R \ {t} : Through[u] \cap E \subseteq R
        /\ \A X \in SUBSET D :
             Graph[t] \cap E \subseteq X /\ (\A u \in X \cap E : Through[u] \cap E \subseteq X)
                => R \subseteq {t} \cup X
    BY <1>1 DEF LinkedBy
  <1>3. \A u \in D : Graph[u] \subseteq D
    BY <1>1, NodesFacts
  <1>4. DOMAIN Through = D /\ \A u \in D : Through[u] = IF Ends(u) THEN {} ELSE Graph[u]
    BY <1>1 DEF Through
  <1>5. /\ C \subseteq D /\ Graph[t] \subseteq C /\ \A u \in C : Through[u] \subseteq C
        /\ \A X \in SUBSET D : Graph[t] \subseteq X /\ (\A u \in X : Through[u] \subseteq X)
              => C \subseteq X
    <2>1. Graph[t] \subseteq DOMAIN Through /\ \A u \in DOMAIN Through : Through[u] \subseteq DOMAIN Through
      BY <1>2, <1>3, <1>4
    <2> QED
      BY <1>1, <1>4, <2>1, ClosureFacts
  <1>6. ASSUME NEW u \in D
        PROVE  u \in E <=> \/ targets[u].type \notin LinkableTypes
                           \/ shared /\ targets[u].type = "shared_library"
    BY <1>1, <1>6 DEF Entered, LinkableTypes
  <1>7. LinkSources(t, shared) = {t} \cup (C \cap E)
    BY <1>1, <1>5, <1>6 DEF LinkSources
  <1>8. R \subseteq {t} \cup (C \cap E)
    <2>1. PICK X : X = C \cap E
      OBVIOUS
    <2>2. X \in SUBSET D /\ Graph[t] \cap E \subseteq X
      BY <1>5, <2>1
    <2>3. \A u \in X \cap E : Through[u] \cap E \subseteq X
      BY <1>5, <2>1
    <2> QED
      BY <1>2, <2>1, <2>2, <2>3
  <1>9. C \cap E \subseteq R
    <2>1. PICK Y : Y = {u \in D : u \in E => u \in R}
      OBVIOUS
    <2>2. Graph[t] \subseteq Y
      BY <1>2, <1>3, <2>1
    <2>3. ASSUME NEW u \in Y PROVE Through[u] \subseteq Y
      <3>1. u \in D /\ Through[u] \subseteq D
        BY <1>3, <1>4, <2>1
      <3>2. CASE u \in E /\ u # t
        BY <1>2, <2>1, <3>1, <3>2
      <3>3. CASE u = t
        <4>1. Ends(u)
          BY <3>3 DEF Ends
        <4> QED
          BY <1>4, <3>1, <4>1
      <3>4. CASE u \notin E
        <4>1. Ends(u)
          BY <1>6, <3>1, <3>4 DEF Ends
        <4> QED
          BY <1>4, <3>1, <4>1
      <3> QED
        BY <3>2, <3>3, <3>4
    <2>4. Y \in SUBSET D
      BY <2>1
    <2>5. C \subseteq Y
      BY <1>5, <2>2, <2>3, <2>4
    <2> QED
      BY <2>1, <2>5
  <1> QED
    BY <1>1, <1>2, <1>7, <1>8, <1>9

\* The settings of one kind are taken out of a dictionary.
Erased(r, key, e) ==
    /\ IsTargetDict(e) /\ DOMAIN e = DOMAIN r
    /\ \A k \in DOMAIN r \ {"settings"} : e[k] = r[k]
    /\ \A k \in Keys \ {key} : e.settings[k] = r.settings[k]

\* The settings of a key are deleted when they have been published.
LEMMA EraseFacts ==
    ASSUME NEW r, IsTargetDict(r), NEW key \in Keys,
           NEW e, e = [r EXCEPT !.settings[key] = NoSettings]
    PROVE  Erased(r, key, e)
  <1>1. PICK s, v : s = r.settings /\ v = [s EXCEPT ![key] = NoSettings]
    OBVIOUS
  <1>2. e = [r EXCEPT !.settings = v]
    BY <1>1
  <1>3. /\ WrittenKeys \subseteq DOMAIN r /\ Keys \subseteq DOMAIN s
        /\ \A k \in {"toolsets", "dependencies", "exports", "excluded", "exports_excluded", "flags"} : IsList(r[k])
        /\ \A k \in Keys : /\ {"flags", "link"} \subseteq DOMAIN s[k]
                           /\ IsList(s[k].flags) /\ IsList(s[k].link)
    BY <1>1 DEF IsTargetDict, Keys
  <1>4. /\ DOMAIN e = DOMAIN r /\ e.settings = v
        /\ \A k \in DOMAIN r \ {"settings"} : e[k] = r[k]
    BY <1>2, <1>3 DEF WrittenKeys
  <1>5. DOMAIN v = DOMAIN s /\ v[key] = NoSettings /\ \A k \in DOMAIN s \ {key} : v[k] = s[k]
    BY <1>1, <1>3
  <1>6. IsList(<<>>)
    <2>1. << >> \in Seq({})
      OBVIOUS
    <2> QED
      BY <2>1, ListOfSeq
  <1>7. ASSUME NEW k \in Keys
        PROVE  /\ {"flags", "link"} \subseteq DOMAIN v[k]
               /\ IsList(v[k].flags) /\ IsList(v[k].link)
    <2>1. CASE k = key
      <3>1. DOMAIN NoSettings = {"flags", "link"} /\ NoSettings.flags = <<>> /\ NoSettings.link = <<>>
        BY DEF NoSettings
      <3> QED
        BY <1>5, <1>6, <2>1, <3>1
    <2>2. CASE k # key
      BY <1>3, <1>5, <2>2
    <2> QED
      BY <2>1, <2>2
  <1>8. \A k \in {"toolsets", "dependencies", "exports", "excluded", "exports_excluded", "flags"} :
            k \in DOMAIN r \ {"settings"}
    BY <1>3 DEF WrittenKeys
  <1>9. \A k \in {"toolsets", "dependencies", "exports", "excluded", "exports_excluded", "flags"} : IsList(e[k])
    BY <1>3, <1>4, <1>8
  <1>10. IsTargetDict(e)
    BY <1>3, <1>4, <1>5, <1>7, <1>9 DEF IsTargetDict, Keys
  <1> QED
    BY <1>1, <1>3, <1>4, <1>5, <1>10 DEF Erased

\* What is said of every target when the settings of one kind are published: e is the
\* new dictionary of a target with the dictionary d, l are the dependencies.
PublishedTo(d, l, key, e) ==
    /\ IsTargetDict(e) /\ DOMAIN e = DOMAIN d
    /\ \A k \in DOMAIN d \ {"flags", "settings"} : e[k] = d[k]
    /\ \A x : x \in ToSet(e.flags) <=>
          x \in ToSet(d.flags) \/ \E u \in ToSet(l) : x \in ToSet(targets[u].settings[key].flags)
    /\ key # "link" => \A x : x \in ToSet(e.settings.link.flags) <=>
          \/ x \in ToSet(d.settings.link.flags)
          \/ \E u \in ToSet(l) : x \in ToSet(targets[u].settings[key].link)
    /\ key = "all" => e.settings.direct = d.settings.direct

\* One target gets the settings of its dependencies.
LEMMA PublishOne ==
    ASSUME NEW S, NEW l \in Seq(S), NEW d, IsTargetDict(d), NEW key \in Keys,
           \A t \in ToSet(l) : IsTargetDict(targets[t]),
           NEW r, r = Folded(LAMBDA x, dep : MergeSettings(x, targets[dep].settings[key], key), d, l),
           NEW e, e = [r EXCEPT !.settings[key] = NoSettings]
    PROVE  PublishedTo(d, l, key, e)
  <1>1. MergedFrom(d, l, key, r)
    BY MergeAll
  <1>2. IsTargetDict(r)
    BY <1>1 DEF MergedFrom
  <1>3. Erased(r, key, e)
    BY <1>2, EraseFacts
  <1>4. /\ DOMAIN r = DOMAIN d /\ \A k \in DOMAIN d \ {"flags", "settings"} : r[k] = d[k]
        /\ r.settings.direct = d.settings.direct
    BY <1>1 DEF MergedFrom, SameBut
  <1>5. /\ IsTargetDict(e) /\ DOMAIN e = DOMAIN d
        /\ \A k \in DOMAIN d \ {"flags", "settings"} : e[k] = d[k]
    BY <1>3, <1>4 DEF Erased
  <1>6. e.flags = r.flags
    BY <1>2, <1>3 DEF Erased, IsTargetDict, WrittenKeys
  <1>7. /\ key # "link" => e.settings.link = r.settings.link
        /\ key = "all" => e.settings.direct = r.settings.direct
    BY <1>3 DEF Erased, Keys
  <1> QED
    BY <1>1, <1>4, <1>5, <1>6, <1>7 DEF PublishedTo, MergedFrom

\* A step of DoDependentSettings.
Publishing(key) ==
    /\ DOMAIN targets' = DOMAIN targets
    /\ \A t \in DOMAIN targets : PublishedTo(targets[t], DependenciesFor(key, t), key, targets'[t])

\* Every target does.
LEMMA PublishAll ==
    ASSUME Dicts, NEW key \in Keys, NEW next, DoDependentSettings(key, next), stage' = next,
           \A t \in DOMAIN targets : /\ IsList(DependenciesFor(key, t))
                                     /\ ToSet(DependenciesFor(key, t)) \subseteq DOMAIN targets,
           next # "failed"
    PROVE  Publishing(key)
  <1>1. targets' = [t \in DOMAIN targets |->
                 [Folded(LAMBDA d, dep : MergeSettings(d, targets[dep].settings[key], key),
                         targets[t], DependenciesFor(key, t))
                     EXCEPT !.settings[key] = NoSettings]]
    BY DEF DoDependentSettings, Fail
  <1>2. DOMAIN targets' = DOMAIN targets
    BY <1>1
  <1>3. ASSUME NEW t \in DOMAIN targets
        PROVE  PublishedTo(targets[t], DependenciesFor(key, t), key, targets'[t])
    <2>1. PICK d, l : d = targets[t] /\ l = DependenciesFor(key, t)
      OBVIOUS
    <2>2. targets'[t] = [Folded(LAMBDA x, dep : MergeSettings(x, targets[dep].settings[key], key), d, l)
                            EXCEPT !.settings[key] = NoSettings]
      BY <1>1, <2>1
    <2>3. PICK r : r = Folded(LAMBDA x, dep : MergeSettings(x, targets[dep].settings[key], key), d, l)
      OBVIOUS
    <2>4. targets'[t] = [r EXCEPT !.settings[key] = NoSettings]
      BY <2>2, <2>3
    <2>5. IsTargetDict(d) /\ \A u \in ToSet(l) : IsTargetDict(targets[u])
      BY <2>1 DEF Dicts
    <2>6. l \in Seq(ToSet(l))
      BY <2>1, SeqOfList
    <2> QED
      BY <2>1, <2>3, <2>4, <2>5, <2>6, PublishOne
  <1> QED
    BY <1>2, <1>3 DEF Publishing

GraphKeys ==
    {"node", "type", "exports", "dependencies_traverse", "sharedlib_linksettings",
     "hard_dependency"}

\* A step that changes nothing that the graph, the types and the exports depend on.
SameGraph ==
    /\ DOMAIN targets' = DOMAIN targets /\ nodes' = nodes /\ project' = project
    /\ \A t \in DOMAIN targets :
          /\ "node" \in DOMAIN targets'[t]
          /\ \A k \in GraphKeys : targets'[t][k] = targets[t][k]

\* While dependencies, exports and types stay, so does all that is derived from them.
LEMMA SameGraphFacts ==
    ASSUME SameGraph
    PROVE  /\ Graph' = Graph /\ ExportsOf' = ExportsOf
           /\ \A t : Deep(t)' = Deep(t) /\ Imported(t)' = Imported(t)
  <1>1. Graph' = Graph
    BY DEF SameGraph, Graph
  <1>2. \A t \in DOMAIN targets : targets'[t].exports = targets[t].exports
    BY DEF SameGraph, GraphKeys
  <1>3. ExportsOf' = ExportsOf
    BY <1>2 DEF SameGraph, ExportsOf
  <1> QED
    BY <1>1, <1>3 DEF Deep, Imported

LEMMA SameGraphNodes ==
    ASSUME SameGraph, Exporting, Dicts'
    PROVE  /\ Exporting'
           /\ \A t \in DOMAIN targets : HasNode(t)'
           /\ \A t \in DOMAIN targets' : Distinct(targets'[t].exports)
  <1>1. \A t \in DOMAIN targets : /\ targets'[t].node = targets[t].node
                                  /\ targets'[t].exports = targets[t].exports
                                  /\ "node" \in DOMAIN targets'[t]
    BY DEF SameGraph, GraphKeys
  <1>2. ASSUME NEW t \in DOMAIN targets PROVE HasNode(t)'
    <2>1. HasNode(t)
      BY DEF Exporting, Nodes
    <2> QED
      BY <1>1, <2>1 DEF HasNode, SameGraph
  <1>3. DOMAIN targets' = DOMAIN targets
    BY DEF SameGraph
  <1>4. \A t \in DOMAIN targets' : Distinct(targets'[t].exports)
    BY <1>1, <1>3 DEF Exporting
  <1>5. Nodes'
    BY <1>2, <1>3 DEF Nodes
  <1> QED
    BY <1>2, <1>4, <1>5 DEF Exporting

\* The stages in which settings are published.
Settling == {"direct", "link", "adjust"}

\* What is to be shown of a step to one of the stages in which settings are published.
LEMMA SettlingInv ==
    ASSUME stage' \in Settling, project' \in Projects, Dicts', ListInv',
           \A t \in DOMAIN targets' : /\ Distinct(targets'[t].exports) /\ HasNode(t)'
                                      /\ targets'[t].dependencies = targets'[t].node,
           in_degree_zeros' = {}, ToSet(flat_list') = DOMAIN targets',
           ExportsFound', Published'
    PROVE  LoadInv'
  <1>1. /\ stage' \notin Filtered /\ stage' \notin Unpublished /\ stage' \notin Adjusted
        /\ stage' \in WithNodes
    BY DEF Settling, Filtered, Unpublished, Adjusted, WithNodes, Listed
  <1>2. /\ stage' \notin {"flatten files", "flatten targets", "colliding", "loaded"}
    BY DEF Settling
  <1>3. AsWritten'
    BY <1>1 DEF AsWritten
  <1>4. NoRepeats'
    BY <1>1 DEF NoRepeats
  <1>5. NodesAreDependencies'
    BY DEF NodesAreDependencies
  <1>6. ListIsTargets'
    BY <1>2 DEF ListIsTargets
  <1>7. AdjustedSafely'
    BY <1>1, <1>2 DEF AdjustedSafely
  <1> QED
    BY <1>3, <1>4, <1>5, <1>6, <1>7 DEF LoadInv, LoadFacts

\* What every step of DoDependentSettings keeps.
LEMMA PublishingKeeps ==
    ASSUME LoadInv, stage \in WithNodes \ Adjusted, stage \in Listed, NEW key \in Keys,
           Publishing(key), UNCHANGED graphVars, project' = project
    PROVE  /\ SameGraph /\ project' \in Projects /\ Dicts' /\ ListInv'
           /\ \A t \in DOMAIN targets' : /\ Distinct(targets'[t].exports) /\ HasNode(t)'
                                         /\ targets'[t].dependencies = targets'[t].node
           /\ in_degree_zeros' = {} /\ ToSet(flat_list') = DOMAIN targets'
  <1>1. /\ project \in Projects /\ Dicts /\ ListInv /\ in_degree_zeros = {}
        /\ ToSet(flat_list) = DOMAIN targets
    BY DEF LoadInv, LoadFacts, ListIsTargets
  <1>2. Exporting /\ \A t \in DOMAIN targets : targets[t].dependencies = targets[t].node
    <2>1. Nodes
      BY NodedFacts
    <2> QED
      BY <2>1 DEF Exporting, LoadInv, LoadFacts, NoRepeats, NodesAreDependencies
  <1>3. DOMAIN targets' = DOMAIN targets
    BY DEF Publishing
  <1>4. ASSUME NEW t \in DOMAIN targets
        PROVE  /\ IsTargetDict(targets'[t]) /\ "node" \in DOMAIN targets'[t]
               /\ \A k \in GraphKeys \cup {"dependencies"} : targets'[t][k] = targets[t][k]
    <2>1. PICK d, e, l : d = targets[t] /\ e = targets'[t] /\ l = DependenciesFor(key, t)
      OBVIOUS
    <2>2. PublishedTo(d, l, key, e)
      BY <2>1 DEF Publishing
    <2>3. /\ IsTargetDict(e) /\ DOMAIN e = DOMAIN d
          /\ \A k \in DOMAIN d \ {"flags", "settings"} : e[k] = d[k]
      BY <2>2 DEF PublishedTo
    <2>4. WrittenKeys \subseteq DOMAIN d /\ "node" \in DOMAIN d
      BY <1>1, <1>2, <2>1 DEF Exporting, Nodes, HasNode, Dicts, IsTargetDict
    <2>5. GraphKeys \cup {"dependencies"} \subseteq DOMAIN d \ {"flags", "settings"}
      BY <2>4 DEF GraphKeys, WrittenKeys
    <2> QED
      BY <2>1, <2>3, <2>4, <2>5
  <1>5. SameGraph
    BY <1>3, <1>4 DEF SameGraph, graphVars
  <1>6. Dicts'
    BY <1>1, <1>3, <1>4 DEF Dicts
  <1>7. ListInv'
    BY <1>1, GraphStays
  <1>8. \A t \in DOMAIN targets' : Distinct(targets'[t].exports) /\ HasNode(t)'
    BY <1>2, <1>3, <1>5, <1>6, SameGraphNodes
  <1>9. \A t \in DOMAIN targets' : targets'[t].dependencies = targets'[t].node
    BY <1>2, <1>3, <1>4 DEF GraphKeys
  <1> QED
    BY <1>1, <1>3, <1>5, <1>6, <1>7, <1>8, <1>9 DEF graphVars

\* The flags that the build files publish for a set of targets.
LEMMA SettingSets ==
    ASSUME NEW S, NEW x
    PROVE  /\ x \in AllFlags(S) <=> \E u \in S : x \in ToSet(Original(u).settings.all.flags)
           /\ x \in AllLink(S) <=> \E u \in S : x \in ToSet(Original(u).settings.all.link)
           /\ x \in DirectFlags(S) <=> \E u \in S : x \in ToSet(Original(u).settings.direct.flags)
           /\ x \in DirectLink(S) <=> \E u \in S : x \in ToSet(Original(u).settings.direct.link)
  BY DEF AllFlags, AllLink, DirectFlags, DirectLink

LEMMA SettingSetsStay ==
    ASSUME project' = project
    PROVE  \A S : /\ AllFlags(S)' = AllFlags(S) /\ AllLink(S)' = AllLink(S)
                  /\ DirectFlags(S)' = DirectFlags(S) /\ DirectLink(S)' = DirectLink(S)
  BY OriginalStays DEF AllFlags, AllLink, DirectFlags, DirectLink

\* After the first round every target has the flags that all its dependencies publish.
LEMMA PublishedAll ==
    ASSUME Nodes, Publishing("all"), SameGraph, NEW t \in DOMAIN targets,
           \A u \in DOMAIN targets : /\ targets[u].flags = Original(u).flags
                                     /\ targets[u].settings = Original(u).settings
    PROVE  AfterAll(t)'
  <1>1. PICK d, e, l, D : /\ d = targets[t] /\ e = targets'[t] /\ l = DeepDependencies(t)
                          /\ D = Deep(t)
    OBVIOUS
  <1>2. /\ ToSet(l) = D /\ D \subseteq DOMAIN targets
    <2>1. l \in Seq(DOMAIN targets) /\ ToSet(l) = D
      BY <1>1, DeepFacts
    <2> QED
      BY <2>1, ToSetOfSeq
  <1>3. DependenciesFor("all", t) = l
    BY <1>1 DEF DependenciesFor
  <1>4. PublishedTo(d, l, "all", e)
    BY <1>1, <1>3 DEF Publishing
  <1>5. PICK o : o = Original(t)
    OBVIOUS
  <1>6. d.flags = o.flags /\ d.settings = o.settings
    BY <1>1, <1>5
  <1>7. \A u \in D : targets[u].settings = Original(u).settings
    BY <1>2
  <1>8. ASSUME NEW x
        PROVE  x \in ToSet(e.flags) <=> x \in ToSet(o.flags) \/ x \in AllFlags(D)
    <2>1. x \in ToSet(e.flags) <=>
             x \in ToSet(d.flags) \/ \E u \in D : x \in ToSet(targets[u].settings.all.flags)
      BY <1>2, <1>4 DEF PublishedTo
    <2> QED
      BY <1>6, <1>7, <2>1, SettingSets
  <1>9. ASSUME NEW x
        PROVE  x \in ToSet(e.settings.link.flags) <=>
                 x \in ToSet(o.settings.link.flags) \/ x \in AllLink(D)
    <2>1. x \in ToSet(e.settings.link.flags) <=>
             x \in ToSet(d.settings.link.flags) \/ \E u \in D : x \in ToSet(targets[u].settings.all.link)
      BY <1>2, <1>4 DEF PublishedTo
    <2> QED
      BY <1>6, <1>7, <2>1, SettingSets
  <1>10. e.settings.direct = o.settings.direct
    BY <1>4, <1>6 DEF PublishedTo
  <1>11. Original(t)' = o /\ Deep(t)' = D
    BY <1>1, <1>5, OriginalStays, SameGraphFacts DEF SameGraph
  <1>12. AllFlags(D)' = AllFlags(D) /\ AllLink(D)' = AllLink(D)
    BY SettingSetsStay DEF SameGraph
  <1>13. Flags(t)' = ToSet(e.flags) /\ OwnLink(t)' = ToSet(e.settings.link.flags)
    BY <1>1 DEF Flags, OwnLink
  <1>14. LinkFlags(t)' = ToSet(o.settings.link.flags)
    BY <1>11 DEF LinkFlags
  <1>15. AllFlags(Deep(t))' = AllFlags(D) /\ AllLink(Deep(t))' = AllLink(D)
    BY <1>11, <1>12, OriginalStays DEF AllFlags, AllLink, SameGraph
  <1> QED
    BY <1>1, <1>8, <1>9, <1>10, <1>11, <1>13, <1>14, <1>15 DEF AfterAll

\* After the second round also those of its direct and imported dependencies.
LEMMA PublishedDirect ==
    ASSUME Exporting, ~ExportNotFound, Publishing("direct"), SameGraph, NEW t \in DOMAIN targets,
           \A u \in DOMAIN targets : AfterAll(u)
    PROVE  AfterDirect(t)'
  <1>1. PICK d, e, l, D, M :
          /\ d = targets[t] /\ e = targets'[t] /\ l = DirectAndImportedDependencies(t)
          /\ D = Deep(t) /\ M = Imported(t)
    OBVIOUS
  <1>2. ToSet(l) = M /\ M \subseteq DOMAIN targets
    <2>1. ImportsOf(l, t)
      BY <1>1, ImportsFacts
    <2>2. ToSet(l) \subseteq DOMAIN targets
      BY <1>1 DEF ExportNotFound
    <2> QED
      BY <1>1, <2>1, <2>2 DEF ImportsOf
  <1>3. DependenciesFor("direct", t) = l
    BY <1>1 DEF DependenciesFor
  <1>4. PublishedTo(d, l, "direct", e)
    BY <1>1, <1>3 DEF Publishing
  <1>5. PICK o : o = Original(t)
    OBVIOUS
  <1>6. /\ ToSet(d.flags) = ToSet(o.flags) \cup AllFlags(D)
        /\ ToSet(d.settings.link.flags) = ToSet(o.settings.link.flags) \cup AllLink(D)
    BY <1>1, <1>5 DEF AfterAll, Flags, OwnLink, LinkFlags
  <1>7. \A u \in M : targets[u].settings.direct = Original(u).settings.direct
    BY <1>2 DEF AfterAll
  <1>8. ASSUME NEW x
        PROVE  x \in ToSet(e.flags) <=> x \in ToSet(d.flags) \/ x \in DirectFlags(M)
    <2>1. x \in ToSet(e.flags) <=>
             x \in ToSet(d.flags) \/ \E u \in M : x \in ToSet(targets[u].settings.direct.flags)
      BY <1>2, <1>4 DEF PublishedTo
    <2> QED
      BY <1>7, <2>1, SettingSets
  <1>9. ASSUME NEW x
        PROVE  x \in ToSet(e.settings.link.flags) <=>
                 x \in ToSet(d.settings.link.flags) \/ x \in DirectLink(M)
    <2>1. x \in ToSet(e.settings.link.flags) <=>
             \/ x \in ToSet(d.settings.link.flags)
             \/ \E u \in M : x \in ToSet(targets[u].settings.direct.link)
      BY <1>2, <1>4 DEF PublishedTo
    <2> QED
      BY <1>7, <2>1, SettingSets
  <1>10. Original(t)' = o /\ Deep(t)' = D /\ Imported(t)' = M
    BY <1>1, <1>5, OriginalStays, SameGraphFacts DEF SameGraph
  <1>11. Flags(t)' = ToSet(e.flags) /\ OwnLink(t)' = ToSet(e.settings.link.flags)
    BY <1>1 DEF Flags, OwnLink
  <1>12. LinkFlags(t)' = ToSet(o.settings.link.flags)
    BY <1>10 DEF LinkFlags
  <1>13. /\ AllFlags(Deep(t))' = AllFlags(D) /\ AllLink(Deep(t))' = AllLink(D)
         /\ DirectFlags(Imported(t))' = DirectFlags(M) /\ DirectLink(Imported(t))' = DirectLink(M)
    BY <1>10, OriginalStays DEF AllFlags, AllLink, DirectFlags, DirectLink, SameGraph
  <1>14. Flags(t)' = ToSet(o.flags) \cup AllFlags(D) \cup DirectFlags(M)
    BY <1>6, <1>8, <1>11
  <1>15. OwnLink(t)' = ToSet(o.settings.link.flags) \cup AllLink(D) \cup DirectLink(M)
    BY <1>6, <1>9, <1>11
  <1> QED
    BY <1>10, <1>12, <1>13, <1>14, <1>15 DEF AfterDirect, LinkOf

\* What is due to a target depends on the graph only.
LEMMA DueStays ==
    ASSUME SameGraph, NEW t \in DOMAIN targets
    PROVE  Due(t)' = Due(t)
  <1>1. project' = project /\ DOMAIN targets' = DOMAIN targets
    BY DEF SameGraph
  <1>2. \A u \in DOMAIN targets :
            /\ targets'[u].type = targets[u].type
            /\ targets'[u].dependencies_traverse = targets[u].dependencies_traverse
            /\ targets'[u].sharedlib_linksettings = targets[u].sharedlib_linksettings
    BY DEF SameGraph, GraphKeys
  <1>3. Graph' = Graph /\ \A u : Deep(u)' = Deep(u) /\ Imported(u)' = Imported(u)
    BY SameGraphFacts
  <1>4. \A u \in DOMAIN targets : Ends(u)' <=> Ends(u)
    BY <1>2 DEF Ends
  <1>5. Through' = Through
    BY <1>1, <1>3, <1>4 DEF Through
  <1>6. Closure(Graph[t], Through)' = Closure(Graph[t], Through)
    BY <1>3, <1>5
  <1>7. Closure(Graph[t], Through) \subseteq DOMAIN targets
    BY DEF Closure, Through
  <1>8. \A s : LinkSources(t, s)' = LinkSources(t, s)
    BY <1>2, <1>6, <1>7 DEF LinkSources
  <1>9. \A u : LinkFlags(u)' = LinkFlags(u)
    BY <1>1, OriginalStays DEF LinkFlags
  <1>10. \A u : /\ AllLink(Deep(u))' = AllLink(Deep(u))
                /\ AllFlags(Deep(u))' = AllFlags(Deep(u))
                /\ DirectLink(Imported(u))' = DirectLink(Imported(u))
                /\ DirectFlags(Imported(u))' = DirectFlags(Imported(u))
    BY <1>1, <1>3, OriginalStays DEF AllFlags, AllLink, DirectFlags, DirectLink
  <1>11. \A u : LinkOf(u)' = LinkOf(u)
    BY <1>9, <1>10 DEF LinkOf
  <1>12. Original(t)' = Original(t)
    BY <1>1, OriginalStays
  <1> QED
    BY <1>2, <1>8, <1>10, <1>11, <1>12 DEF Due

\* After the third round a target has what is due to it.
LEMMA PublishedLink ==
    ASSUME Nodes, Publishing("link"), SameGraph, NEW t \in DOMAIN targets,
           \A u \in DOMAIN targets : AfterDirect(u)
    PROVE  Flags(t)' = Due(t)'
  <1>1. PICK d, e, l, s :
          /\ d = targets[t] /\ e = targets'[t] /\ s = targets[t].sharedlib_linksettings
          /\ l = LinkDependencies(t, s)
    OBVIOUS
  <1>2. DependenciesFor("link", t) = l
    BY <1>1 DEF DependenciesFor, DependenciesForLinkSettings
  <1>3. PublishedTo(d, l, "link", e)
    BY <1>1, <1>2 DEF Publishing
  <1>4. ASSUME NEW x
        PROVE  x \in ToSet(e.flags) <=>
                 x \in ToSet(d.flags) \/ \E u \in ToSet(l) : x \in ToSet(targets[u].settings.link.flags)
    BY <1>3 DEF PublishedTo
  <1>5. Flags(t)' = ToSet(e.flags)
    BY <1>1 DEF Flags
  <1>6. PICK own : own = ToSet(Original(t).flags) \cup AllFlags(Deep(t)) \cup DirectFlags(Imported(t))
    OBVIOUS
  <1>7. ToSet(d.flags) = own
    BY <1>1, <1>6 DEF AfterDirect, Flags
  <1>8. CASE targets[t].type \in LinkableTypes
    <2>1. LinkedBy(l, t, s)
      BY <1>1, <1>8, LinkWalkFacts
    <2>2. ToSet(l) = LinkSources(t, s)
      BY <1>8, <2>1, LinkedFacts
    <2>3. ToSet(l) \subseteq DOMAIN targets
      BY <2>1, ToSetOfSeq DEF LinkedBy
    <2>4. \A u \in ToSet(l) : ToSet(targets[u].settings.link.flags) = LinkOf(u)
      BY <2>3 DEF AfterDirect, OwnLink
    <2>5. Due(t) = own \cup UNION {LinkOf(u) : u \in LinkSources(t, s)}
      BY <1>1, <1>6, <1>8 DEF Due
    <2>6. ToSet(e.flags) = Due(t)
      BY <1>4, <1>7, <2>2, <2>4, <2>5
    <2> QED
      BY <1>5, <2>6, DueStays
  <1>9. CASE targets[t].type \notin LinkableTypes
    <2>1. l = <<>>
      BY <1>1, <1>9 DEF LinkDependencies
    <2>2. ToSet(e.flags) = own
      BY <1>4, <1>7, <2>1, ToSetOfEmpty
    <2>3. Due(t) = own
      BY <1>6, <1>9 DEF Due
    <2> QED
      BY <1>5, <2>2, <2>3, DueStays
  <1> QED
    BY <1>8, <1>9

\* What is known of the exports once the targets have nodes.
LEMMA ExportingFacts ==
    ASSUME LoadInv, stage \in WithNodes
    PROVE  Exporting
  <1>1. Nodes
    BY NodedFacts
  <1> QED
    BY <1>1 DEF Exporting, LoadInv, LoadFacts, NoRepeats

\* That exports lead to targets only is what DirectAndImportedDependencies finds.
LEMMA ExportsLead ==
    ASSUME Exporting, NEW t \in DOMAIN targets
    PROVE  ToSet(DirectAndImportedDependencies(t)) \subseteq DOMAIN targets <=>
               \E R \in SUBSET DOMAIN targets : ExportsLeadTo(Graph[t], R)
  <1>1. PICK r : r = DirectAndImportedDependencies(t)
    OBVIOUS
  <1>2. ImportsOf(r, t)
    BY <1>1, ImportsFacts
  <1>3. ASSUME ToSet(r) \subseteq DOMAIN targets
        PROVE  \E R \in SUBSET DOMAIN targets : ExportsLeadTo(Graph[t], R)
    <2>1. ExportsLeadTo(Graph[t], ToSet(r))
      BY <1>2, <1>3 DEF ImportsOf, ExportsLeadTo
    <2> QED
      BY <1>3, <2>1
  <1>4. ASSUME NEW R \in SUBSET DOMAIN targets, ExportsLeadTo(Graph[t], R)
        PROVE  ToSet(r) \subseteq DOMAIN targets
    <2>1. Graph[t] \subseteq R /\ \A u \in R \cap DOMAIN targets : ExportsOf[u] \subseteq R
      BY <1>4 DEF ExportsLeadTo
    <2>2. ToSet(r) \subseteq R
      BY <1>2, <2>1 DEF ImportsOf
    <2> QED
      BY <2>2
  <1> QED
    BY <1>1, <1>3, <1>4

\* Exports lead to the same targets while the graph stays.
LEMMA ExportsFoundStays ==
    ASSUME SameGraph,
           \A t \in DOMAIN targets : \E R \in SUBSET DOMAIN targets : ExportsLeadTo(Graph[t], R)
    PROVE  ExportsFound'
  <1>1. DOMAIN targets' = DOMAIN targets /\ Graph' = Graph /\ ExportsOf' = ExportsOf
    BY SameGraphFacts DEF SameGraph
  <1> QED
    BY <1>1 DEF ExportsFound, ExportsLeadTo

\* The three rounds of DoDependentSettings keep the invariant.
LEMMA PublishAllInv ==
    ASSUME LoadInv, DoDependentSettings("all", "direct")
    PROVE  LoadInv'
  <1>1. /\ stage = "all" /\ stage' = "direct" /\ project' = project /\ UNCHANGED graphVars
    BY DEF DoDependentSettings, Proceed
  <1>2. /\ stage \in WithNodes \ Adjusted /\ stage \in WithNodes /\ stage \in Listed
        /\ stage \in Unpublished /\ stage' \in Settling
    BY <1>1 DEF WithNodes, Listed, Adjusted, Unpublished, Settling
  <1>3. Nodes /\ Dicts
    BY <1>2, NodedFacts DEF Nodes
  <1>4. \A t \in DOMAIN targets : /\ targets[t].flags = Original(t).flags
                                  /\ targets[t].settings = Original(t).settings
    BY <1>2 DEF LoadInv, LoadFacts, AsWritten
  <1>5. ASSUME NEW t \in DOMAIN targets
        PROVE  /\ IsList(DependenciesFor("all", t))
               /\ ToSet(DependenciesFor("all", t)) \subseteq DOMAIN targets
    <2>1. PICK l : l = DeepDependencies(t)
      OBVIOUS
    <2>2. DependenciesFor("all", t) = l
      BY <2>1 DEF DependenciesFor
    <2>3. l \in Seq(DOMAIN targets)
      BY <1>3, <2>1, DeepFacts
    <2> QED
      BY <2>2, <2>3, ListOfSeq, ToSetOfSeq
  <1>6. "all" \in Keys
    BY DEF Keys
  <1>7. Publishing("all")
    BY <1>1, <1>3, <1>5, <1>6, PublishAll
  <1>8. /\ SameGraph /\ project' \in Projects /\ Dicts' /\ ListInv'
        /\ \A t \in DOMAIN targets' : /\ Distinct(targets'[t].exports) /\ HasNode(t)'
                                      /\ targets'[t].dependencies = targets'[t].node
        /\ in_degree_zeros' = {} /\ ToSet(flat_list') = DOMAIN targets'
    BY <1>1, <1>2, <1>6, <1>7, PublishingKeeps
  <1>9. \A t \in DOMAIN targets : AfterAll(t)'
    BY <1>3, <1>4, <1>7, <1>8, PublishedAll
  <1>10. Published'
    BY <1>1, <1>8, <1>9 DEF Published, SettingsReachTheirTargets, SameGraph
  <1>11. ExportsFound'
    BY <1>1 DEF ExportsFound
  <1> QED
    BY <1>2, <1>8, <1>10, <1>11, SettlingInv

LEMMA PublishDirectInv ==
    ASSUME LoadInv, DoDependentSettings("direct", "link")
    PROVE  LoadInv'
  <1>1. CASE ExportNotFound
    <2>1. Fail("export not found")
      BY <1>1 DEF DoDependentSettings
    <2> QED
      BY <2>1, FailInv
  <1>2. CASE ~ExportNotFound
    <2>1. /\ stage = "direct" /\ stage' = "link" /\ project' = project /\ UNCHANGED graphVars
      BY <1>2 DEF DoDependentSettings, Proceed
    <2>2. /\ stage \in WithNodes \ Adjusted /\ stage \in WithNodes /\ stage \in Listed
          /\ stage' \in Settling
      BY <2>1 DEF WithNodes, Listed, Adjusted, Settling
    <2>3. Exporting /\ Dicts
      BY <2>2, ExportingFacts DEF Exporting, Nodes
    <2>4. \A t \in DOMAIN targets : AfterAll(t)
      BY <2>1 DEF LoadInv, LoadFacts, Published
    <2>5. ASSUME NEW t \in DOMAIN targets
          PROVE  /\ IsList(DependenciesFor("direct", t))
                 /\ ToSet(DependenciesFor("direct", t)) \subseteq DOMAIN targets
      <3>1. PICK l : l = DirectAndImportedDependencies(t)
        OBVIOUS
      <3>2. DependenciesFor("direct", t) = l
        BY <3>1 DEF DependenciesFor
      <3>3. ImportsOf(l, t)
        BY <2>3, <3>1, ImportsFacts
      <3> QED
        BY <1>2, <3>1, <3>2, <3>3 DEF ImportsOf, ExportNotFound
    <2>6. "direct" \in Keys
      BY DEF Keys
    <2>7. Publishing("direct")
      BY <2>1, <2>3, <2>5, <2>6, PublishAll
    <2>8. /\ SameGraph /\ project' \in Projects /\ Dicts' /\ ListInv'
          /\ \A t \in DOMAIN targets' : /\ Distinct(targets'[t].exports) /\ HasNode(t)'
                                        /\ targets'[t].dependencies = targets'[t].node
          /\ in_degree_zeros' = {} /\ ToSet(flat_list') = DOMAIN targets'
      BY <2>1, <2>2, <2>6, <2>7, PublishingKeeps
    <2>9. \A t \in DOMAIN targets : AfterDirect(t)'
      BY <1>2, <2>3, <2>4, <2>7, <2>8, PublishedDirect
    <2>10. Published'
      BY <2>1, <2>8, <2>9 DEF Published, SettingsReachTheirTargets, SameGraph
    <2>11. \A t \in DOMAIN targets : \E R \in SUBSET DOMAIN targets : ExportsLeadTo(Graph[t], R)
      BY <1>2, <2>3, ExportsLead DEF ExportNotFound
    <2>12. ExportsFound'
      BY <2>8, <2>11, ExportsFoundStays
    <2> QED
      BY <2>2, <2>8, <2>10, <2>12, SettlingInv
  <1> QED
    BY <1>1, <1>2

LEMMA PublishLinkInv ==
    ASSUME LoadInv, DoDependentSettings("link", "adjust")
    PROVE  LoadInv'
  <1>1. /\ stage = "link" /\ stage' = "adjust" /\ project' = project /\ UNCHANGED graphVars
    BY DEF DoDependentSettings, Proceed
  <1>2. /\ stage \in WithNodes \ Adjusted /\ stage \in WithNodes /\ stage \in Listed
        /\ stage' \in Settling
    BY <1>1 DEF WithNodes, Listed, Adjusted, Settling
  <1>3. Nodes /\ Dicts
    BY <1>2, NodedFacts DEF Nodes
  <1>4. \A t \in DOMAIN targets : AfterDirect(t)
    BY <1>1 DEF LoadInv, LoadFacts, Published
  <1>5. ASSUME NEW t \in DOMAIN targets
        PROVE  /\ IsList(DependenciesFor("link", t))
               /\ ToSet(DependenciesFor("link", t)) \subseteq DOMAIN targets
    <2>1. PICK l, s : s = targets[t].sharedlib_linksettings /\ l = LinkDependencies(t, s)
      OBVIOUS
    <2>2. DependenciesFor("link", t) = l
      BY <2>1 DEF DependenciesFor, DependenciesForLinkSettings
    <2>3. l \in Seq(DOMAIN targets)
      <3>1. CASE targets[t].type \in LinkableTypes
        <4>1. LinkedBy(l, t, s)
          BY <1>3, <2>1, <3>1, LinkWalkFacts
        <4> QED
          BY <4>1 DEF LinkedBy
      <3>2. CASE targets[t].type \notin LinkableTypes
        BY <2>1, <3>2 DEF LinkDependencies
      <3> QED
        BY <3>1, <3>2
    <2> QED
      BY <2>2, <2>3, ListOfSeq, ToSetOfSeq
  <1>6. "link" \in Keys
    BY DEF Keys
  <1>7. Publishing("link")
    BY <1>1, <1>3, <1>5, <1>6, PublishAll
  <1>8. /\ SameGraph /\ project' \in Projects /\ Dicts' /\ ListInv'
        /\ \A t \in DOMAIN targets' : /\ Distinct(targets'[t].exports) /\ HasNode(t)'
                                      /\ targets'[t].dependencies = targets'[t].node
        /\ in_degree_zeros' = {} /\ ToSet(flat_list') = DOMAIN targets'
    BY <1>1, <1>2, <1>6, <1>7, PublishingKeeps
  <1>9. \A t \in DOMAIN targets : Flags(t)' = Due(t)'
    BY <1>3, <1>4, <1>7, <1>8, PublishedLink
  <1>10. Published'
    BY <1>1, <1>8, <1>9 DEF Published, SettingsReachTheirTargets, SameGraph
  <1>11. \A t \in DOMAIN targets : \E R \in SUBSET DOMAIN targets : ExportsLeadTo(Graph[t], R)
    BY <1>1 DEF LoadInv, LoadFacts, ExportsFound
  <1>12. ExportsFound'
    BY <1>8, <1>11, ExportsFoundStays
  <1> QED
    BY <1>2, <1>8, <1>10, <1>12, SettlingInv

\* Every target is listed.
AllListed == ListInv /\ Nodes /\ ToSet(flat_list) = DOMAIN targets

-----------------------------------------------------------------------------
(***************************************************************************)
(* The dependencies that are adjusted.                                     *)
(***************************************************************************)
\* What is listed before a target holds its dependencies, and with every target those
\* of that one.
LEMMA EarlierFacts ==
    ASSUME AllListed, NEW i \in 1..Len(flat_list), NEW E, E = FirstSet(flat_list, i - 1)
    PROVE  /\ flat_list[i] \in DOMAIN targets /\ flat_list[i] \notin E
           /\ E \subseteq DOMAIN targets /\ Graph[flat_list[i]] \subseteq E
           /\ \A u \in E : Graph[u] \subseteq E
  <1>1. PICK l, n : l = flat_list /\ n = Len(l)
    OBVIOUS
  <1>2. /\ l \in Seq(DOMAIN nodes) /\ n \in Nat
        /\ \A k \in 1..n : nodes[l[k]] \subseteq FirstSet(l, k - 1)
        /\ \A j, k \in 1..n : l[j] = l[k] => j = k
    BY <1>1 DEF AllListed, ListInv, DependenciesComeFirst, FirstSet
  <1>3. \A k \in 1..n : l[k] \in DOMAIN targets
    <2>1. ToSet(l) = {l[k] : k \in 1..n}
      BY <1>1, <1>2, ToSetOfSeq
    <2> QED
      BY <1>1, <2>1 DEF AllListed
  <1>4. \A u \in DOMAIN targets : Graph[u] = nodes[u]
    BY NodesFacts DEF AllListed
  <1>5. i \in 1..n /\ E = {l[j] : j \in 1..(i - 1)}
    BY <1>1 DEF FirstSet
  <1>6. 1..(i - 1) \subseteq 1..n /\ i \notin 1..(i - 1)
    BY <1>2, <1>5
  <1>7. ASSUME NEW k \in 1..(i - 1) PROVE FirstSet(l, k - 1) \subseteq E
    <2>1. 1..(k - 1) \subseteq 1..(i - 1)
      BY <1>2, <1>5
    <2> QED
      BY <1>5, <2>1 DEF FirstSet
  <1>8. l[i] \in DOMAIN targets /\ l[i] \notin E
    BY <1>2, <1>3, <1>5, <1>6
  <1>9. E \subseteq DOMAIN targets
    BY <1>3, <1>5, <1>6
  <1>10. Graph[l[i]] \subseteq E
    BY <1>2, <1>4, <1>5, <1>8 DEF FirstSet
  <1>11. ASSUME NEW u \in E PROVE Graph[u] \subseteq E
    <2>1. PICK k \in 1..(i - 1) : u = l[k]
      BY <1>5
    <2>2. k \in 1..n
      BY <1>6
    <2> QED
      BY <1>2, <1>4, <1>7, <1>9, <2>1, <2>2
  <1> QED
    BY <1>1, <1>8, <1>9, <1>10, <1>11

\* No element of the list r stands before one that depends on it.
DependentsFirst(r) ==
    \A i, j \in DOMAIN r : r[i] \in Graph[r[j]] => j < i

\* What is selected from the reversed list has dependents first.
LEMMA SortedFacts ==
    ASSUME AllListed, NEW S, S \subseteq DOMAIN targets,
           NEW r, r = Select(Reverse(flat_list), S)
    PROVE  IsList(r) /\ ToSet(r) = S /\ DependentsFirst(r)
  <1>1. PICK f, l, n, D : /\ f = flat_list /\ n = Len(f) /\ D = DOMAIN targets
                          /\ l = [k \in 1..n |-> f[(n - k) + 1]]
    OBVIOUS
  <1>2. /\ f \in Seq(DOMAIN nodes) /\ n \in Nat
        /\ \A k \in 1..n : nodes[f[k]] \subseteq {f[j] : j \in 1..(k - 1)}
        /\ \A j, k \in 1..n : f[j] = f[k] => j = k
    BY <1>1 DEF AllListed, ListInv, DependenciesComeFirst
  <1>3. ToSet(f) = {f[k] : k \in 1..n} /\ ToSet(f) = D
    BY <1>1, <1>2, ToSetOfSeq DEF AllListed
  <1>4. \A k \in 1..n : (n - k) + 1 \in 1..n /\ n - ((n - k) + 1) + 1 = k
    BY <1>2
  <1>5. \A k \in 1..n : l[k] = f[(n - k) + 1] /\ l[k] \in D
    BY <1>1, <1>3, <1>4
  <1>6. l \in Seq(D) /\ Len(l) = n
    BY <1>1, <1>2, <1>5
  <1>7. \A k \in 1..n : l[(n - k) + 1] = f[k]
    BY <1>4, <1>5
  <1>8. ToSet(l) = D
    <2>1. ToSet(l) = {l[k] : k \in 1..n}
      BY <1>6, ToSetOfSeq
    <2> QED
      BY <1>3, <1>4, <1>5, <1>7, <2>1
  <1>9. \A j, k \in 1..n : l[j] = l[k] => j = k
    <2>1. SUFFICES ASSUME NEW j \in 1..n, NEW k \in 1..n, l[j] = l[k] PROVE j = k
      OBVIOUS
    <2>2. (n - j) + 1 = (n - k) + 1
      BY <1>2, <1>4, <1>5, <2>1
    <2> QED
      BY <1>2, <2>2
  <1>10. r = Select(l, S)
    BY <1>1 DEF Reverse
  <1>11. r \in Seq(D) /\ Selected(l, S, n, r)
    BY <1>6, <1>10, SelectFacts
  <1>12. IsList(r) /\ DOMAIN r = 1..Len(r)
    BY <1>11, ListOfSeq
  <1>13. ToSet(r) = S
    <2>1. ToSet(r) = ToSet(l) \cap S
      BY <1>6, <1>10, SelectSet
    <2> QED
      BY <1>1, <1>8, <2>1
  <1>14. ASSUME NEW i \in 1..Len(r), NEW j \in 1..Len(r), r[i] \in Graph[r[j]]
         PROVE  j < i
    <2>1. PICK a \in 1..n : r[j] = l[a]
      BY <1>11 DEF Selected
    <2>2. PICK b \in 1..n : r[i] = l[b]
      BY <1>11 DEF Selected
    <2>3. PICK x, y : x = (n - a) + 1 /\ y = (n - b) + 1
      OBVIOUS
    <2>4. x \in 1..n /\ y \in 1..n /\ l[a] = f[x] /\ l[b] = f[y]
      BY <1>4, <1>5, <2>3
    <2>5. Graph[r[j]] = nodes[f[x]]
      <3>1. r[j] \in DOMAIN targets
        BY <1>1, <1>5, <2>1
      <3> QED
        BY <2>1, <2>4, <3>1, NodesFacts DEF AllListed
    <2>6. PICK z \in 1..(x - 1) : f[y] = f[z]
      <3>1. f[y] \in nodes[f[x]]
        BY <1>14, <2>2, <2>4, <2>5
      <3>2. nodes[f[x]] \subseteq {f[k] : k \in 1..(x - 1)}
        BY <1>2, <2>4
      <3> QED
        BY <3>1, <3>2
    <2>7. z \in 1..n
      BY <1>2, <2>4
    <2>8. y < x
      BY <1>2, <2>4, <2>6, <2>7
    <2>9. a < b
      BY <1>2, <2>3, <2>8
    <2> QED
      BY <1>9, <1>11, <2>1, <2>2, <2>9 DEF Selected
  <1> QED
    BY <1>12, <1>13, <1>14 DEF DependentsFirst

\* What is linked into t: of the targets that can be linked, what the walk finds.
LEMMA LinkableFacts ==
    ASSUME AllListed, NEW t \in DOMAIN targets, targets[t].type \in LinkableTypes,
           targets[t].dependencies = targets[t].node,
           NEW l, l = DependenciesToLinkAgainst(t), NEW r, r = LinkableDependencies(t)
    PROVE  /\ LinkedBy(l, t, TRUE) /\ IsList(r)
           /\ ToSet(r) = Graph[t] \cup (ToSet(l) \ {t})
           /\ project.sorted_dependencies => DependentsFirst(r)
  <1>1. PICK D, node, rest, all :
          /\ D = DOMAIN targets /\ node = targets[t].node /\ rest = Filter(l, t)
          /\ all = Unify(node \o rest)
    OBVIOUS
  <1>2. Nodes
    BY DEF AllListed
  <1>3. LinkedBy(l, t, TRUE)
    BY <1>2, LinkWalkFacts DEF DependenciesToLinkAgainst
  <1>4. node \in Seq(D) /\ Graph[t] = ToSet(node) /\ Graph[t] \subseteq D
    BY <1>1, <1>2, NodesFacts
  <1>5. l \in Seq(D)
    BY <1>1, <1>3 DEF LinkedBy
  <1>6. rest = Select(l, ToSet(l) \ {t})
    BY <1>1 DEF Filter
  <1>7. rest \in Seq(D) /\ ToSet(rest) = ToSet(l) \cap (ToSet(l) \ {t})
    BY <1>5, <1>6, SelectSet
  <1>8. node \o rest \in Seq(D) /\ ToSet(node \o rest) = ToSet(node) \cup ToSet(rest)
    BY <1>4, <1>7, ConcatFacts
  <1>9. all \in Seq(D) /\ ToSet(all) = ToSet(node \o rest)
    BY <1>1, <1>8, UnifyFacts
  <1>10. ToSet(all) = Graph[t] \cup (ToSet(l) \ {t})
    BY <1>4, <1>7, <1>8, <1>9
  <1>11. ToSet(all) \subseteq DOMAIN targets
    BY <1>1, <1>9, ToSetOfSeq
  <1>12. CASE project.sorted_dependencies
    <2>1. PICK S : S = ToSet(all)
      OBVIOUS
    <2>2. r = Select(Reverse(flat_list), S)
      BY <1>1, <1>12, <2>1 DEF LinkableDependencies
    <2>3. IsList(r) /\ ToSet(r) = S /\ DependentsFirst(r)
      BY <1>11, <2>1, <2>2, SortedFacts
    <2> QED
      BY <1>3, <1>10, <2>1, <2>3
  <1>13. CASE ~project.sorted_dependencies
    <2>1. r = all
      BY <1>1, <1>13 DEF LinkableDependencies
    <2>2. IsList(r)
      BY <1>9, <2>1, ListOfSeq
    <2> QED
      BY <1>3, <1>10, <1>13, <2>1, <2>2
  <1> QED
    BY <1>12, <1>13

\* The static libraries that are linked into t are found, and what is found is listed
\* before t.
LEMMA LinkedSafely ==
    ASSUME AllListed, NEW t \in DOMAIN targets, targets[t].type \in LinkableTypes,
           NEW l, LinkedBy(l, t, TRUE)
    PROVE  /\ Needed(t) \subseteq Graph[t] \cup (ToSet(l) \ {t})
           /\ \A E \in SUBSET DOMAIN targets :
                 Graph[t] \subseteq E /\ (\A u \in E : Graph[u] \subseteq E)
                    => ToSet(l) \ {t} \subseteq E
  <1>1. PICK D, L, F, N : /\ D = DOMAIN targets /\ L = ToSet(l) /\ F = Entered(TRUE)
                          /\ N = StaticStep(t)
    OBVIOUS
  <1>2. /\ t \in L /\ Graph[t] \cap F \subseteq L
        /\ \A u \in L \ {t} : Through[u] \cap F \subseteq L
        /\ \A X \in SUBSET D :
             Graph[t] \cap F \subseteq X /\ (\A u \in X \cap F : Through[u] \cap F \subseteq X)
                => L \subseteq {t} \cup X
    BY <1>1 DEF LinkedBy
  <1>3. t \in D /\ DOMAIN Graph = D /\ \A u \in D : Graph[u] \subseteq D
    BY <1>1, NodesFacts DEF AllListed
  <1>4. \A u \in D : Through[u] = IF Ends(u) THEN {} ELSE Graph[u]
    BY <1>1 DEF Through
  <1>5. \A E \in SUBSET D : Graph[t] \subseteq E /\ (\A u \in E : Graph[u] \subseteq E)
                    => L \ {t} \subseteq E
    <2>1. SUFFICES ASSUME NEW E \in SUBSET D, Graph[t] \subseteq E, \A u \in E : Graph[u] \subseteq E
                   PROVE  L \ {t} \subseteq E
      OBVIOUS
    <2>2. \A u \in E : Through[u] \subseteq E
      BY <1>4, <2>1
    <2>3. L \subseteq {t} \cup E
      BY <1>2, <2>1, <2>2
    <2> QED
      BY <2>3
  <1>6. targets[t].type # "static_library"
    BY DEF LinkableTypes
  <1>7. \A u \in D : targets[u].type = "static_library" => u \in F /\ ~Ends(u)
    BY <1>1 DEF Entered, Ends, LinkableTypes
  <1>8. DOMAIN N = D /\ \A u \in D : N[u] = IF u = t \/ targets[u].type = "static_library"
                                            THEN Graph[u] ELSE {}
    BY <1>1, <1>3 DEF StaticStep
  <1>9. PICK Y : Y = {u \in D : targets[u].type = "static_library" => u \in L}
    OBVIOUS
  <1>10. Graph[t] \subseteq Y
    BY <1>2, <1>3, <1>7, <1>9
  <1>11. ASSUME NEW u \in Y PROVE N[u] \subseteq Y
    <2>1. u \in D /\ Graph[u] \subseteq D
      BY <1>3, <1>9
    <2>2. CASE u = t
      BY <1>8, <1>10, <2>1, <2>2
    <2>3. CASE u # t /\ targets[u].type = "static_library"
      <3>1. u \in L \ {t} /\ ~Ends(u)
        BY <1>7, <1>9, <2>1, <2>3
      <3>2. Graph[u] \cap F \subseteq L
        BY <1>2, <1>4, <2>1, <3>1
      <3>3. Graph[u] \subseteq Y
        BY <1>7, <1>9, <2>1, <3>2
      <3> QED
        BY <1>8, <2>1, <2>3, <3>3
    <2>4. CASE u # t /\ targets[u].type # "static_library"
      BY <1>8, <2>1, <2>4
    <2> QED
      BY <2>2, <2>3, <2>4
  <1>12. Closure(Graph[t], N) \subseteq Y
    <2>1. Graph[t] \subseteq DOMAIN N /\ \A u \in DOMAIN N : N[u] \subseteq DOMAIN N
      BY <1>3, <1>8
    <2>2. Y \in SUBSET DOMAIN N
      BY <1>8, <1>9
    <2> QED
      BY <1>10, <1>11, <2>1, <2>2, ClosureFacts
  <1>13. Needed(t) \subseteq L \ {t}
    BY <1>1, <1>6, <1>9, <1>12 DEF Needed
  <1> QED
    BY <1>1, <1>5, <1>13

\* What a static library keeps: hard dependencies that are imported, and what is listed
\* before it where exports are dependencies.
LEMMA StaticFacts ==
    ASSUME AllListed, Exporting, NEW t \in DOMAIN targets,
           targets[t].type = "static_library",
           \E R \in SUBSET DOMAIN targets : ExportsLeadTo(Graph[t], R),
           NEW r, r = StaticDependencies(t)
    PROVE  /\ IsList(r) /\ ToSet(r) \subseteq DOMAIN targets
           /\ \A u \in Imported(t) :
                 targets[u].hard_dependency /\ targets[u].type = "static_library" => u \in ToSet(r)
           /\ ExportsAreDependencies =>
                 \A E \in SUBSET DOMAIN targets :
                     Graph[t] \subseteq E /\ (\A u \in E : Graph[u] \subseteq E)
                        => ToSet(r) \subseteq E
  <1>1. PICK D, l, S :
          /\ D = DOMAIN targets /\ l = DirectAndImportedDependencies(t)
          /\ S = {dep \in DOMAIN targets : IF targets[dep].type = "static_library"
                                           THEN targets[dep].hard_dependency
                                           ELSE dep \in ToSet(targets[t].dependencies)}
    OBVIOUS
  <1>2. ImportsOf(l, t)
    BY <1>1, ImportsFacts
  <1>3. ToSet(l) \subseteq D
    BY <1>1, ExportsLead
  <1>4. /\ IsList(l) /\ ToSet(l) = Imported(t)
        /\ \A X : Graph[t] \subseteq X /\ (\A u \in X \cap DOMAIN targets : ExportsOf[u] \subseteq X)
             => ToSet(l) \subseteq X
    BY <1>1, <1>2, <1>3 DEF ImportsOf
  <1>5. r = Select(l, S)
    BY <1>1 DEF StaticDependencies
  <1>6. IsList(r) /\ ToSet(r) = ToSet(l) \cap S
    BY <1>4, <1>5, SelectIsList
  <1>7. ASSUME NEW u \in Imported(t), targets[u].hard_dependency,
               targets[u].type = "static_library"
        PROVE  u \in ToSet(r)
    <2>1. u \in S
      BY <1>1, <1>3, <1>4, <1>7
    <2> QED
      BY <1>4, <1>6, <2>1
  <1>8. ASSUME ExportsAreDependencies, NEW E \in SUBSET D,
               Graph[t] \subseteq E, \A u \in E : Graph[u] \subseteq E
        PROVE  ToSet(r) \subseteq E
    <2>1. \A u \in E \cap DOMAIN targets : ExportsOf[u] \subseteq E
      BY <1>8 DEF ExportsAreDependencies, ExportsOf
    <2>2. ToSet(l) \subseteq E
      BY <1>4, <1>8, <2>1
    <2> QED
      BY <1>6, <2>2
  <1> QED
    BY <1>1, <1>3, <1>6, <1>7, <1>8

\* The dependencies deps of t are what AdjustStaticLibraryDependencies may make of them.
Safe(t, deps) ==
    /\ IsList(deps) /\ ToSet(deps) \subseteq DOMAIN targets
    /\ (project.adjust_static_libraries => ExportsAreDependencies) =>
          \A E \in SUBSET DOMAIN targets :
              Graph[t] \subseteq E /\ (\A u \in E : Graph[u] \subseteq E)
                 => ToSet(deps) \subseteq E
    /\ project.adjust_static_libraries /\ targets[t].type \in LinkableTypes =>
          /\ Needed(t) \subseteq ToSet(deps)
          /\ project.sorted_dependencies => DependentsFirst(deps)
    /\ project.adjust_static_libraries /\ targets[t].type = "static_library" =>
          \A u \in Imported(t) :
              targets[u].hard_dependency /\ targets[u].type = "static_library"
                 => u \in ToSet(deps)

\* A static library is not linked.
LEMMA StaticIsNotLinked == "static_library" \notin LinkableTypes
  BY DEF LinkableTypes

\* Dependencies that are not adjusted are safe.
LEMMA NodeIsSafe ==
    ASSUME AllListed, NEW t \in DOMAIN targets,
           project.adjust_static_libraries =>
              targets[t].type \notin LinkableTypes /\ targets[t].type # "static_library"
    PROVE  Safe(t, targets[t].node)
  <1>1. PICK node : node = targets[t].node
    OBVIOUS
  <1>2. node \in Seq(DOMAIN targets) /\ Graph[t] = ToSet(node) /\ Graph[t] \subseteq DOMAIN targets
    BY <1>1, NodesFacts DEF AllListed
  <1>3. IsList(node)
    BY <1>2, ListOfSeq
  <1> QED
    BY <1>1, <1>2, <1>3 DEF Safe

\* So are adjusted ones.
LEMMA AdjustedIsSafe ==
    ASSUME AllListed, Exporting, project.adjust_static_libraries, NEW t \in DOMAIN targets,
           targets[t].dependencies = targets[t].node,
           \E R \in SUBSET DOMAIN targets : ExportsLeadTo(Graph[t], R)
    PROVE  Safe(t, AdjustedDependencies(t))
  <1>1. PICK r : r = AdjustedDependencies(t)
    OBVIOUS
  <1>2. CASE targets[t].type = "static_library"
    <2>1. r = StaticDependencies(t)
      <3>1. targets[t].type \notin LinkableTypes
        BY <1>2, StaticIsNotLinked
      <3> QED
        BY <1>1, <1>2, <3>1 DEF AdjustedDependencies
    <2>2. /\ IsList(r) /\ ToSet(r) \subseteq DOMAIN targets
          /\ \A u \in Imported(t) :
                targets[u].hard_dependency /\ targets[u].type = "static_library" => u \in ToSet(r)
          /\ ExportsAreDependencies =>
                \A E \in SUBSET DOMAIN targets :
                    Graph[t] \subseteq E /\ (\A u \in E : Graph[u] \subseteq E)
                       => ToSet(r) \subseteq E
      BY <1>2, <2>1, StaticFacts
    <2> QED
      BY <1>1, <1>2, <2>2, StaticIsNotLinked DEF Safe
  <1>3. CASE targets[t].type \in LinkableTypes
    <2>1. r = LinkableDependencies(t) /\ targets[t].type # "static_library"
      BY <1>1, <1>3, StaticIsNotLinked DEF AdjustedDependencies
    <2>2. PICK l : l = DependenciesToLinkAgainst(t)
      OBVIOUS
    <2>3. /\ LinkedBy(l, t, TRUE) /\ IsList(r)
          /\ ToSet(r) = Graph[t] \cup (ToSet(l) \ {t})
          /\ project.sorted_dependencies => DependentsFirst(r)
      BY <1>3, <2>1, <2>2, LinkableFacts
    <2>4. /\ Needed(t) \subseteq Graph[t] \cup (ToSet(l) \ {t})
          /\ \A E \in SUBSET DOMAIN targets :
                Graph[t] \subseteq E /\ (\A u \in E : Graph[u] \subseteq E)
                   => ToSet(l) \ {t} \subseteq E
      BY <1>3, <2>3, LinkedSafely
    <2>5. ToSet(r) \subseteq DOMAIN targets
      <3>1. Graph[t] \subseteq DOMAIN targets
        BY NodesFacts DEF AllListed
      <3>2. ToSet(l) \subseteq DOMAIN targets
        <4>1. l \in Seq(DOMAIN targets)
          BY <2>3 DEF LinkedBy
        <4> QED
          BY <4>1, ToSetOfSeq
      <3> QED
        BY <2>3, <3>1, <3>2
    <2> QED
      BY <1>1, <1>3, <2>1, <2>3, <2>4, <2>5 DEF Safe
  <1>4. CASE targets[t].type # "static_library" /\ targets[t].type \notin LinkableTypes
    <2>1. r = targets[t].node
      BY <1>1, <1>4 DEF AdjustedDependencies
    <2> QED
      BY <1>1, <1>4, <2>1, NodeIsSafe
  <1> QED
    BY <1>2, <1>3, <1>4

\* When the dependencies of every target are safe, all are together.
LEMMA SafeForAll ==
    ASSUME AllListed, NEW deps, \A t \in DOMAIN targets : Safe(t, deps[t])
    PROVE  SafeDependencies(deps)
  <1>1. AreTargets(deps)
    BY DEF AreTargets, Safe
  <1>2. ASSUME project.adjust_static_libraries => ExportsAreDependencies PROVE ComeEarlier(deps)
    <2>1. DOMAIN flat_list = 1..Len(flat_list)
      BY DEF AllListed, ListInv
    <2>2. ASSUME NEW i \in 1..Len(flat_list)
          PROVE  ToSet(deps[flat_list[i]]) \subseteq FirstSet(flat_list, i - 1)
      <3>1. PICK E : E = FirstSet(flat_list, i - 1)
        OBVIOUS
      <3>2. PICK t : t = flat_list[i]
        OBVIOUS
      <3>3. /\ t \in DOMAIN targets /\ E \subseteq DOMAIN targets /\ Graph[t] \subseteq E
            /\ \A u \in E : Graph[u] \subseteq E
        BY <3>1, <3>2, EarlierFacts
      <3>4. \A X \in SUBSET DOMAIN targets :
              Graph[t] \subseteq X /\ (\A u \in X : Graph[u] \subseteq X)
                 => ToSet(deps[t]) \subseteq X
        BY <1>2, <3>3 DEF Safe
      <3> QED
        BY <3>1, <3>2, <3>3, <3>4
    <2> QED
      BY <2>1, <2>2 DEF ComeEarlier, FirstSet
  <1>3. ASSUME project.adjust_static_libraries PROVE LinksComplete(deps) /\ HardStay(deps)
    <2>1. LinksComplete(deps)
      BY <1>3 DEF LinksComplete, Safe, DependentsFirst
    <2>2. HardStay(deps)
      BY <1>3 DEF HardStay, Safe
    <2> QED
      BY <2>1, <2>2
  <1> QED
    BY <1>1, <1>2, <1>3 DEF SafeDependencies

\* A step that changes neither graph nor list leaves dependencies as safe as they are.
LEMMA SafeStays ==
    ASSUME SameGraph, flat_list' = flat_list, NEW deps, SafeDependencies(deps)
    PROVE  SafeDependencies(deps)'
  <1>1. /\ DOMAIN targets' = DOMAIN targets /\ project' = project /\ Graph' = Graph
        /\ \A t : Imported(t)' = Imported(t)
    BY SameGraphFacts DEF SameGraph
  <1>2. \A t \in DOMAIN targets :
           /\ targets'[t].type = targets[t].type /\ targets'[t].exports = targets[t].exports
           /\ targets'[t].hard_dependency = targets[t].hard_dependency
    BY DEF SameGraph, GraphKeys
  <1>3. DOMAIN Graph = DOMAIN targets
    BY DEF Graph
  <1>4. AreTargets(deps) => AreTargets(deps)'
    BY <1>1 DEF AreTargets
  <1>5. ComeEarlier(deps) => ComeEarlier(deps)'
    BY DEF ComeEarlier
  <1>6. ExportsAreDependencies' => ExportsAreDependencies
    BY <1>1, <1>2 DEF ExportsAreDependencies
  <1>7. ASSUME NEW t \in DOMAIN targets PROVE Needed(t)' = Needed(t)
    <2>1. StaticStep(t)' = StaticStep(t)
      BY <1>1, <1>2, <1>3 DEF StaticStep
    <2>2. PICK C : C = Closure(Graph[t], StaticStep(t))
      OBVIOUS
    <2>3. C = Closure(Graph[t], StaticStep(t))'
      BY <1>1, <2>1, <2>2 DEF Closure
    <2>4. C \subseteq DOMAIN targets
      BY <1>3, <2>2 DEF Closure, StaticStep
    <2> QED
      BY <1>2, <2>2, <2>3, <2>4 DEF Needed
  <1>8. LinksComplete(deps) => LinksComplete(deps)'
    BY <1>1, <1>2, <1>7 DEF LinksComplete
  <1>9. HardStay(deps) => HardStay(deps)'
    <2>1. \A t \in DOMAIN targets : Imported(t) \subseteq DOMAIN targets
      BY DEF Imported, Closure, ExportsOf
    <2> QED
      BY <1>1, <1>2, <2>1 DEF HardStay
  <1> QED
    BY <1>1, <1>4, <1>5, <1>6, <1>8, <1>9 DEF SafeDependencies

\* The stages after the dependencies were adjusted.
LEMMA AdjustedInv ==
    ASSUME stage' \in Adjusted, project' \in Projects, Dicts', ListInv',
           \A t \in DOMAIN targets' : Distinct(targets'[t].exports) /\ HasNode(t)',
           in_degree_zeros' = {}, ToSet(flat_list') = DOMAIN targets',
           AdjustedSafely'
    PROVE  LoadInv'
  <1>1. /\ stage' \notin Filtered /\ stage' \notin Unpublished
        /\ stage' \in WithNodes
    BY DEF Filtered, Unpublished, Adjusted, WithNodes, Listed
  <1>2. stage' \notin {"flatten files", "flatten targets", "direct", "link", "adjust"}
    BY DEF Adjusted
  <1>3. AsWritten' /\ NoRepeats'
    BY <1>1 DEF AsWritten, NoRepeats
  <1>4. NodesAreDependencies'
    BY DEF NodesAreDependencies
  <1>5. ListIsTargets'
    BY <1>2 DEF ListIsTargets
  <1>6. ExportsFound' /\ Published'
    BY <1>2 DEF ExportsFound, Published, SettingsReachTheirTargets
  <1> QED
    BY <1>3, <1>4, <1>5, <1>6 DEF LoadInv, LoadFacts

\* A step from one of the last stages that changes only the dependencies, and something
\* that is not looked at here.
LEMMA LateStep ==
    ASSUME LoadInv, stage \in Listed, stage' \in Adjusted, project' = project,
           UNCHANGED graphVars, DOMAIN targets' = DOMAIN targets,
           NEW deps, deps = [t \in DOMAIN targets |-> targets'[t].dependencies],
           SafeDependencies(deps),
           \A t \in DOMAIN targets :
              /\ IsList(deps[t]) /\ DOMAIN targets'[t] = DOMAIN targets[t]
              /\ \A k \in DOMAIN targets[t] \ {"dependencies", "dependencies_original", "rules"} :
                    targets'[t][k] = targets[t][k]
    PROVE  LoadInv'
  <1>1. /\ project \in Projects /\ Dicts /\ ListInv /\ in_degree_zeros = {}
        /\ ToSet(flat_list) = DOMAIN targets
    BY DEF LoadInv, LoadFacts, ListIsTargets
  <1>2. Exporting
    <2>1. stage \in WithNodes
      BY DEF WithNodes
    <2> QED
      BY <2>1, ExportingFacts
  <1>3. ASSUME NEW t \in DOMAIN targets
        PROVE  /\ IsTargetDict(targets'[t]) /\ "node" \in DOMAIN targets'[t]
               /\ \A k \in GraphKeys : targets'[t][k] = targets[t][k]
    <2>1. PICK d, e : d = targets[t] /\ e = targets'[t]
      OBVIOUS
    <2>2. /\ DOMAIN e = DOMAIN d /\ IsList(e.dependencies)
          /\ \A k \in DOMAIN d \ {"dependencies", "dependencies_original", "rules"} : e[k] = d[k]
      BY <2>1
    <2>3. IsTargetDict(d) /\ "node" \in DOMAIN d
      BY <1>1, <1>2, <2>1 DEF Dicts, Exporting, Nodes, HasNode
    <2>4. /\ e.toolsets = d.toolsets /\ e.exports = d.exports /\ e.excluded = d.excluded
          /\ e.exports_excluded = d.exports_excluded /\ e.flags = d.flags /\ e.settings = d.settings /\ e.node = d.node /\ e.type = d.type
          /\ e.dependencies_traverse = d.dependencies_traverse
          /\ e.sharedlib_linksettings = d.sharedlib_linksettings
          /\ e.hard_dependency = d.hard_dependency
      BY <2>2, <2>3 DEF IsTargetDict, WrittenKeys
    <2>5. IsTargetDict(e)
      <3>1. WrittenKeys \subseteq DOMAIN e
        BY <2>2, <2>3 DEF IsTargetDict
      <3>2. \A k \in {"toolsets", "dependencies", "exports", "excluded", "exports_excluded", "flags"} : IsList(e[k])
        BY <2>2, <2>3, <2>4 DEF IsTargetDict
      <3> QED
        BY <2>3, <2>4, <3>1, <3>2 DEF IsTargetDict
    <2>6. \A k \in GraphKeys : e[k] = d[k]
      BY <2>4 DEF GraphKeys
    <2> QED
      BY <2>1, <2>2, <2>3, <2>5, <2>6
  <1>4. SameGraph
    BY <1>3 DEF SameGraph, graphVars
  <1>5. Dicts'
    BY <1>1, <1>3 DEF Dicts
  <1>6. ListInv'
    BY <1>1, GraphStays
  <1>7. \A t \in DOMAIN targets' : Distinct(targets'[t].exports) /\ HasNode(t)'
    BY <1>2, <1>4, <1>5, SameGraphNodes
  <1>8. flat_list' = flat_list /\ in_degree_zeros' = in_degree_zeros
    BY DEF graphVars
  <1>9. SafeDependencies(deps)'
    BY <1>4, <1>8, SafeStays
  <1>10. AdjustedSafely'
    <2>1. deps = [t \in DOMAIN targets |-> targets[t].dependencies]'
      OBVIOUS
    <2> QED
      BY <1>9, <2>1 DEF AdjustedSafely
  <1> QED
    BY <1>1, <1>5, <1>6, <1>7, <1>8, <1>10, AdjustedInv

\* AdjustStaticLibraryDependencies keeps the invariant.
LEMMA AdjustInv ==
    ASSUME LoadInv, AdjustStaticLibraryDependencies
    PROVE  LoadInv'
  <1>1. /\ stage = "adjust" /\ stage' = "validate" /\ project' = project /\ UNCHANGED graphVars
    BY DEF AdjustStaticLibraryDependencies, Proceed
  <1>2. /\ stage \in Listed /\ stage \in WithNodes /\ stage \in WithNodes \ Adjusted
        /\ stage' \in Adjusted
    BY <1>1 DEF Listed, WithNodes, Adjusted
  <1>3. Exporting /\ AllListed
    <2>1. Exporting
      BY <1>2, ExportingFacts
    <2> QED
      BY <1>2, <2>1 DEF AllListed, Exporting, LoadInv, LoadFacts, ListIsTargets
  <1>4. \A t \in DOMAIN targets : /\ targets[t].dependencies = targets[t].node
                                  /\ \E R \in SUBSET DOMAIN targets : ExportsLeadTo(Graph[t], R)
    BY <1>1, <1>2 DEF LoadInv, LoadFacts, NodesAreDependencies, ExportsFound
  <1>5. PICK deps : deps = [t \in DOMAIN targets |-> targets'[t].dependencies]
    OBVIOUS
  <1>6. CASE ~project.adjust_static_libraries
    <2>1. targets' = targets
      BY <1>6 DEF AdjustStaticLibraryDependencies
    <2>2. ASSUME NEW t \in DOMAIN targets PROVE Safe(t, deps[t])
      BY <1>3, <1>4, <1>5, <1>6, <2>1, NodeIsSafe
    <2>3. SafeDependencies(deps)
      BY <1>3, <2>2, SafeForAll
    <2>4. \A t \in DOMAIN targets : IsList(deps[t])
      BY <2>2 DEF Safe
    <2> QED
      BY <1>1, <1>2, <1>5, <2>1, <2>3, <2>4, LateStep
  <1>7. CASE project.adjust_static_libraries
    <2>1. targets' = [t \in DOMAIN targets |->
                          [targets[t] EXCEPT
                             !.dependencies = AdjustedDependencies(t),
                             !.dependencies_original =
                                 IF targets[t].type = "static_library"
                                 THEN targets[t].dependencies ELSE @]]
      BY <1>7 DEF AdjustStaticLibraryDependencies
    <2>2. DOMAIN targets' = DOMAIN targets
      BY <2>1
    <2>3. ASSUME NEW t \in DOMAIN targets
          PROVE  /\ DOMAIN targets'[t] = DOMAIN targets[t]
                 /\ targets'[t].dependencies = AdjustedDependencies(t)
                 /\ \A k \in DOMAIN targets[t] \ {"dependencies", "dependencies_original", "rules"} :
                       targets'[t][k] = targets[t][k]
      <3>1. PICK d, e, a, o :
              /\ d = targets[t] /\ e = targets'[t] /\ a = AdjustedDependencies(t)
              /\ o = IF targets[t].type = "static_library"
                     THEN targets[t].dependencies ELSE targets[t].dependencies_original
        OBVIOUS
      <3>2. e = [d EXCEPT !.dependencies = a, !.dependencies_original = o]
        BY <2>1, <3>1
      <3>3. "dependencies" \in DOMAIN d
        BY <3>1, ListsOf
      <3> QED
        BY <3>1, <3>2, <3>3
    <2>4. ASSUME NEW t \in DOMAIN targets PROVE Safe(t, deps[t])
      <3>1. deps[t] = AdjustedDependencies(t)
        BY <1>5, <2>3
      <3> QED
        BY <1>3, <1>4, <1>7, <3>1, AdjustedIsSafe
    <2>5. SafeDependencies(deps)
      BY <1>3, <2>4, SafeForAll
    <2>6. \A t \in DOMAIN targets : IsList(deps[t])
      BY <2>4 DEF Safe
    <2> QED
      BY <1>1, <1>2, <1>5, <2>2, <2>3, <2>5, <2>6, LateStep
  <1> QED
    BY <1>6, <1>7

\* The checks at the end of Load change nothing.
LEMMA ValidateInv ==
    ASSUME LoadInv, Validate
    PROVE  LoadInv'
  <1> DEFINE invalid ==
        \E t \in DOMAIN targets :
            LET d == targets[t]
            IN  \/ d.type \notin ValidTypes
                \/ d.standalone_static_library /\ d.type # "static_library"
                \/ InvalidSources(d) \/ InvalidRules(d) \/ InvalidActions(d)
  <1>1. CASE invalid
    <2>1. Fail("invalid target")
      BY <1>1 DEF Validate
    <2> QED
      BY <2>1, FailInv
  <1>2. CASE ~invalid
    <2>1. /\ targets' = [t \in DOMAIN targets |-> WithRuleSources(targets[t])]
          /\ stage = "validate" /\ stage' = "loaded" /\ project' = project /\ UNCHANGED graphVars
      BY <1>2 DEF Validate, Proceed
    <2>2. stage \in Listed /\ stage \in Adjusted /\ stage' \in Adjusted
      BY <2>1 DEF Listed, Adjusted
    <2>3. DOMAIN targets' = DOMAIN targets
      BY <2>1
    <2>4. ASSUME NEW t \in DOMAIN targets
          PROVE  /\ DOMAIN targets'[t] = DOMAIN targets[t]
                 /\ \A k \in DOMAIN targets[t] \ {"rules"} : targets'[t][k] = targets[t][k]
                 /\ targets'[t].dependencies = targets[t].dependencies
      <3>1. PICK d, e : d = targets[t] /\ e = targets'[t]
        OBVIOUS
      <3>2. PICK v : WithRuleSources(d) = [d EXCEPT !.rules = v]
        BY DEF WithRuleSources
      <3>3. e = [d EXCEPT !.rules = v]
        BY <2>1, <3>1, <3>2
      <3>4. "dependencies" \in DOMAIN d
        BY <3>1, ListsOf
      <3> QED
        BY <3>1, <3>3, <3>4
    <2>5. PICK deps : deps = [t \in DOMAIN targets |-> targets[t].dependencies]
      OBVIOUS
    <2>6. deps = [t \in DOMAIN targets |-> targets'[t].dependencies]
      BY <2>4, <2>5
    <2>7. SafeDependencies(deps)
      BY <2>2, <2>5 DEF LoadInv, LoadFacts, AdjustedSafely
    <2>8. \A t \in DOMAIN targets : IsList(deps[t])
      BY <2>5, ListsOf
    <2>9. \A t \in DOMAIN targets :
              /\ IsList(deps[t]) /\ DOMAIN targets'[t] = DOMAIN targets[t]
              /\ \A k \in DOMAIN targets[t] \ {"dependencies", "dependencies_original", "rules"} :
                    targets'[t][k] = targets[t][k]
      BY <2>4, <2>8
    <2> QED
      BY <2>1, <2>2, <2>3, <2>6, <2>7, <2>9, LateStep
  <1> QED
    BY <1>1, <1>2

-----------------------------------------------------------------------------
(***************************************************************************)
(* The theorems.                                                           *)
(***************************************************************************)
\* The invariant holds at first, and for steps that change nothing.
LEMMA LoadInitInv == LoadInit => LoadInv
  <1>1. SUFFICES ASSUME LoadInit PROVE LoadInv
    OBVIOUS
  <1>2. /\ project \in Projects /\ targets = [t \in {} |-> <<>>] /\ stage = "dict"
        /\ nodes = [t \in {} |-> {}] /\ in_degree_zeros = {} /\ flat_list = <<>>
    BY <1>1 DEF LoadInit
  <1>3. DOMAIN targets = {} /\ DOMAIN nodes = {} /\ IsFiniteSet({})
    BY <1>2, FS_EmptySet
  <1>4. Dicts
    BY <1>3 DEF Dicts
  <1>5. ListInv
    <2>1. FlattenInit
      BY <1>2, <1>3 DEF FlattenInit, IsGraph
    <2> QED
      BY <2>1, StartsWell DEF GraphInv
  <1>6. stage \notin Listed /\ stage \notin Filtered /\ stage \notin WithNodes /\ stage \notin Adjusted
        /\ stage \notin Unpublished
    BY <1>2 DEF Listed, Filtered, WithNodes, Adjusted, Unpublished
  <1>7. AsWritten /\ NoRepeats /\ NodesAreDependencies
    BY <1>6 DEF AsWritten, NoRepeats, NodesAreDependencies
  <1>8. ListIsTargets /\ ExportsFound /\ Published /\ AdjustedSafely
    BY <1>2, <1>6 DEF ListIsTargets, ExportsFound, Published, SettingsReachTheirTargets,
                      AdjustedSafely
  <1> QED
    BY <1>2, <1>4, <1>5, <1>7, <1>8 DEF LoadInv, LoadFacts

LEMMA LoadStutters ==
    ASSUME LoadInv, UNCHANGED <<targetVars, graphVars>>
    PROVE  LoadInv'
  <1>1. /\ project' = project /\ targets' = targets /\ stage' = stage
        /\ UNCHANGED graphVars
        /\ nodes' = nodes /\ in_degree_zeros' = in_degree_zeros /\ flat_list' = flat_list
    BY DEF targetVars, graphVars
  <1>2. LoadFacts /\ project \in Projects
    BY DEF LoadInv
  <1>3. Dicts' /\ ListInv'
    BY <1>1, <1>2, GraphStays DEF LoadFacts, Dicts
  <1>4. \A t : Original(t)' = Original(t)
    BY <1>1, OriginalStays
  <1>5. AsWritten' /\ NoRepeats'
    BY <1>1, <1>2, <1>4 DEF LoadFacts, AsWritten, NoRepeats, Distinct
  <1>6. NodesAreDependencies'
    BY <1>1, <1>2 DEF LoadFacts, NodesAreDependencies, HasNode
  <1>7. ListIsTargets'
    <2>1. NothingForgotten => NothingForgotten'
      BY <1>1, GraphStays
    <2> QED
      BY <1>1, <1>2, <2>1 DEF LoadFacts, ListIsTargets
  <1>8. /\ Graph' = Graph /\ ExportsOf' = ExportsOf /\ Through' = Through
        /\ \A t : Deep(t)' = Deep(t) /\ Imported(t)' = Imported(t)
    BY <1>1 DEF Graph, ExportsOf, Through, Ends, Deep, Imported
  <1>9. ExportsFound'
    BY <1>1, <1>2, <1>8 DEF LoadFacts, ExportsFound, ExportsLeadTo
  <1>10. \A t : LinkFlags(t)' = LinkFlags(t) /\ LinkOf(t)' = LinkOf(t)
    BY <1>4, <1>8 DEF LinkFlags, LinkOf, AllLink, DirectLink
  <1>11. \A t : AfterAll(t) => AfterAll(t)'
    BY <1>1, <1>4, <1>8, <1>10 DEF AfterAll, Flags, OwnLink, AllFlags, AllLink
  <1>12. \A t : AfterDirect(t) => AfterDirect(t)'
    BY <1>1, <1>4, <1>8, <1>10 DEF AfterDirect, Flags, OwnLink, AllFlags, DirectFlags
  <1>13. \A t, s : LinkSources(t, s)' = LinkSources(t, s)
    BY <1>1, <1>8 DEF LinkSources
  <1>14. \A t : Due(t)' = Due(t)
    BY <1>1, <1>4, <1>8, <1>10, <1>13 DEF Due, AllFlags, DirectFlags
  <1>15. Published'
    BY <1>1, <1>2, <1>11, <1>12, <1>14 DEF LoadFacts, Published, SettingsReachTheirTargets, Flags
  <1>16. AdjustedSafely'
    <2>1. SUFFICES ASSUME stage \in Adjusted PROVE AdjustedSafely'
      BY <1>1 DEF AdjustedSafely
    <2>2. PICK deps : deps = [t \in DOMAIN targets |-> targets[t].dependencies]
      OBVIOUS
    <2>3. SafeDependencies(deps)
      BY <1>2, <2>1, <2>2 DEF LoadFacts, AdjustedSafely
    <2>4. SameGraph
      <3>1. stage \in WithNodes
        BY <2>1 DEF Adjusted, WithNodes, Listed
      <3>2. \A t \in DOMAIN targets : "node" \in DOMAIN targets[t]
        BY <1>2, <3>1 DEF LoadFacts, NodesAreDependencies, HasNode
      <3> QED
        BY <1>1, <3>2 DEF SameGraph
    <2>5. SafeDependencies(deps)'
      BY <1>1, <2>3, <2>4, SafeStays
    <2> QED
      BY <1>1, <2>2, <2>5 DEF AdjustedSafely
  <1> QED
    BY <1>1, <1>2, <1>3, <1>5, <1>6, <1>7, <1>9, <1>15, <1>16 DEF LoadInv, LoadFacts

\* Every step of Load keeps the invariant.
LEMMA LoadStep == LoadInv /\ [LoadNext]_<<targetVars, graphVars>> => LoadInv'
  <1>1. SUFFICES ASSUME LoadInv, LoadNext \/ UNCHANGED <<targetVars, graphVars>> PROVE LoadInv'
    OBVIOUS
  <1>2. CASE BuildTargetsDict
    BY <1>1, <1>2, BuildDictInv
  <1>3. CASE QualifyDependencies
    BY <1>1, <1>3, QualifyInv
  <1>4. CASE RemoveSelfDependencies
    BY <1>1, <1>4, SelfInv
  <1>5. CASE ExpandWildcardDependencies
    BY <1>1, <1>5, WildcardsInv
  <1>6. CASE RemoveLinkDependenciesFromNoneTargets
    BY <1>1, <1>6, LinksInv
  <1>7. CASE FilterDependencies
    BY <1>1, <1>7, FilterInv
  <1>8. CASE VerifyNoGYPFileCircularDependencies
    BY <1>1, <1>8, FilesInv
  <1>9. CASE BuildDependencyList
    BY <1>1, <1>9, BuildListInv
  <1>10. CASE FlattenToList
    BY <1>1, <1>10, FlattenInv
  <1>11. CASE EndFlatten
    BY <1>1, <1>11, EndFlattenInv
  <1>12. CASE PruneUnwantedTargets
    BY <1>1, <1>12, PruneTargetsInv
  <1>13. CASE VerifyNoCollidingTargets
    BY <1>1, <1>13, CollidingInv
  <1>14. CASE DoDependentSettings("all", "direct")
    BY <1>1, <1>14, PublishAllInv
  <1>15. CASE DoDependentSettings("direct", "link")
    BY <1>1, <1>15, PublishDirectInv
  <1>16. CASE DoDependentSettings("link", "adjust")
    BY <1>1, <1>16, PublishLinkInv
  <1>17. CASE AdjustStaticLibraryDependencies
    BY <1>1, <1>17, AdjustInv
  <1>18. CASE Validate
    BY <1>1, <1>18, ValidateInv
  <1>19. CASE UNCHANGED <<targetVars, graphVars>>
    BY <1>1, <1>19, LoadStutters
  <1> QED
    BY <1>1, <1>2, <1>3, <1>4, <1>5, <1>6, <1>7, <1>8, <1>9, <1>10, <1>11, <1>12, <1>13,
       <1>14, <1>15, <1>16, <1>17, <1>18, <1>19 DEF LoadNext

\* What holds between the steps of Load, stage by stage.
THEOREM LoadInvariant == LoadSpec => []LoadInv
  <1>1. LoadInit => LoadInv
    BY LoadInitInv
  <1>2. LoadInv /\ [LoadNext]_<<targetVars, graphVars>> => LoadInv'
    BY LoadStep
  <1> QED
    BY <1>1, <1>2, PTL DEF LoadSpec

\* The targets that the generators get are listed after all of their dependencies, also
\* after PruneUnwantedTargets.
THEOREM LoadListsDependenciesFirst == LoadSpec => []DependenciesComeFirst
  <1>1. LoadInv => DependenciesComeFirst
    BY DEF LoadInv, LoadFacts, ListInv
  <1> QED
    BY <1>1, LoadInvariant, PTL

\* Load stops for a cycle exactly when there is one, of targets or of build files, and
\* what FindCycles reports are cycles.
THEOREM LoadFindsCycles == LoadSpec => []CyclesAreFound
  <1>1. LoadInv => CyclesAreFound
    <2>1. SUFFICES ASSUME LoadInv PROVE CyclesAreFound
      OBVIOUS
    <2>2. ListInv /\ ListIsTargets
      BY <2>1 DEF LoadInv, LoadFacts
    <2>3. ShortListMeansCycle
      <3>1. ASSUME stage \in {"flatten files", "flatten targets"} PROVE ShortMeansCycle
        <4>1. GraphInv
          BY <2>2, <3>1 DEF ListIsTargets, GraphInv
        <4> QED
          BY <4>1, ShortListHasCycle
      <3> QED
        BY <3>1 DEF ShortListMeansCycle
    <2>4. IsFiniteSet(DOMAIN nodes)
      BY <2>2 DEF ListInv, IsGraph
    <2>5. ReportedCyclesAreCycles
      BY <2>4, FindCyclesFacts DEF ReportedCyclesAreCycles
    <2> QED
      BY <2>3, <2>5 DEF CyclesAreFound
  <1> QED
    BY <1>1, LoadInvariant, PTL

\* DoDependentSettings: when the settings have been published every target has exactly
\* the flags that are due to it.
THEOREM LoadPublishesSettings == LoadSpec => []SettingsReachTheirTargets
  <1>1. LoadInv => SettingsReachTheirTargets
    BY DEF LoadInv, LoadFacts, Published
  <1> QED
    BY <1>1, LoadInvariant, PTL

\* What PruneUnwantedTargets and AdjustStaticLibraryDependencies do to the dependencies
\* is safe for the generators.
THEOREM LoadAdjustsSafely == LoadSpec => []AdjustedDependenciesAreSafe
  <1>1. LoadInv => AdjustedDependenciesAreSafe
    <2>1. SUFFICES ASSUME LoadInv PROVE AdjustedDependenciesAreSafe
      OBVIOUS
    <2>2. PICK deps : deps = [t \in DOMAIN targets |-> targets[t].dependencies]
      OBVIOUS
    <2>3. \A t \in DOMAIN targets : deps[t] = targets[t].dependencies
      BY <2>2
    <2>4. ASSUME stage \in Adjusted
          PROVE  /\ AreTargets(deps)
                 /\ (project.adjust_static_libraries => ExportsAreDependencies) => ComeEarlier(deps)
                 /\ project.adjust_static_libraries => LinksComplete(deps) /\ HardStay(deps)
      BY <2>1, <2>2, <2>4 DEF LoadInv, LoadFacts, AdjustedSafely, SafeDependencies
    <2>5. PruningKeepsDependencies
      <3>1. ASSUME stage = "colliding", NEW t \in DOMAIN targets
            PROVE  ToSet(targets[t].dependencies) \subseteq DOMAIN targets
        <4>1. HasNode(t) /\ targets[t].dependencies = targets[t].node
          BY <2>1, <3>1 DEF LoadInv, LoadFacts, NodesAreDependencies, WithNodes, Listed, Adjusted
        <4> QED
          BY <4>1 DEF HasNode
      <3>2. ASSUME stage = "loaded", NEW t \in DOMAIN targets
            PROVE  ToSet(targets[t].dependencies) \subseteq DOMAIN targets
        BY <2>3, <2>4, <3>2 DEF AreTargets, Adjusted
      <3> QED
        BY <3>1, <3>2 DEF PruningKeepsDependencies
    <2>6. AdjustedDependenciesComeEarlier
      <3>1. ASSUME stage \in Adjusted, project.adjust_static_libraries => ExportsAreDependencies,
                   NEW i \in DOMAIN flat_list
            PROVE  ToSet(targets[flat_list[i]].dependencies) \subseteq
                       {flat_list[j] : j \in 1..(i - 1)}
        <4>1. flat_list[i] \in DOMAIN targets
          <5>1. ToSet(flat_list) = DOMAIN targets
            BY <2>1, <3>1 DEF LoadInv, LoadFacts, ListIsTargets, Adjusted, Listed
          <5> QED
            BY <3>1, <5>1 DEF ToSet
        <4> QED
          BY <2>3, <2>4, <3>1, <4>1 DEF ComeEarlier
      <3> QED
        BY <3>1 DEF AdjustedDependenciesComeEarlier, Adjusted
    <2>7. LinksAreComplete
      <3>1. ASSUME stage \in Adjusted, project.adjust_static_libraries,
                   NEW t \in DOMAIN targets, targets[t].type \in LinkableTypes
            PROVE  /\ Needed(t) \subseteq ToSet(targets[t].dependencies)
                   /\ project.sorted_dependencies =>
                        \A i, j \in DOMAIN targets[t].dependencies :
                            targets[t].dependencies[i] \in Graph[targets[t].dependencies[j]] => j < i
        BY <2>3, <2>4, <3>1 DEF LinksComplete
      <3> QED
        BY <3>1 DEF LinksAreComplete, Adjusted, Needed, StaticStep
    <2>8. HardStaticDependenciesStay
      BY <2>3, <2>4 DEF HardStaticDependenciesStay, HardStay, Adjusted
    <2> QED
      BY <2>5, <2>6, <2>7, <2>8 DEF AdjustedDependenciesAreSafe
  <1> QED
    BY <1>1, LoadInvariant, PTL
=============================================================================
