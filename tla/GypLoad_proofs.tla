--------------------------- MODULE GypLoad_proofs ---------------------------
(***************************************************************************)
(* Proofs about the loading of build files by gyp, for any files, any      *)
(* number of processes and either way of loading.                          *)
(***************************************************************************)
EXTENDS GypLoad, QueueFacts

(***************************************************************************)
(* Lists of files.                                                         *)
(***************************************************************************)
Distinct(q) == \A i, j \in 1..Len(q) : q[i] = q[j] => i = j

LEMMA ToSetIs ==
    ASSUME NEW S, NEW q \in Seq(S)
    PROVE  /\ ToSet(q) = {q[i] : i \in 1..Len(q)} /\ ToSet(q) \subseteq S
           /\ ToSet(q) = Elements(q) /\ Len(q) \in Nat
           /\ ToSet(q) = {} => q = <<>>
  <1>1. DOMAIN q = 1..Len(q) /\ \A i \in 1..Len(q) : q[i] \in S
    OBVIOUS
  <1>2. ToSet(q) = {q[i] : i \in 1..Len(q)}
    BY <1>1 DEF ToSet
  <1>3. ToSet(q) = {} => q = <<>>
    <2>1. q # <<>> => 1 \in 1..Len(q)
      OBVIOUS
    <2> QED
      BY <1>2, <2>1
  <1> QED
    BY <1>1, <1>2, <1>3 DEF Elements

LEMMA ToSetEmpty == ToSet(<<>>) = {} /\ Distinct(<<>>)
  BY DEF ToSet, Distinct

LEMMA AppendSet ==
    ASSUME NEW S, NEW q \in Seq(S), NEW e \in S
    PROVE  /\ Append(q, e) \in Seq(S)
           /\ ToSet(Append(q, e)) = ToSet(q) \cup {e}
           /\ Distinct(q) /\ e \notin ToSet(q) => Distinct(Append(q, e))
  <1>1. /\ Append(q, e) \in Seq(S) /\ Len(Append(q, e)) = Len(q) + 1 /\ Len(q) \in Nat
        /\ \A i \in 1..Len(q) : Append(q, e)[i] = q[i]
        /\ Append(q, e)[Len(q) + 1] = e
    BY AppendFacts
  <1>2. /\ \A i \in 1..Len(Append(q, e)) : i \in 1..Len(q) \/ i = Len(q) + 1
        /\ \A i \in 1..Len(q) : i \in 1..Len(Append(q, e))
        /\ Len(q) + 1 \in 1..Len(Append(q, e))
    BY <1>1
  <1>3. PICK a : a = Append(q, e)
    OBVIOUS
  <1>4. /\ ToSet(a) = {a[i] : i \in 1..Len(a)}
        /\ ToSet(q) = {q[i] : i \in 1..Len(q)}
    <2>1. a \in Seq(S)
      BY <1>1, <1>3
    <2>2. ToSet(a) = {a[i] : i \in 1..Len(a)}
      BY <2>1, ToSetIs
    <2>3. ToSet(q) = {q[i] : i \in 1..Len(q)}
      BY ToSetIs
    <2> QED
      BY <2>2, <2>3
  <1>5. ToSet(a) \subseteq ToSet(q) \cup {e}
    BY <1>1, <1>2, <1>3, <1>4
  <1>6. e \in ToSet(a)
    BY <1>1, <1>2, <1>3, <1>4
  <1>7. ASSUME NEW i \in 1..Len(q) PROVE q[i] \in ToSet(a)
    <2>1. i \in 1..Len(a) /\ a[i] = q[i]
      BY <1>1, <1>2, <1>3
    <2> QED
      BY <1>4, <2>1
  <1>8. ToSet(q) \subseteq ToSet(a)
    BY <1>4, <1>7
  <1>9. ASSUME Distinct(q), e \notin ToSet(q) PROVE Distinct(a)
    <2>1. \A i \in 1..Len(q) : q[i] # e
      BY <1>4, <1>9
    <2> QED
      BY <1>1, <1>2, <1>3, <1>9, <2>1 DEF Distinct
  <1> QED
    BY <1>1, <1>3, <1>5, <1>6, <1>8, <1>9

LEMMA FrontSet ==
    ASSUME NEW S, NEW q \in Seq(S), q # <<>>
    PROVE  /\ Front(q) \in Seq(S) /\ Last(q) \in S
           /\ Len(Front(q)) = Len(q) - 1
           /\ \A i \in 1..(Len(q) - 1) : Front(q)[i] = q[i]
           /\ ToSet(q) = ToSet(Front(q)) \cup {Last(q)}
           /\ Distinct(q) => Distinct(Front(q)) /\ Last(q) \notin ToSet(Front(q))
  <1>1. /\ Len(q) \in Nat /\ Len(q) > 0
    OBVIOUS
  <1>2. /\ Front(q) \in Seq(S) /\ Last(q) \in S
        /\ Len(Front(q)) = Len(q) - 1
        /\ \A i \in 1..(Len(q) - 1) : Front(q)[i] = q[i]
    <2>1. Front(q) = SubSeq(q, 1, Len(q) - 1)
      BY DEF Front
    <2>2. Len(q) \in 1..Len(q) /\ \A i \in 1..Len(q) : q[i] \in S
      BY <1>1
    <2>3. Last(q) \in S
      BY <2>2 DEF Last
    <2>4. \A i \in 1..(Len(q) - 1) : i \in 1..Len(q)
      BY <1>1
    <2>5. /\ SubSeq(q, 1, Len(q) - 1) \in Seq(S)
          /\ Len(SubSeq(q, 1, Len(q) - 1)) = Len(q) - 1
          /\ \A i \in 1..(Len(q) - 1) : SubSeq(q, 1, Len(q) - 1)[i] = q[i]
      <3>1. 1 \in Int /\ Len(q) - 1 \in Int
        BY <1>1
      <3>2. \A i \in 1..(Len(q) - 1) : q[i] \in S
        BY <2>2, <2>4
      <3>3. PICK c : c = SubSeq(q, 1, Len(q) - 1)
        OBVIOUS
      <3>4. /\ c \in Seq(S)
            /\ Len(c) = (IF 1 <= Len(q) - 1 THEN Len(q) - 1 - 1 + 1 ELSE 0)
            /\ \A i \in 1..(Len(q) - 1 - 1 + 1) : c[i] = q[1 + i - 1]
        BY <3>1, <3>2, <3>3, SubSeqProperties
      <3>5. Len(c) = Len(q) - 1
        <4>1. PICK n : n = Len(q)
          OBVIOUS
        <4>2. n \in Nat /\ n > 0
          BY <1>1, <4>1
        <4>3. Len(c) = IF 1 <= n - 1 THEN n - 1 - 1 + 1 ELSE 0
          BY <3>4, <4>1
        <4>4. (IF 1 <= n - 1 THEN n - 1 - 1 + 1 ELSE 0) = n - 1
          BY <4>2
        <4> QED
          BY <4>1, <4>3, <4>4
      <3>6. \A i \in 1..(Len(q) - 1) : i \in 1..(Len(q) - 1 - 1 + 1) /\ 1 + i - 1 = i
        BY <1>1
      <3>7. \A i \in 1..(Len(q) - 1) : c[i] = q[i]
        BY <3>4, <3>6
      <3> QED
        BY <3>3, <3>4, <3>5, <3>7
    <2> QED
      BY <2>1, <2>3, <2>5
  <1>3. Last(q) = q[Len(q)]
    BY DEF Last
  <1>4. PICK f : f = Front(q)
    OBVIOUS
  <1>5. /\ ToSet(f) = {f[i] : i \in 1..Len(f)}
        /\ ToSet(q) = {q[i] : i \in 1..Len(q)}
    BY <1>2, <1>4, ToSetIs
  <1>6. /\ \A i \in 1..Len(q) : i \in 1..Len(f) \/ i = Len(q)
        /\ \A i \in 1..Len(f) : i \in 1..Len(q) /\ i # Len(q) /\ f[i] = q[i]
        /\ Len(q) \in 1..Len(q)
    BY <1>1, <1>2, <1>4
  <1>7. ToSet(f) \subseteq ToSet(q) /\ Last(q) \in ToSet(q)
    BY <1>3, <1>5, <1>6
  <1>8. \A i \in 1..Len(q) : q[i] \in ToSet(f) \/ q[i] = Last(q)
    BY <1>3, <1>5, <1>6
  <1>9. ToSet(q) \subseteq ToSet(f) \cup {Last(q)}
    BY <1>5, <1>8
  <1>10. ASSUME Distinct(q) PROVE Distinct(f) /\ Last(q) \notin ToSet(f)
    BY <1>3, <1>5, <1>6, <1>10 DEF Distinct
  <1> QED
    BY <1>2, <1>4, <1>7, <1>9, <1>10

LEMMA TailSet ==
    ASSUME NEW S, NEW q \in Seq(S), q # <<>>
    PROVE  /\ Tail(q) \in Seq(S) /\ Head(q) \in S
           /\ ToSet(q) = ToSet(Tail(q)) \cup {Head(q)}
  <1>1. /\ Len(q) \in Nat /\ Len(q) > 0 /\ Head(q) = q[1] /\ q[1] \in S
        /\ Tail(q) \in Seq(S) /\ Len(Tail(q)) = Len(q) - 1
        /\ \A i \in 1..(Len(q) - 1) : Tail(q)[i] = q[i + 1]
    BY TailFacts
  <1>2. PICK t : t = Tail(q)
    OBVIOUS
  <1>3. /\ ToSet(t) = {t[i] : i \in 1..Len(t)}
        /\ ToSet(q) = {q[i] : i \in 1..Len(q)}
    <2>1. t \in Seq(S)
      BY <1>1, <1>2
    <2>2. ToSet(t) = {t[i] : i \in 1..Len(t)}
      BY <2>1, ToSetIs
    <2>3. ToSet(q) = {q[i] : i \in 1..Len(q)}
      BY ToSetIs
    <2> QED
      BY <2>2, <2>3
  <1>4. \A i \in 1..Len(t) : i + 1 \in 1..Len(q) /\ t[i] = q[i + 1]
    BY <1>1, <1>2
  <1>5. \A i \in 1..Len(q) : i = 1 \/ (i - 1 \in 1..Len(t) /\ t[i - 1] = q[i])
    <2> SUFFICES ASSUME NEW i \in 1..Len(q), i # 1
                 PROVE  i - 1 \in 1..Len(t) /\ t[i - 1] = q[i]
      OBVIOUS
    <2>1. i - 1 \in 1..Len(t) /\ (i - 1) + 1 = i
      BY <1>1, <1>2
    <2> QED
      BY <1>4, <2>1
  <1>6. ToSet(t) \subseteq ToSet(q) /\ Head(q) \in ToSet(q)
    <2>1. 1 \in 1..Len(q)
      BY <1>1
    <2> QED
      BY <1>1, <1>3, <1>4, <2>1
  <1>7. \A i \in 1..Len(q) : q[i] \in ToSet(t) \/ q[i] = Head(q)
    BY <1>1, <1>3, <1>5
  <1>8. ToSet(q) \subseteq ToSet(t) \cup {Head(q)}
    BY <1>3, <1>7
  <1> QED
    BY <1>1, <1>2, <1>6, <1>8

LEMMA ConcatSet ==
    ASSUME NEW S, NEW p \in Seq(S), NEW q \in Seq(S)
    PROVE  /\ p \o q \in Seq(S)
           /\ ToSet(p \o q) = ToSet(p) \cup ToSet(q)
           /\ Distinct(p) /\ Distinct(q) /\ ToSet(p) \cap ToSet(q) = {} => Distinct(p \o q)
  <1>1. PICK c : c = p \o q
    OBVIOUS
  <1>2. /\ Len(p) \in Nat /\ Len(q) \in Nat /\ c \in Seq(S)
        /\ Len(c) = Len(p) + Len(q)
        /\ \A i \in 1..Len(p) : c[i] = p[i]
        /\ \A i \in 1..Len(q) : c[i + Len(p)] = q[i]
    BY <1>1
  <1>3. /\ ToSet(c) = {c[i] : i \in 1..Len(c)}
        /\ ToSet(p) = {p[i] : i \in 1..Len(p)}
        /\ ToSet(q) = {q[i] : i \in 1..Len(q)}
    BY <1>2, ToSetIs
  <1>4. ASSUME NEW i \in 1..Len(c)
        PROVE  \/ i \in 1..Len(p) /\ c[i] = p[i]
               \/ i - Len(p) \in 1..Len(q) /\ c[i] = q[i - Len(p)]
    <2>1. CASE i <= Len(p)
      BY <1>2, <2>1
    <2>2. CASE i > Len(p)
      <3>1. i - Len(p) \in 1..Len(q) /\ (i - Len(p)) + Len(p) = i
        BY <1>2, <2>2
      <3> QED
        BY <1>2, <3>1
    <2> QED
      BY <1>2, <2>1, <2>2
  <1>5. ToSet(c) \subseteq ToSet(p) \cup ToSet(q)
    BY <1>3, <1>4
  <1>6. ToSet(p) \subseteq ToSet(c)
    <2>1. \A i \in 1..Len(p) : i \in 1..Len(c) /\ c[i] = p[i]
      BY <1>2
    <2> QED
      BY <1>3, <2>1
  <1>7. ToSet(q) \subseteq ToSet(c)
    <2>1. \A i \in 1..Len(q) : i + Len(p) \in 1..Len(c) /\ c[i + Len(p)] = q[i]
      BY <1>2
    <2> QED
      BY <1>3, <2>1
  <1>8. ASSUME Distinct(p), Distinct(q), ToSet(p) \cap ToSet(q) = {} PROVE Distinct(c)
    <2> SUFFICES ASSUME NEW i \in 1..Len(c), NEW j \in 1..Len(c), c[i] = c[j] PROVE i = j
      BY DEF Distinct
    <2>1. CASE i \in 1..Len(p) /\ c[i] = p[i] /\ j \in 1..Len(p) /\ c[j] = p[j]
      BY <1>8, <2>1 DEF Distinct
    <2>2. CASE /\ i - Len(p) \in 1..Len(q) /\ c[i] = q[i - Len(p)]
               /\ j - Len(p) \in 1..Len(q) /\ c[j] = q[j - Len(p)]
      <3>1. i - Len(p) = j - Len(p)
        BY <1>8, <2>2 DEF Distinct
      <3> QED
        BY <1>2, <3>1
    <2>3. CASE (c[i] \in ToSet(p) /\ c[j] \in ToSet(q)) \/ (c[i] \in ToSet(q) /\ c[j] \in ToSet(p))
      BY <1>8, <2>3
    <2> QED
      BY <1>3, <1>4, <2>1, <2>2, <2>3
  <1> QED
    BY <1>1, <1>2, <1>5, <1>6, <1>7, <1>8

LEMMA SubSeqSet ==
    ASSUME NEW S, NEW q \in Seq(S), NEW m \in 1..(Len(q) + 1), NEW n \in 0..Len(q)
    PROVE  /\ SubSeq(q, m, n) \in Seq(S)
           /\ ToSet(SubSeq(q, m, n)) = {q[i] : i \in m..n}
  <1>1. Len(q) \in Nat /\ \A i \in 1..Len(q) : q[i] \in S
    OBVIOUS
  <1>2. m \in Int /\ n \in Int /\ m >= 1 /\ n <= Len(q) /\ \A i \in m..n : q[i] \in S
    BY <1>1
  <1>3. PICK c : c = SubSeq(q, m, n)
    OBVIOUS
  <1>4. /\ c \in Seq(S) /\ Len(c) = (IF m <= n THEN n - m + 1 ELSE 0)
        /\ \A i \in 1..(n - m + 1) : c[i] = q[m + i - 1]
    BY <1>2, <1>3, SubSeqProperties
  <1>5. ToSet(c) = {c[i] : i \in 1..Len(c)}
    BY <1>4, ToSetIs
  <1>6. \A i \in 1..Len(c) : m + i - 1 \in m..n /\ c[i] = q[m + i - 1]
    <2> SUFFICES ASSUME NEW i \in 1..Len(c)
                 PROVE  m + i - 1 \in m..n /\ c[i] = q[m + i - 1]
      OBVIOUS
    <2>1. m <= n
      BY <1>2, <1>4
    <2>2. Len(c) = n - m + 1
      BY <1>4, <2>1
    <2>3. i \in 1..(n - m + 1)
      BY <2>2
    <2>4. m + i - 1 \in m..n
      BY <1>2, <2>3
    <2> QED
      BY <1>4, <2>3, <2>4
  <1>7. \A i \in m..n : i - m + 1 \in 1..Len(c) /\ c[i - m + 1] = q[i]
    <2> SUFFICES ASSUME NEW i \in m..n
                 PROVE  i - m + 1 \in 1..Len(c) /\ c[i - m + 1] = q[i]
      OBVIOUS
    <2>1. i - m + 1 \in 1..(n - m + 1) /\ m + (i - m + 1) - 1 = i /\ i - m + 1 \in 1..Len(c)
      BY <1>2, <1>4
    <2> QED
      BY <1>4, <2>1
  <1>8. ToSet(c) \subseteq {q[i] : i \in m..n}
    BY <1>5, <1>6
  <1>9. \A i \in m..n : q[i] \in ToSet(c)
    BY <1>5, <1>7
  <1> QED
    BY <1>3, <1>4, <1>8, <1>9

LEMMA RemoveAtSet ==
    ASSUME NEW S, NEW q \in Seq(S), NEW k \in DOMAIN q
    PROVE  /\ RemoveAt(q, k) \in Seq(S) /\ q[k] \in S
           /\ ToSet(q) = ToSet(RemoveAt(q, k)) \cup {q[k]}
  <1>1. Len(q) \in Nat /\ k \in 1..Len(q) /\ q[k] \in S
    OBVIOUS
  <1>2. /\ 1 \in 1..(Len(q) + 1) /\ k - 1 \in 0..Len(q)
        /\ k + 1 \in 1..(Len(q) + 1) /\ Len(q) \in 0..Len(q)
    BY <1>1
  <1>3. PICK a, b : a = SubSeq(q, 1, k - 1) /\ b = SubSeq(q, k + 1, Len(q))
    OBVIOUS
  <1>4. a \in Seq(S) /\ ToSet(a) = {q[i] : i \in 1..(k - 1)}
    BY <1>2, <1>3, SubSeqSet
  <1>5. b \in Seq(S) /\ ToSet(b) = {q[i] : i \in (k + 1)..Len(q)}
    BY <1>2, <1>3, SubSeqSet
  <1>6. RemoveAt(q, k) = a \o b
    BY <1>3 DEF RemoveAt
  <1>7. a \o b \in Seq(S) /\ ToSet(a \o b) = ToSet(a) \cup ToSet(b)
    BY <1>4, <1>5, ConcatSet
  <1>8. ToSet(q) = {q[i] : i \in 1..Len(q)}
    BY ToSetIs
  <1>9. \A i \in 1..Len(q) : i \in 1..(k - 1) \/ i = k \/ i \in (k + 1)..Len(q)
    BY <1>1
  <1>10. (\A i \in 1..(k - 1) : i \in 1..Len(q)) /\ (\A i \in (k + 1)..Len(q) : i \in 1..Len(q))
    BY <1>1
  <1>11. ToSet(a) \subseteq ToSet(q) /\ ToSet(b) \subseteq ToSet(q) /\ q[k] \in ToSet(q)
    BY <1>1, <1>4, <1>5, <1>8, <1>10
  <1>12. \A i \in 1..Len(q) : q[i] \in ToSet(a) \/ q[i] = q[k] \/ q[i] \in ToSet(b)
    BY <1>4, <1>5, <1>9
  <1>13. ToSet(q) \subseteq ToSet(a) \cup ToSet(b) \cup {q[k]}
    BY <1>8, <1>12
  <1> QED
    BY <1>1, <1>6, <1>7, <1>11, <1>13

-----------------------------------------------------------------------------
(***************************************************************************)
(* The inductive invariant.                                                *)
(***************************************************************************)
\* The files that are loaded and entered.
Loaded == targetBuildFiles \cap DOMAIN data

\* The files named by the command line or by one of the files of L.
NamedBy(d, L) == BuildFiles \cup UNION {ToSet(d[g].deps) : g \in L}

\* The files calls of the stack st still have to load.
Stacked(st) == UNION {ToSet(calls) : calls \in ToSet(st)}

\* Files that were given to the pool and are not loaded.
Handed == scheduled \ (ToSet(dependencies) \cup targetBuildFiles)

\* What becomes of a file that is evaluated.
Entry(f) == [parts |-> LoadBuildFileIncludesIntoDict[f], depth |-> f,
             included |-> GetIncludedBuildFiles(f)]

RunningTypeOK ==
    \A w \in Workers : running[w] # Idle =>
        /\ running[w].file \in GypFiles
        /\ running[w].loaded \subseteq targetBuildFiles

\* What the processes send back is what is on the disk; a file is reported as an
\* error only if it cannot be read.
ResultOK(r) ==
    /\ r.file \in GypFiles /\ r.ok \in BOOLEAN
    /\ r.ok => /\ DOMAIN r.data = FilesRead(r.file) /\ DOMAIN r.aux = FilesRead(r.file)
               /\ r.data[r.file] = Entry(r.file)
               /\ r.deps = Dependencies(r.file)
               /\ ~Raises(r.file)
    /\ ~r.ok => Raises(r.file)

ResultsOK == \A r \in results : ResultOK(r)

\* A file is at one place of the pool.
OnePlace ==
    /\ \A w \in Workers : running[w] # Idle => running[w].file \notin tasks
    /\ \A v, w \in Workers :
          running[v] # Idle /\ running[w] # Idle /\ running[v].file = running[w].file => v = w
    /\ \A r \in results : r.file \notin tasks
    /\ \A r, s \in results : r.file = s.file => r = s
    /\ \A r \in results : \A w \in Workers : running[w] # Idle => running[w].file # r.file

\* The dictionaries hold the files that were read for the loaded ones.
DataOK ==
    /\ DOMAIN auxData = DOMAIN data
    /\ \A f \in Loaded : FilesRead(f) \subseteq DOMAIN data
    /\ \A g \in DOMAIN data : \E f \in Loaded : g \in FilesRead(f)
    /\ \A f \in Loaded : data[f] = Entry(f) /\ ~Raises(f)

\* Nothing is loaded, handed out or scheduled that is not needed.
NamedOK ==
    /\ targetBuildFiles \subseteq NamedBy(disk, Loaded)
    /\ targetBuildFiles \subseteq Reachable

ParallelOK ==
    parallel =>
        /\ stack = <<>>
        /\ targetBuildFiles \subseteq DOMAIN data
        /\ scheduled = NamedBy(disk, Loaded)
        /\ ToSet(dependencies) \subseteq scheduled
        /\ ToSet(dependencies) \cap targetBuildFiles = {}
        /\ Distinct(dependencies)
        /\ pending = Cardinality(Handed)
        /\ Outstanding \subseteq Handed
        /\ ~error /\ main # "interrupted" => Handed \subseteq Outstanding
        /\ error => \E f \in Handed : Raises(f)
        /\ main \in {"joining", "done"} /\ ~error => dependencies = <<>> /\ pending = 0
        /\ main = "done" => ~error
        /\ main = "failed" => error

SerialOK ==
    ~parallel =>
        /\ stack \in Seq(Seq(GypFiles))
        /\ tasks = {} /\ results = {} /\ \A w \in Workers : running[w] = Idle
        /\ pending = 0 /\ error = FALSE /\ scheduled = BuildFiles
        /\ main \in {"loop", "done", "failed"}
        /\ ToSet(dependencies) \cup Stacked(stack) \subseteq NamedBy(disk, Loaded)
        /\ main # "failed" =>
              /\ targetBuildFiles \subseteq DOMAIN data
              /\ NamedBy(disk, Loaded) \subseteq
                    targetBuildFiles \cup ToSet(dependencies) \cup Stacked(stack)
        /\ main # "loop" => stack = <<>>
        /\ main = "done" => dependencies = <<>>

TypesOK ==
    /\ disk \in Disks /\ parallel \in BOOLEAN
    /\ main \in {"loop", "waiting", "notified", "joining", "done", "failed",
                 "interrupted"}
    /\ error \in BOOLEAN
    /\ scheduled \subseteq GypFiles /\ targetBuildFiles \subseteq GypFiles
    /\ dependencies \in Seq(GypFiles)
    /\ tasks \subseteq GypFiles

LoadInv ==
    /\ TypesOK /\ RunningTypeOK /\ ResultsOK /\ OnePlace /\ DataOK /\ NamedOK
    /\ DOMAIN running = Workers
    /\ ParallelOK /\ SerialOK

-----------------------------------------------------------------------------
(***************************************************************************)
(* What the operators on lists return.                                     *)
(***************************************************************************)
\* r is what Unify makes of the first n elements of l.
Unified(l, n, r) == Distinct(r) /\ ToSet(r) = {l[i] : i \in 1..n}

\* One more turn of Unify's loop.
LEMMA UnifyOneMore ==
    ASSUME NEW T, NEW l, NEW n \in Nat, l[n + 1] \in T,
           NEW r \in Seq(T), Unified(l, n, r)
    PROVE  LET q == IF l[n + 1] \in ToSet(r) THEN r ELSE Append(r, l[n + 1])
           IN  q \in Seq(T) /\ Unified(l, n + 1, q)
  <1>1. {l[i] : i \in 1..(n + 1)} = {l[i] : i \in 1..n} \cup {l[n + 1]}
    <2>1. /\ \A i \in 1..(n + 1) : i \in 1..n \/ i = n + 1
          /\ \A i \in 1..n : i \in 1..(n + 1)
          /\ n + 1 \in 1..(n + 1)
      OBVIOUS
    <2> QED
      BY <2>1
  <1>2. CASE l[n + 1] \in ToSet(r)
    BY <1>1, <1>2 DEF Unified
  <1>3. CASE l[n + 1] \notin ToSet(r)
    <2>1. PICK q : q = Append(r, l[n + 1])
      OBVIOUS
    <2>2. q \in Seq(T) /\ ToSet(q) = ToSet(r) \cup {l[n + 1]} /\ Distinct(q)
      BY <1>3, <2>1, AppendSet DEF Unified
    <2> QED
      BY <1>1, <1>3, <2>1, <2>2 DEF Unified
  <1> QED
    BY <1>2, <1>3

\* Unify returns every element of its argument, once.
LEMMA UnifyFacts ==
    ASSUME NEW T, NEW l \in Seq(T)
    PROVE  Unify(l) \in Seq(T) /\ Distinct(Unify(l)) /\ ToSet(Unify(l)) = ToSet(l)
  <1> DEFINE Body(f, i) == IF i = 0 THEN <<>>
                           ELSE LET seen == f[i - 1]
                                IN  IF l[i] \in ToSet(seen) THEN seen ELSE Append(seen, l[i])
             IsUnified(f, n) == f = [i \in 0..n |-> Body(f, i)]
             unified == CHOOSE f : IsUnified(f, Len(l))
  <1>0. Len(l) \in Nat /\ \A i \in 1..Len(l) : l[i] \in T
    OBVIOUS
  <1>1. \A n \in Nat : \E f : IsUnified(f, n)
    <2> DEFINE E == {n \in Nat : \E f : IsUnified(f, n)}
    <2>1. 0 \in E
      <3>1. IsUnified([i \in 0..0 |-> <<>>], 0)
        OBVIOUS
      <3> QED
        BY <3>1
    <2>2. ASSUME NEW n \in E PROVE n + 1 \in E
      <3>0. n \in Nat
        OBVIOUS
      <3>1. PICK f : IsUnified(f, n)
        OBVIOUS
      <3> DEFINE g == [i \in 0..(n + 1) |-> IF i = n + 1 THEN Body(f, n + 1) ELSE f[i]]
      <3>2. ASSUME NEW i \in 0..n PROVE g[i] = f[i] /\ f[i] = Body(f, i)
        <4>1. i \in 0..(n + 1) /\ i # n + 1
          BY <3>0
        <4>2. f[i] = [j \in 0..n |-> Body(f, j)][i]
          BY <3>1
        <4> QED
          BY <4>1, <4>2
      <3>3. ASSUME NEW i \in 0..(n + 1) PROVE Body(g, i) = Body(f, i)
        <4>1. i # 0 => i - 1 \in 0..n
          OBVIOUS
        <4> QED
          BY <3>2, <4>1
      <3>4. ASSUME NEW i \in 0..(n + 1) PROVE g[i] = Body(g, i)
        <4>1. CASE i = n + 1
          BY <3>3, <4>1
        <4>2. CASE i \in 0..n
          BY <3>2, <3>3, <4>2
        <4> QED
          BY <4>1, <4>2
      <3>5. g = [i \in 0..(n + 1) |-> g[i]]
        OBVIOUS
      <3> HIDE DEF g
      <3>6. IsUnified(g, n + 1)
        BY <3>4, <3>5
      <3> QED
        <4>1. n + 1 \in Nat
          BY <3>0
        <4> HIDE DEF IsUnified
        <4>2. \E h : IsUnified(h, n + 1)
          BY <3>6
        <4> QED
          BY <4>1, <4>2
    <2>3. E \in SUBSET Nat
      OBVIOUS
    <2> HIDE DEF E
    <2>4. E = Nat
      BY <2>1, <2>2, <2>3, NatInductionSet
    <2> QED
      BY <2>4 DEF E
  <1>2. IsUnified(unified, Len(l))
    BY <1>0, <1>1
  <1>3. Unify(l) = unified[Len(l)]
    BY DEF Unify
  <1> HIDE DEF unified
  <1>4. /\ unified[0] = <<>>
        /\ \A i \in 1..Len(l) :
              unified[i] = IF l[i] \in ToSet(unified[i - 1]) THEN unified[i - 1]
                           ELSE Append(unified[i - 1], l[i])
    <2>1. \A i \in 0..Len(l) : unified[i] = [j \in 0..Len(l) |-> Body(unified, j)][i]
      BY <1>2
    <2>2. \A i \in 0..Len(l) : unified[i] = Body(unified, i)
      BY <2>1
    <2>3. 0 \in 0..Len(l) /\ \A i \in 1..Len(l) : i \in 0..Len(l) /\ i # 0
      BY <1>0
    <2> QED
      BY <2>2, <2>3
  <1> DEFINE Good(n) == unified[n] \in Seq(T) /\ Unified(l, n, unified[n])
  <1>5. \A n \in Nat : n <= Len(l) => Good(n)
    <2> DEFINE G == {n \in Nat : n <= Len(l) => Good(n)}
    <2>1. 0 \in G
      <3>1. << >> \in Seq(T) /\ Distinct(<< >>) /\ ToSet(<< >>) = {}
        BY ToSetEmpty
      <3>2. {l[i] : i \in 1..0} = {}
        OBVIOUS
      <3>3. Good(0)
        BY <1>4, <3>1, <3>2 DEF Unified
      <3> QED
        BY <3>3
    <2>2. ASSUME NEW n \in G PROVE n + 1 \in G
      <3> SUFFICES ASSUME n + 1 <= Len(l) PROVE Good(n + 1)
        OBVIOUS
      <3>1. n \in Nat /\ n + 1 \in 1..Len(l) /\ l[n + 1] \in T /\ Good(n)
        BY <1>0
      <3>2. unified[n + 1] = IF l[n + 1] \in ToSet(unified[n]) THEN unified[n]
                             ELSE Append(unified[n], l[n + 1])
        <4>1. (n + 1) - 1 = n
          BY <3>1
        <4> QED
          BY <1>4, <3>1, <4>1
      <3> QED
        BY <3>1, <3>2, UnifyOneMore
    <2>3. G \in SUBSET Nat
      OBVIOUS
    <2> HIDE DEF G
    <2>4. G = Nat
      BY <2>1, <2>2, <2>3, NatInductionSet
    <2> QED
      BY <2>4 DEF G
  <1>6. Good(Len(l))
    BY <1>0, <1>5
  <1>7. ToSet(l) = {l[i] : i \in 1..Len(l)}
    BY ToSetIs
  <1> QED
    BY <1>3, <1>6, <1>7 DEF Unified

\* The callback appends what has not been scheduled, each file once.
LEMMA NewDependenciesFacts ==
    ASSUME NEW deps \in Seq(GypFiles)
    PROVE  /\ NewDependencies(deps) \in Seq(GypFiles)
           /\ Distinct(NewDependencies(deps))
           /\ ToSet(NewDependencies(deps)) = ToSet(deps) \ scheduled
  <1>1. PICK u : u = Unify(deps)
    OBVIOUS
  <1>2. u \in Seq(GypFiles) /\ Distinct(u) /\ ToSet(u) = ToSet(deps)
    BY <1>1, UnifyFacts
  <1>3. PICK s : s = Select(u, GypFiles \ scheduled)
    OBVIOUS
  <1>4. s \in Seq(GypFiles) /\ Selected(u, GypFiles \ scheduled, Len(u), s)
    BY <1>2, <1>3, SelectFacts
  <1>5. ToSet(u) = {u[i] : i \in 1..Len(u)} /\ ToSet(u) \subseteq GypFiles
    BY <1>2, ToSetIs
  <1>6. ToSet(s) = {s[i] : i \in 1..Len(s)}
    BY <1>4, ToSetIs
  <1>7. Distinct(s)
    BY <1>2, <1>4 DEF Selected, Distinct
  <1>8. \A k \in 1..Len(s) : s[k] \in ToSet(u) \ scheduled
    BY <1>4, <1>5 DEF Selected
  <1>9. \A i \in 1..Len(u) : u[i] \notin scheduled => u[i] \in ToSet(s)
    <2>1. \A i \in 1..Len(u) : u[i] \in GypFiles \ scheduled =>
              \E k \in 1..Len(s) : s[k] = u[i]
      BY <1>4 DEF Selected
    <2> QED
      BY <1>5, <1>6, <2>1
  <1>10. ToSet(s) \subseteq ToSet(u) \ scheduled
    BY <1>6, <1>8
  <1>11. ToSet(u) \ scheduled \subseteq ToSet(s)
    BY <1>5, <1>9
  <1>12. NewDependencies(deps) = s
    BY <1>1, <1>3 DEF NewDependencies
  <1> QED
    BY <1>2, <1>4, <1>7, <1>10, <1>11, <1>12

\* The build files as a list.
LEMMA SomeOrderFacts ==
    /\ SomeOrder \in Seq(GypFiles) /\ Distinct(SomeOrder)
    /\ ToSet(SomeOrder) = BuildFiles
  <1>1. IsFiniteSet(BuildFiles) /\ BuildFiles \subseteq GypFiles
    <2>1. BuildFiles \subseteq Files /\ IsFiniteSet(Files) /\ BuildFiles \subseteq GypFiles
      BY LoadAssumption DEF Files
    <2> QED
      BY <2>1, FS_Subset
  <1>2. PICK n : n = Cardinality(BuildFiles)
    OBVIOUS
  <1>3. n \in Nat /\ ExistsBijection(1..n, BuildFiles)
    BY <1>1, <1>2, FS_CardinalityType
  <1>4. PICK b \in [1..n -> BuildFiles] : IsInjective(b)
    BY <1>3 DEF ExistsBijection, Bijection, Injection
  <1>5. PICK s : s = SomeOrder
    OBVIOUS
  <1>6. s = CHOOSE f \in [1..n -> BuildFiles] : IsInjective(f)
    BY <1>2, <1>5 DEF SomeOrder, SetToSeq
  <1>7. s \in [1..n -> BuildFiles] /\ IsInjective(s)
    BY <1>4, <1>6
  <1>8. s \in Seq(BuildFiles) /\ Len(s) = n
    BY <1>3, <1>7
  <1>9. \A i, j \in 1..Len(s) : s[i] = s[j] => i = j
    BY <1>7, <1>8 DEF IsInjective
  <1>10. Elements(s) = BuildFiles
    BY <1>1, <1>2, <1>8, <1>9, ShortLists
  <1>11. ToSet(s) = Elements(s)
    BY <1>8, ToSetIs
  <1>12. s \in Seq(GypFiles)
    BY <1>1, <1>8
  <1> QED
    BY <1>5, <1>9, <1>10, <1>11, <1>12 DEF Distinct

-----------------------------------------------------------------------------
(***************************************************************************)
(* Reading files.                                                          *)
(***************************************************************************)
LEMMA DiskFacts ==
    ASSUME disk \in Disks
    PROVE  /\ GypFiles \subseteq Files /\ GypiFiles \subseteq Files
           /\ \A f \in GypFiles : Dependencies(f) \in Seq(GypFiles) /\ f \notin GypiFiles
           /\ \A f \in Files : ToSet(IncludesOf(f)) \subseteq GypiFiles
  <1>1. /\ GypFiles \subseteq Files /\ GypiFiles \subseteq Files
        /\ GypFiles \cap GypiFiles = {} /\ CmdIncludes \in Seq(GypiFiles)
    BY LoadAssumption DEF Files
  <1>2. \A f \in Files : disk[f].includes \in Seq(GypiFiles) /\ disk[f].deps \in Seq(GypFiles)
    BY LoadAssumption
  <1>3. \A f \in GypFiles : Dependencies(f) \in Seq(GypFiles) /\ f \notin GypiFiles
    BY <1>1, <1>2 DEF Dependencies
  <1>4. ASSUME NEW f \in Files PROVE ToSet(IncludesOf(f)) \subseteq GypiFiles
    <2>1. PICK c, d : c = (IF f \in GypFiles THEN CmdIncludes ELSE <<>>) /\ d = disk[f].includes
      OBVIOUS
    <2>2. c \in Seq(GypiFiles) /\ d \in Seq(GypiFiles)
      BY <1>1, <1>2, <2>1
    <2>3. PICK q : q = c \o d
      OBVIOUS
    <2>4. q \in Seq(GypiFiles)
      BY <2>2, <2>3
    <2>5. ToSet(q) \subseteq GypiFiles
      BY <2>4, ToSetIs
    <2> QED
      BY <2>1, <2>3, <2>5 DEF IncludesOf
  <1> QED
    BY <1>1, <1>3, <1>4

\* A target build file is read with include files only.
LEMMA FilesReadFacts ==
    ASSUME disk \in Disks, NEW f \in GypFiles
    PROVE  /\ FilesRead(f) \subseteq Files /\ f \in FilesRead(f)
           /\ \A g \in FilesRead(f) : g \in GypFiles => g = f
  <1>1. FilesRead(f) \subseteq Files
    BY DEF FilesRead
  <1>2. f \in FilesRead(f)
    BY DiskFacts DEF FilesRead
  <1>3. ASSUME NEW g \in FilesRead(f), g \in GypFiles PROVE g = f
    <2> DEFINE S == {f} \cup GypiFiles
    <2>1. S \in SUBSET Files /\ f \in S
      BY DiskFacts
    <2>2. \A x \in S : ToSet(IncludesOf(x)) \subseteq S
      BY DiskFacts
    <2> HIDE DEF S
    <2>3. g \in S
      BY <2>1, <2>2 DEF FilesRead
    <2> QED
      BY <1>3, <2>3, DiskFacts DEF S
  <1> QED
    BY <1>1, <1>2, <1>3

\* What is on the disk does not change, nor does what follows from it.
LEMMA DiskUnchanged ==
    ASSUME disk' = disk
    PROVE  /\ \A f : FilesRead(f)' = FilesRead(f)
           /\ \A f : Raises(f)' <=> Raises(f)
           /\ \A f : Entry(f)' = Entry(f)
           /\ \A f : Dependencies(f)' = Dependencies(f)
           /\ Reachable' = Reachable
  <1> DEFINE Inc(d, f) == (IF f \in GypFiles THEN CmdIncludes ELSE <<>>) \o d[f].includes
             Read(d, f) ==
                {g \in Files : \A S \in SUBSET Files :
                    f \in S /\ (\A x \in S : ToSet(Inc(d, x)) \subseteq S) => g \in S}
             Dict(d) == CHOOSE m : m = [f \in Files |->
                LET includes == Inc(d, f)
                    merged[i \in 0..Len(includes)] ==
                        IF i = 0 THEN <<f>> ELSE merged[i - 1] \o m[includes[i]]
                IN  merged[Len(includes)]]
             Reach(d) ==
                {f \in GypFiles : \A S \in SUBSET GypFiles :
                    BuildFiles \subseteq S /\ (\A g \in S : ToSet(d[g].deps) \subseteq S)
                        => f \in S}
  <1>1. \A f : FilesRead(f) = Read(disk, f)
    BY DEF FilesRead, IncludesOf
  <1>2. \A f : FilesRead(f)' = Read(disk', f)
    BY DEF FilesRead, IncludesOf
  <1>3. Reachable = Reach(disk)
    BY DEF Reachable
  <1>4. Reachable' = Reach(disk')
    BY DEF Reachable
  <1>5. LoadBuildFileIncludesIntoDict = Dict(disk)
    BY DEF LoadBuildFileIncludesIntoDict, IncludesOf
  <1>6. LoadBuildFileIncludesIntoDict' = Dict(disk')
    BY DEF LoadBuildFileIncludesIntoDict, IncludesOf
  <1> HIDE DEF Read, Dict, Reach
  <1>7. \A f : FilesRead(f)' = FilesRead(f)
    BY <1>1, <1>2
  <1>8. Reachable' = Reachable
    BY <1>3, <1>4
  <1>9. LoadBuildFileIncludesIntoDict' = LoadBuildFileIncludesIntoDict
    BY <1>5, <1>6
  <1>10. \A f : Raises(f)' <=> Raises(f)
    BY <1>7 DEF Raises
  <1>11. \A f : Entry(f)' = Entry(f)
    BY <1>9 DEF Entry, GetIncludedBuildFiles
  <1>12. \A f : Dependencies(f)' = Dependencies(f)
    BY DEF Dependencies
  <1> QED
    BY <1>7, <1>8, <1>10, <1>11, <1>12

\* The entry of a file that is evaluated, and the entries it leaves alone.
LEMMA EvaluatedFacts ==
    ASSUME disk \in Disks, NEW f \in GypFiles, NEW e, f \notin DOMAIN e
    PROVE  /\ DOMAIN Evaluated(f, e, f) = DOMAIN e \cup FilesRead(f)
           /\ Evaluated(f, e, f)[f] = Entry(f)
           /\ \A g \in DOMAIN e : Evaluated(f, e, f)[g] = e[g]
  <1>1. PICK one : one = LoadOneBuildFile(f, e)
    OBVIOUS
  <1>2. f \in FilesRead(f)
    BY FilesReadFacts
  <1>3. /\ one = [g \in DOMAIN e \cup FilesRead(f) |->
                    IF g \in DOMAIN e THEN e[g]
                    ELSE [parts |-> LoadBuildFileIncludesIntoDict[g], depth |-> None,
                          included |-> <<>>]]
    BY <1>1 DEF LoadOneBuildFile
  <1>4. /\ DOMAIN one = DOMAIN e \cup FilesRead(f)
        /\ one[f] = [parts |-> LoadBuildFileIncludesIntoDict[f], depth |-> None,
                     included |-> <<>>]
        /\ \A g \in DOMAIN e : one[g] = e[g]
    BY <1>2, <1>3
  <1>5. PICK ev : ev = Evaluated(f, e, f)
    OBVIOUS
  <1>6. ev = [one EXCEPT ![f].depth = f, ![f].included = GetIncludedBuildFiles(f)]
    BY <1>1, <1>5 DEF Evaluated
  <1>7. DOMAIN ev = DOMAIN one
    BY <1>6
  <1>8. ev[f] = Entry(f)
    <2>1. ev[f] = [[one[f] EXCEPT !.depth = f] EXCEPT !.included = GetIncludedBuildFiles(f)]
      BY <1>2, <1>4, <1>6
    <2>2. PICK p, i : p = LoadBuildFileIncludesIntoDict[f] /\ i = GetIncludedBuildFiles(f)
      OBVIOUS
    <2>3. PICK r : r = one[f]
      OBVIOUS
    <2>4. r = [parts |-> p, depth |-> None, included |-> <<>>]
      BY <1>4, <2>2, <2>3
    <2>5. [r EXCEPT !.depth = f] = [parts |-> p, depth |-> f, included |-> <<>>]
      BY <2>4
    <2>6. [[r EXCEPT !.depth = f] EXCEPT !.included = i]
            = [parts |-> p, depth |-> f, included |-> i]
      <3>1. PICK d : d = [r EXCEPT !.depth = f]
        OBVIOUS
      <3>2. d = [parts |-> p, depth |-> f, included |-> <<>>]
        BY <2>5, <3>1
      <3>3. [d EXCEPT !.included = i] = [parts |-> p, depth |-> f, included |-> i]
        BY <3>2
      <3> QED
        BY <3>1, <3>3
    <2> QED
      BY <2>1, <2>2, <2>3, <2>6 DEF Entry
  <1>9. \A g \in DOMAIN e : ev[g] = e[g]
    BY <1>4, <1>6
  <1> QED
    BY <1>4, <1>5, <1>7, <1>8, <1>9

LEMMA UpdatedFacts ==
    ASSUME NEW old, NEW new
    PROVE  /\ DOMAIN Updated(old, new) = DOMAIN old \cup DOMAIN new
           /\ \A g \in DOMAIN new : Updated(old, new)[g] = new[g]
           /\ \A g \in DOMAIN old : g \notin DOMAIN new => Updated(old, new)[g] = old[g]
  BY DEF Updated

-----------------------------------------------------------------------------
(***************************************************************************)
(* Files that are named, queued and reachable.                             *)
(***************************************************************************)
LEMMA StackedFacts ==
    ASSUME NEW st \in Seq(Seq(GypFiles))
    PROVE  /\ \A d \in Seq(GypFiles) :
                 /\ Append(st, d) \in Seq(Seq(GypFiles))
                 /\ Stacked(Append(st, d)) = Stacked(st) \cup ToSet(d)
           /\ st # <<>> =>
                 /\ Front(st) \in Seq(Seq(GypFiles)) /\ Last(st) \in Seq(GypFiles)
                 /\ Stacked(st) = Stacked(Front(st)) \cup ToSet(Last(st))
  <1>1. ASSUME NEW d \in Seq(GypFiles)
        PROVE  /\ Append(st, d) \in Seq(Seq(GypFiles))
               /\ Stacked(Append(st, d)) = Stacked(st) \cup ToSet(d)
    <2>1. PICK a : a = Append(st, d)
      OBVIOUS
    <2>2. a \in Seq(Seq(GypFiles)) /\ ToSet(a) = ToSet(st) \cup {d}
      BY <2>1, AppendSet
    <2>3. Stacked(a) = Stacked(st) \cup ToSet(d)
      BY <2>2 DEF Stacked
    <2> QED
      BY <2>1, <2>2, <2>3
  <1>2. ASSUME st # <<>>
        PROVE  /\ Front(st) \in Seq(Seq(GypFiles)) /\ Last(st) \in Seq(GypFiles)
               /\ Stacked(st) = Stacked(Front(st)) \cup ToSet(Last(st))
    <2>1. PICK a, b : a = Front(st) /\ b = Last(st)
      OBVIOUS
    <2>2. a \in Seq(Seq(GypFiles)) /\ b \in Seq(GypFiles) /\ ToSet(st) = ToSet(a) \cup {b}
      BY <1>2, <2>1, FrontSet
    <2>3. Stacked(st) = Stacked(a) \cup ToSet(b)
      BY <2>2 DEF Stacked
    <2> QED
      BY <2>1, <2>2, <2>3
  <1> QED
    BY <1>1, <1>2

LEMMA StackedEmpty == Stacked(<<>>) = {}
  BY ToSetEmpty DEF Stacked

LEMMA NamedFacts ==
    ASSUME disk \in Disks, NEW L \in SUBSET GypFiles
    PROVE  /\ NamedBy(disk, L) \subseteq GypFiles /\ BuildFiles \subseteq NamedBy(disk, L)
           /\ \A f : NamedBy(disk, L \cup {f}) = NamedBy(disk, L) \cup ToSet(Dependencies(f))
  <1>1. \A f \in GypFiles : ToSet(Dependencies(f)) \subseteq GypFiles
    BY DiskFacts, ToSetIs
  <1>2. BuildFiles \subseteq GypFiles
    BY LoadAssumption
  <1>3. NamedBy(disk, L) \subseteq GypFiles
    BY <1>1, <1>2 DEF NamedBy, Dependencies
  <1>4. BuildFiles \subseteq NamedBy(disk, L)
    BY DEF NamedBy
  <1>5. \A f : NamedBy(disk, L \cup {f}) = NamedBy(disk, L) \cup ToSet(Dependencies(f))
    BY DEF NamedBy, Dependencies
  <1> QED
    BY <1>3, <1>4, <1>5

\* What reachable files name is reachable, and a set that is closed under naming
\* has all that is reachable.
LEMMA ReachableFacts ==
    ASSUME disk \in Disks
    PROVE  /\ Reachable \subseteq GypFiles
           /\ \A L \in SUBSET Reachable : NamedBy(disk, L) \subseteq Reachable
           /\ \A L \in SUBSET GypFiles : NamedBy(disk, L) \subseteq L => Reachable \subseteq L
  <1>1. Reachable \subseteq GypFiles
    BY DEF Reachable
  <1>2. ASSUME NEW L \in SUBSET Reachable, NEW f \in NamedBy(disk, L) PROVE f \in Reachable
    <2>1. f \in GypFiles
      <3>1. L \in SUBSET GypFiles
        BY <1>1
      <3> QED
        BY <3>1, NamedFacts
    <2>2. ASSUME NEW S \in SUBSET GypFiles, BuildFiles \subseteq S,
                 \A g \in S : ToSet(disk[g].deps) \subseteq S
          PROVE  f \in S
      <3>1. \A g \in L : g \in S
        BY <2>2 DEF Reachable
      <3> QED
        BY <2>2, <3>1 DEF NamedBy
    <2> QED
      BY <2>1, <2>2 DEF Reachable
  <1>3. ASSUME NEW L \in SUBSET GypFiles, NamedBy(disk, L) \subseteq L,
               NEW f \in Reachable
        PROVE  f \in L
    <2>1. BuildFiles \subseteq L /\ \A g \in L : ToSet(disk[g].deps) \subseteq L
      BY <1>3 DEF NamedBy
    <2> QED
      BY <2>1 DEF Reachable
  <1> QED
    BY <1>1, <1>2, <1>3

-----------------------------------------------------------------------------
(***************************************************************************)
(* The dictionaries.                                                       *)
(***************************************************************************)
\* Nothing is entered.
LEMMA NothingEntered ==
    ASSUME DataOK, NamedOK, disk' = disk, data' = data, auxData' = auxData,
           Loaded' = Loaded,
           targetBuildFiles' \subseteq targetBuildFiles \cup NamedBy(disk, Loaded),
           disk \in Disks, targetBuildFiles \subseteq GypFiles
    PROVE  DataOK' /\ NamedOK' /\ NamedBy(disk, Loaded)' = NamedBy(disk, Loaded)
  <1>1. NamedBy(disk, Loaded)' = NamedBy(disk, Loaded)
    BY DEF NamedBy
  <1>2. DataOK'
    BY DiskUnchanged DEF DataOK
  <1>3. Loaded \subseteq Reachable
    BY DEF Loaded, NamedOK
  <1>4. NamedBy(disk, Loaded) \subseteq Reachable
    BY <1>3, ReachableFacts
  <1>5. NamedOK'
    BY <1>1, <1>4, DiskUnchanged DEF NamedOK
  <1> QED
    BY <1>1, <1>2, <1>5

\* The entries of file f are entered.
LEMMA FileEntered ==
    ASSUME DataOK, NamedOK, disk' = disk, disk \in Disks,
           targetBuildFiles \subseteq GypFiles,
           NEW f \in GypFiles, f \in NamedBy(disk, Loaded), ~Raises(f),
           targetBuildFiles' = targetBuildFiles \cup {f},
           DOMAIN data' = DOMAIN data \cup FilesRead(f),
           DOMAIN auxData' = DOMAIN auxData \cup FilesRead(f),
           data'[f] = Entry(f), \A g \in Loaded : g # f => data'[g] = data[g]
    PROVE  /\ DataOK' /\ NamedOK' /\ Loaded' = Loaded \cup {f}
           /\ NamedBy(disk, Loaded)' = NamedBy(disk, Loaded) \cup ToSet(Dependencies(f))
  <1>1. /\ FilesRead(f) \subseteq Files /\ f \in FilesRead(f)
        /\ \A g \in FilesRead(f) : g \in GypFiles => g = f
    BY FilesReadFacts
  <1>2. Loaded' = Loaded \cup {f}
    BY <1>1 DEF Loaded
  <1>3. Loaded \subseteq GypFiles /\ Loaded \subseteq Reachable
    BY DEF Loaded, NamedOK
  <1>4. NamedBy(disk, Loaded)' = NamedBy(disk, Loaded \cup {f})
    BY <1>2 DEF NamedBy
  <1>5. NamedBy(disk, Loaded)' = NamedBy(disk, Loaded) \cup ToSet(Dependencies(f))
    BY <1>3, <1>4, NamedFacts
  <1>6. NamedOK'
    <2>1. f \in Reachable
      BY <1>3, ReachableFacts
    <2> QED
      BY <1>5, <2>1, DiskUnchanged DEF NamedOK
  <1>7. DataOK'
    <2>1. DOMAIN auxData' = DOMAIN data'
      BY DEF DataOK
    <2>2. \A g \in Loaded' : FilesRead(g)' \subseteq DOMAIN data'
      BY <1>2, DiskUnchanged DEF DataOK
    <2>3. \A g \in DOMAIN data' : \E h \in Loaded' : g \in FilesRead(h)'
      BY <1>2, DiskUnchanged DEF DataOK
    <2>4. \A g \in Loaded' : data'[g] = Entry(g)' /\ ~Raises(g)'
      BY <1>2, DiskUnchanged DEF DataOK
    <2> QED
      BY <2>1, <2>2, <2>3, <2>4 DEF DataOK
  <1> QED
    BY <1>2, <1>5, <1>6, <1>7

-----------------------------------------------------------------------------
(***************************************************************************)
(* The pool.                                                               *)
(***************************************************************************)
\* File x is in the pool.
InPool(x) ==
    \/ x \in tasks
    \/ \E w \in Workers : running[w] # Idle /\ running[w].file = x
    \/ \E r \in results : r.file = x

LEMMA OutstandingIs ==
    /\ \A x : x \in Outstanding <=> InPool(x)
    /\ \A x : x \in Outstanding' <=> InPool(x)'
  BY DEF Outstanding, InPool

LEMMA HandedFinite ==
    ASSUME TypesOK
    PROVE  /\ IsFiniteSet(Handed) /\ Cardinality(Handed) \in Nat
           /\ Cardinality(Handed) <= Cardinality(GypFiles) /\ IsFiniteSet(GypFiles)
           /\ Cardinality(GypFiles) \in Nat
  <1>1. IsFiniteSet(GypFiles)
    BY LoadAssumption, FS_Subset DEF Files
  <1>2. Handed \in SUBSET GypFiles
    BY DEF Handed, TypesOK
  <1>3. PICK H : H = Handed
    OBVIOUS
  <1>4. IsFiniteSet(H) /\ Cardinality(H) <= Cardinality(GypFiles)
    BY <1>1, <1>2, <1>3, FS_Subset
  <1>5. Cardinality(H) \in Nat /\ Cardinality(GypFiles) \in Nat
    BY <1>1, <1>4, FS_CardinalityType
  <1> QED
    BY <1>1, <1>3, <1>4, <1>5

\* What is left of the invariant when the pool and what is loaded stay.
LEMMA PoolStays ==
    ASSUME UNCHANGED <<disk, tasks, running, results, targetBuildFiles>>,
           RunningTypeOK, ResultsOK, OnePlace
    PROVE  RunningTypeOK' /\ ResultsOK' /\ OnePlace' /\ Outstanding' = Outstanding
  <1>1. RunningTypeOK' /\ OnePlace' /\ Outstanding' = Outstanding
    BY DEF RunningTypeOK, OnePlace, Outstanding
  <1>2. ResultsOK'
    BY DiskUnchanged DEF ResultsOK, ResultOK
  <1> QED
    BY <1>1, <1>2

LEMMA LoadInvInit ==
    ASSUME Init
    PROVE  LoadInv
  <1>1. /\ SomeOrder \in Seq(GypFiles) /\ Distinct(SomeOrder)
        /\ ToSet(SomeOrder) = BuildFiles
    BY SomeOrderFacts
  <1>2. BuildFiles \subseteq GypFiles
    BY LoadAssumption
  <1>3. DOMAIN data = {} /\ DOMAIN auxData = {}
    BY DEF Init, NoEntries
  <1>4. TypesOK
    BY <1>1, <1>2 DEF TypesOK, Init
  <1>5. Loaded = {} /\ Handed = {}
    BY <1>1, <1>3 DEF Loaded, Handed, Init
  <1>6. NamedBy(disk, Loaded) = BuildFiles
    BY <1>5 DEF NamedBy
  <1>7. \A w \in Workers : running[w] = Idle
    BY DEF Init
  <1>8. Outstanding = {}
    BY <1>7 DEF Outstanding, Init
  <1>9. RunningTypeOK /\ ResultsOK /\ OnePlace
    BY <1>7 DEF RunningTypeOK, ResultsOK, OnePlace, Init
  <1>10. DataOK /\ NamedOK
    BY <1>3, <1>5 DEF DataOK, NamedOK, Init
  <1>11. Cardinality(Handed) = 0
    BY <1>5, FS_EmptySet
  <1>12. ParallelOK
    BY <1>1, <1>5, <1>6, <1>8, <1>11 DEF ParallelOK, Init
  <1>13. SerialOK
    <2>1. << >> \in Seq(Seq(GypFiles))
      OBVIOUS
    <2>2. Stacked(stack) = {}
      BY StackedEmpty DEF Init
    <2> QED
      BY <1>1, <1>6, <1>7, <2>1, <2>2 DEF SerialOK, Init
  <1>14. DOMAIN running = Workers
    BY DEF Init
  <1> QED
    BY <1>4, <1>9, <1>10, <1>12, <1>13, <1>14 DEF LoadInv

\* A step of the main thread alone.
LEMMA MainMoves ==
    ASSUME LoadInv, UNCHANGED <<disk, parallel, poolVars, dataVars, stack>>,
           main' \in {"loop", "waiting", "notified", "joining", "done", "failed"},
           parallel => /\ main # "interrupted"
                       /\ main' \in {"joining", "done"} /\ ~error =>
                             dependencies = <<>> /\ pending = 0
                       /\ main' = "done" => ~error
                       /\ main' = "failed" => error,
           ~parallel => /\ main = "loop" /\ main' = "done"
                        /\ stack = <<>> /\ dependencies = <<>>
    PROVE  LoadInv'
  <1>1. Loaded' = Loaded /\ Handed' = Handed
    BY DEF Loaded, Handed, dataVars, poolVars
  <1>2. DataOK' /\ NamedOK' /\ NamedBy(disk, Loaded)' = NamedBy(disk, Loaded)
    BY <1>1, NothingEntered DEF LoadInv, TypesOK, dataVars
  <1>3. RunningTypeOK' /\ ResultsOK' /\ OnePlace' /\ Outstanding' = Outstanding
    BY PoolStays DEF LoadInv, poolVars, dataVars
  <1>4. TypesOK'
    BY DEF LoadInv, TypesOK, poolVars, dataVars
  <1>6. ParallelOK'
    <2> SUFFICES ASSUME parallel' PROVE ParallelOK'
      BY DEF ParallelOK
    <2>1. parallel /\ ParallelOK
      BY DEF LoadInv
    <2>2. \A f : Raises(f)' <=> Raises(f)
      BY DiskUnchanged
    <2> QED
      BY <1>1, <1>2, <1>3, <2>1, <2>2 DEF ParallelOK, poolVars, dataVars
  <1>7. SerialOK'
    <2> SUFFICES ASSUME ~parallel' PROVE SerialOK'
      BY DEF SerialOK
    <2>1. ~parallel /\ SerialOK
      BY DEF LoadInv
    <2> QED
      BY <1>2, <2>1 DEF SerialOK, poolVars, dataVars
  <1> QED
    BY <1>2, <1>3, <1>4, <1>6, <1>7 DEF LoadInv, poolVars

LEMMA MainSteps ==
    ASSUME LoadInv, Wait \/ Wake \/ Leave \/ Join \/ LeaveSerial
    PROVE  LoadInv'
  <1>1. CASE Wait
    BY <1>1, MainMoves DEF Wait
  <1>2. CASE Wake
    <2>1. parallel
      BY <1>2 DEF Wake, LoadInv, SerialOK
    <2> QED
      BY <1>2, <2>1, MainMoves DEF Wake
  <1>3. CASE Leave
    BY <1>3, MainMoves DEF Leave
  <1>4. CASE Join
    <2>1. parallel
      BY <1>4 DEF Join, LoadInv, SerialOK
    <2>2. /\ ~error => dependencies = <<>> /\ pending = 0
          /\ error \in BOOLEAN
      BY <1>4, <2>1 DEF Join, LoadInv, ParallelOK, TypesOK
    <2>3. main' = (IF error THEN "failed" ELSE "done")
      BY <1>4 DEF Join
    <2>4. CASE error
      BY <1>4, <2>1, <2>2, <2>3, <2>4, MainMoves DEF Join
    <2>5. CASE ~error
      BY <1>4, <2>1, <2>2, <2>3, <2>5, MainMoves DEF Join
    <2> QED
      BY <2>4, <2>5
  <1>5. CASE LeaveSerial
    BY <1>5, MainMoves DEF LeaveSerial
  <1> QED
    BY <1>1, <1>2, <1>3, <1>4, <1>5

LEMMA ScheduleKeepsInv ==
    ASSUME LoadInv, Schedule
    PROVE  LoadInv'
  <1>0. parallel /\ parallel' /\ main = "loop" /\ ~error /\ ParallelOK /\ TypesOK
    BY DEF Schedule, LoadInv
  <1>1. PICK f, q : f = Last(dependencies) /\ q = Front(dependencies)
    OBVIOUS
  <1>2. /\ q \in Seq(GypFiles) /\ f \in GypFiles
        /\ ToSet(dependencies) = ToSet(q) \cup {f}
        /\ Distinct(q) /\ f \notin ToSet(q)
    BY <1>0, <1>1, FrontSet DEF Schedule, TypesOK, ParallelOK
  <1>3. /\ dependencies' = q /\ pending' = pending + 1 /\ tasks' = tasks \cup {f}
        /\ UNCHANGED <<disk, parallel, main, scheduled, error, running, results,
                       targetBuildFiles, data, auxData, depthVar, stack>>
    BY <1>1 DEF Schedule, dataVars
  <1>4. f \in scheduled /\ f \notin targetBuildFiles /\ f \notin Handed
    BY <1>0, <1>2 DEF ParallelOK, Handed
  <1>5. Handed' = Handed \cup {f}
    BY <1>2, <1>3, <1>4 DEF Handed
  <1>6. ~InPool(f)
    BY <1>0, <1>4, OutstandingIs DEF ParallelOK
  <1>7. Outstanding' = Outstanding \cup {f}
    BY <1>3 DEF Outstanding
  <1>8. Loaded' = Loaded
    BY <1>3 DEF Loaded
  <1>9. DataOK' /\ NamedOK' /\ NamedBy(disk, Loaded)' = NamedBy(disk, Loaded)
    BY <1>3, <1>8, NothingEntered DEF LoadInv, TypesOK
  <1>10. TypesOK'
    BY <1>0, <1>2, <1>3 DEF TypesOK
  <1>11. RunningTypeOK'
    BY <1>3 DEF LoadInv, RunningTypeOK
  <1>12. ResultsOK'
    BY <1>3, DiskUnchanged DEF LoadInv, ResultsOK, ResultOK
  <1>13. OnePlace'
    BY <1>3, <1>6 DEF LoadInv, OnePlace, InPool
  <1>14. pending' = Cardinality(Handed')
    <2>1. Cardinality(Handed \cup {f}) = Cardinality(Handed) + 1
      BY <1>0, <1>4, HandedFinite, FS_AddElement
    <2> QED
      BY <1>0, <1>3, <1>5, <2>1 DEF ParallelOK
  <1>15. ParallelOK'
    <2>1. \A x : Raises(x)' <=> Raises(x)
      BY <1>3, DiskUnchanged
    <2> QED
      BY <1>0, <1>2, <1>3, <1>5, <1>7, <1>9, <1>14, <2>1 DEF ParallelOK
  <1>16. SerialOK'
    BY <1>0 DEF SerialOK
  <1> QED
    BY <1>3, <1>9, <1>10, <1>11, <1>12, <1>13, <1>15, <1>16 DEF LoadInv

LEMMA InterruptKeepsInv ==
    ASSUME LoadInv, KeyboardInterrupt
    PROVE  LoadInv'
  <1>0. parallel /\ parallel' /\ main = "loop" /\ ParallelOK /\ TypesOK
    BY DEF KeyboardInterrupt, LoadInv
  <1>1. /\ main' = "interrupted" /\ tasks' = {} /\ results' = {}
        /\ running' = [w \in Workers |-> Idle]
        /\ UNCHANGED <<disk, parallel, pending, scheduled, dependencies, error,
                       targetBuildFiles, data, auxData, stack>>
    BY DEF KeyboardInterrupt, dataVars
  <1>2. \A w \in Workers : running'[w] = Idle
    BY <1>1
  <1>3. Outstanding' = {}
    BY <1>1, <1>2 DEF Outstanding
  <1>4. Loaded' = Loaded /\ Handed' = Handed
    BY <1>1 DEF Loaded, Handed
  <1>5. DataOK' /\ NamedOK' /\ NamedBy(disk, Loaded)' = NamedBy(disk, Loaded)
    BY <1>1, <1>4, NothingEntered DEF LoadInv, TypesOK
  <1>6. TypesOK'
    BY <1>0, <1>1 DEF TypesOK
  <1>7. RunningTypeOK' /\ ResultsOK' /\ OnePlace'
    BY <1>1, <1>2 DEF RunningTypeOK, ResultsOK, OnePlace
  <1>8. ParallelOK'
    <2>1. \A x : Raises(x)' <=> Raises(x)
      BY <1>1, DiskUnchanged
    <2> QED
      BY <1>0, <1>1, <1>3, <1>4, <1>5, <2>1 DEF ParallelOK
  <1>9. SerialOK'
    BY <1>0 DEF SerialOK
  <1>10. DOMAIN running' = Workers
    BY <1>1
  <1> QED
    BY <1>5, <1>6, <1>7, <1>8, <1>9, <1>10 DEF LoadInv

\* A step of a process of the pool: files move inside the pool.
LEMMA PoolMoves ==
    ASSUME LoadInv, parallel,
           UNCHANGED <<disk, parallel, main, pending, scheduled, dependencies, error,
                       targetBuildFiles, data, auxData, stack>>,
           tasks' \subseteq GypFiles, DOMAIN running' = Workers,
           RunningTypeOK', ResultsOK', OnePlace', Outstanding' = Outstanding
    PROVE  LoadInv'
  <1>0. parallel' /\ ParallelOK /\ TypesOK
    BY DEF LoadInv
  <1>1. Loaded' = Loaded /\ Handed' = Handed
    BY DEF Loaded, Handed
  <1>2. DataOK' /\ NamedOK' /\ NamedBy(disk, Loaded)' = NamedBy(disk, Loaded)
    BY <1>1, NothingEntered DEF LoadInv, TypesOK
  <1>3. TypesOK'
    BY <1>0 DEF TypesOK
  <1>4. ParallelOK'
    <2>1. \A x : Raises(x)' <=> Raises(x)
      BY DiskUnchanged
    <2> QED
      BY <1>0, <1>1, <1>2, <2>1 DEF ParallelOK
  <1>5. SerialOK'
    BY <1>0 DEF SerialOK
  <1> QED
    BY <1>2, <1>3, <1>4, <1>5 DEF LoadInv

LEMMA IdleHasNoFile == \A f \in GypFiles : \A S : [file |-> f, loaded |-> S] # Idle
  <1> SUFFICES ASSUME NEW f \in GypFiles, NEW S, [file |-> f, loaded |-> S] = Idle
               PROVE  FALSE
    OBVIOUS
  <1>1. [file |-> f, loaded |-> S].file = [file |-> None, loaded |-> {}].file
    BY DEF Idle
  <1>2. f = None
    BY <1>1
  <1> QED
    BY <1>2, LoadAssumption

LEMMA TakeTaskKeepsInv ==
    ASSUME LoadInv, NEW w \in Workers, TakeTask(w)
    PROVE  LoadInv'
  <1>0. /\ TypesOK /\ RunningTypeOK /\ ResultsOK /\ OnePlace /\ DOMAIN running = Workers
    BY DEF LoadInv
  <1>1. PICK f \in tasks :
           /\ tasks' = tasks \ {f}
           /\ running' = [running EXCEPT ![w] = [file |-> f, loaded |-> targetBuildFiles]]
    BY DEF TakeTask
  <1>2. PICK c : c = [file |-> f, loaded |-> targetBuildFiles]
    OBVIOUS
  <1>3. c # Idle /\ c.file = f /\ c.loaded = targetBuildFiles /\ f \in GypFiles
    BY <1>0, <1>1, <1>2, IdleHasNoFile DEF TypesOK
  <1>4. /\ running[w] = Idle /\ running'[w] = c
        /\ \A v \in Workers : v # w => running'[v] = running[v]
        /\ DOMAIN running' = Workers
    BY <1>0, <1>1, <1>2 DEF TakeTask
  <1>5. UNCHANGED <<disk, parallel, main, pending, scheduled, dependencies, error, results,
                    targetBuildFiles, data, auxData, stack>>
    BY DEF TakeTask, dataVars
  <1>6. parallel
    BY <1>1 DEF LoadInv, SerialOK, TypesOK
  <1>7. RunningTypeOK'
    <2> SUFFICES ASSUME NEW v \in Workers, running'[v] # Idle
                 PROVE  /\ running'[v].file \in GypFiles
                        /\ running'[v].loaded \subseteq targetBuildFiles'
      BY DEF RunningTypeOK
    <2>1. CASE v = w
      BY <1>3, <1>4, <1>5, <2>1
    <2>2. CASE v # w
      BY <1>0, <1>4, <1>5, <2>2 DEF RunningTypeOK
    <2> QED
      BY <2>1, <2>2
  <1>8. ResultsOK'
    BY <1>0, <1>5, DiskUnchanged DEF ResultsOK, ResultOK
  <1>9. OnePlace'
    <2>1. \A v \in Workers : running[v] # Idle => running[v].file # f
      BY <1>0, <1>1 DEF OnePlace
    <2>2. \A r \in results : r.file # f
      BY <1>0, <1>1 DEF OnePlace
    <2>3. \A v \in Workers : running'[v] # Idle => running'[v].file \notin tasks'
      BY <1>0, <1>1, <1>3, <1>4 DEF OnePlace
    <2>4. \A u, v \in Workers : running'[u] # Idle /\ running'[v] # Idle
                                /\ running'[u].file = running'[v].file => u = v
      BY <1>0, <1>3, <1>4, <2>1 DEF OnePlace
    <2>5. /\ \A r \in results' : r.file \notin tasks'
          /\ \A r, s \in results' : r.file = s.file => r = s
      BY <1>0, <1>1, <1>5 DEF OnePlace
    <2>6. \A r \in results' : \A v \in Workers : running'[v] # Idle => running'[v].file # r.file
      BY <1>0, <1>3, <1>4, <1>5, <2>2 DEF OnePlace
    <2> QED
      BY <2>3, <2>4, <2>5, <2>6 DEF OnePlace
  <1>10. Outstanding' = Outstanding
    <2>1. ASSUME NEW x PROVE InPool(x) => InPool(x)'
      BY <1>1, <1>3, <1>4, <1>5 DEF InPool
    <2>2. ASSUME NEW x PROVE InPool(x)' => InPool(x)
      BY <1>1, <1>3, <1>4, <1>5 DEF InPool
    <2>3. \A x : x \in Outstanding' <=> x \in Outstanding
      BY <2>1, <2>2, OutstandingIs
    <2> QED
      BY <2>3
  <1>11. tasks' \subseteq GypFiles
    BY <1>0, <1>1 DEF TypesOK
  <1> QED
    BY <1>4, <1>5, <1>6, <1>7, <1>8, <1>9, <1>10, <1>11, PoolMoves

LEMMA CallKeepsInv ==
    ASSUME LoadInv, NEW w \in Workers, CallLoadTargetBuildFile(w)
    PROVE  LoadInv'
  <1>0. /\ TypesOK /\ RunningTypeOK /\ ResultsOK /\ OnePlace /\ DOMAIN running = Workers
        /\ running[w] # Idle
    BY DEF LoadInv, CallLoadTargetBuildFile
  <1>1. parallel /\ ParallelOK
    BY <1>0 DEF LoadInv, SerialOK, TypesOK
  <1>2. PICK f : f = running[w].file
    OBVIOUS
  <1>3. f \in GypFiles /\ running[w].loaded \subseteq targetBuildFiles
    BY <1>0, <1>2 DEF RunningTypeOK
  \* The file is not among those that were loaded when the call was copied.
  <1>4. f \notin running[w].loaded
    <2>1. f \in Outstanding
      BY <1>0, <1>2, OutstandingIs DEF InPool
    <2>2. f \notin targetBuildFiles
      BY <1>1, <2>1 DEF ParallelOK, Handed
    <2> QED
      BY <1>3, <2>2
  <1>5. PICK e : e = Evaluated(f, NoEntries, f)
    OBVIOUS
  <1>6. DOMAIN e = FilesRead(f) /\ e[f] = Entry(f)
    <2>1. DOMAIN NoEntries = {}
      BY DEF NoEntries
    <2> QED
      BY <1>0, <1>3, <1>5, <2>1, EvaluatedFacts DEF TypesOK
  <1>7. PICK r : r = IF Raises(f) THEN [file |-> f, ok |-> FALSE]
                     ELSE [file |-> f, ok |-> TRUE, data |-> e,
                           aux |-> AuxEntries(f), deps |-> Dependencies(f)]
    OBVIOUS
  <1>8. ResultOK(r) /\ r.file = f
    <2>1. CASE Raises(f)
      BY <1>3, <1>7, <2>1 DEF ResultOK
    <2>2. CASE ~Raises(f)
      <3>1. /\ r.file = f /\ r.ok = TRUE /\ r.data = e /\ r.aux = AuxEntries(f)
            /\ r.deps = Dependencies(f)
        BY <1>7, <2>2
      <3>2. DOMAIN AuxEntries(f) = FilesRead(f)
        BY DEF AuxEntries
      <3> QED
        BY <1>3, <1>6, <2>2, <3>1, <3>2 DEF ResultOK
    <2> QED
      BY <2>1, <2>2
  <1>9. /\ results' = results \cup {r}
        /\ running' = [running EXCEPT ![w] = Idle]
        /\ UNCHANGED <<disk, parallel, main, pending, scheduled, dependencies, error,
                       tasks, targetBuildFiles, data, auxData, stack>>
    BY <1>2, <1>4, <1>5, <1>7 DEF CallLoadTargetBuildFile, dataVars
  <1>10. /\ running'[w] = Idle /\ DOMAIN running' = Workers
         /\ \A v \in Workers : v # w => running'[v] = running[v]
    BY <1>0, <1>9
  <1>11. RunningTypeOK'
    BY <1>0, <1>9, <1>10 DEF RunningTypeOK
  <1>12. ResultsOK'
    <2>1. \A s \in results' : ResultOK(s)
      BY <1>0, <1>8, <1>9 DEF ResultsOK
    <2>2. \A s : ResultOK(s) => ResultOK(s)'
      BY <1>9, DiskUnchanged DEF ResultOK
    <2> QED
      BY <2>1, <2>2 DEF ResultsOK
  <1>13. OnePlace'
    <2>1. /\ f \notin tasks
          /\ \A s \in results : s.file # f
          /\ \A v \in Workers : running[v] # Idle /\ v # w => running[v].file # f
      BY <1>0, <1>2 DEF OnePlace
    <2>2. /\ \A v \in Workers : running'[v] # Idle => running'[v].file \notin tasks'
          /\ \A u, v \in Workers : running'[u] # Idle /\ running'[v] # Idle
                                   /\ running'[u].file = running'[v].file => u = v
      BY <1>0, <1>9, <1>10 DEF OnePlace
    <2>3. \A s \in results' : s.file \notin tasks'
      BY <1>0, <1>8, <1>9, <2>1 DEF OnePlace
    <2>4. \A s, t \in results' : s.file = t.file => s = t
      BY <1>0, <1>8, <1>9, <2>1 DEF OnePlace
    <2>5. \A s \in results' : \A v \in Workers : running'[v] # Idle => running'[v].file # s.file
      BY <1>0, <1>8, <1>9, <1>10, <2>1 DEF OnePlace
    <2> QED
      BY <2>2, <2>3, <2>4, <2>5 DEF OnePlace
  <1>14. Outstanding' = Outstanding
    <2>1. ASSUME NEW x PROVE InPool(x) => InPool(x)'
      BY <1>2, <1>8, <1>9, <1>10 DEF InPool
    <2>2. ASSUME NEW x PROVE InPool(x)' => InPool(x)
      BY <1>0, <1>2, <1>8, <1>9, <1>10 DEF InPool
    <2>3. \A x : x \in Outstanding' <=> x \in Outstanding
      BY <2>1, <2>2, OutstandingIs
    <2> QED
      BY <2>3
  <1>15. tasks' \subseteq GypFiles
    BY <1>0, <1>9 DEF TypesOK
  <1> QED
    BY <1>1, <1>9, <1>10, <1>11, <1>12, <1>13, <1>14, <1>15, PoolMoves

\* The result thread takes a result from the pool.
LEMMA ResultTaken ==
    ASSUME LoadInv, NEW r \in results, results' = results \ {r},
           UNCHANGED <<disk, tasks, running>>, targetBuildFiles \subseteq targetBuildFiles'
    PROVE  /\ RunningTypeOK' /\ ResultsOK' /\ OnePlace' /\ DOMAIN running' = Workers
           /\ Outstanding' = Outstanding \ {r.file} /\ r.file \in Outstanding
  <1>0. RunningTypeOK /\ ResultsOK /\ OnePlace /\ DOMAIN running = Workers
    BY DEF LoadInv
  <1>1. RunningTypeOK'
    BY <1>0 DEF RunningTypeOK
  <1>2. ResultsOK'
    BY <1>0, DiskUnchanged DEF ResultsOK, ResultOK
  <1>3. OnePlace'
    BY <1>0 DEF OnePlace
  <1>4. r.file \in Outstanding
    BY OutstandingIs DEF InPool
  <1>5. ASSUME NEW x PROVE InPool(x)' => InPool(x) /\ x # r.file
    BY <1>0 DEF InPool, OnePlace
  <1>6. ASSUME NEW x, x # r.file PROVE InPool(x) => InPool(x)'
    BY <1>6 DEF InPool
  <1>7. \A x : x \in Outstanding' <=> x \in Outstanding /\ x # r.file
    BY <1>5, <1>6, OutstandingIs
  <1> QED
    BY <1>0, <1>1, <1>2, <1>3, <1>4, <1>7

LEMMA CallbackKeepsInv ==
    ASSUME LoadInv, LoadTargetBuildFileCallback
    PROVE  LoadInv'
  <1>0. /\ TypesOK /\ ResultsOK /\ DataOK /\ NamedOK
        /\ main \in {"waiting", "notified", "joining"}
    BY DEF LoadInv, LoadTargetBuildFileCallback
  <1>1. PICK r \in results :
          /\ results' = results \ {r}
          /\ IF r.ok
             THEN /\ targetBuildFiles' = targetBuildFiles \cup {r.file}
                  /\ data' = Updated(data, r.data)
                  /\ auxData' = Updated(auxData, r.aux)
                  /\ scheduled' = scheduled \cup ToSet(r.deps)
                  /\ dependencies' = dependencies \o NewDependencies(r.deps)
                  /\ pending' = pending - 1
                  /\ UNCHANGED error
             ELSE /\ error' = TRUE
                  /\ UNCHANGED <<dataVars, pending, scheduled, dependencies>>
    BY DEF LoadTargetBuildFileCallback
  <1>2. parallel /\ ParallelOK
    BY <1>1 DEF LoadInv, SerialOK, TypesOK
  <1>3. UNCHANGED <<disk, parallel, tasks, running, stack>>
    BY DEF LoadTargetBuildFileCallback
  <1>4. /\ main' \in {"notified", "joining"}
        /\ main' = "joining" => main = "joining"
    BY <1>0 DEF LoadTargetBuildFileCallback, Notify
  <1>5. PICK f : f = r.file
    OBVIOUS
  <1>6. ResultOK(r) /\ f \in GypFiles /\ r.ok \in BOOLEAN
    BY <1>0, <1>1, <1>5 DEF ResultsOK, ResultOK
  <1>7. f \in Outstanding /\ f \in Handed /\ f \in scheduled /\ f \notin targetBuildFiles
        /\ f \notin ToSet(dependencies)
    <2>1. f \in Outstanding
      BY <1>1, <1>5, OutstandingIs DEF InPool
    <2> QED
      BY <1>2, <2>1 DEF ParallelOK, Handed
  <1>8. \A x : Raises(x)' <=> Raises(x)
    BY <1>3, DiskUnchanged
  <1>9. SerialOK'
    BY <1>2, <1>3 DEF SerialOK
  \* An error: the file stays handed out for ever.
  <1>10. CASE ~r.ok
    <2>1. error' = TRUE /\ UNCHANGED <<data, auxData, targetBuildFiles, pending, scheduled,
                                       dependencies>>
      BY <1>1, <1>10 DEF dataVars
    <2>2. /\ RunningTypeOK' /\ ResultsOK' /\ OnePlace' /\ DOMAIN running' = Workers
          /\ Outstanding' = Outstanding \ {f}
      BY <1>1, <1>3, <1>5, <2>1, ResultTaken
    <2>3. Loaded' = Loaded /\ Handed' = Handed
      BY <2>1 DEF Loaded, Handed
    <2>4. DataOK' /\ NamedOK' /\ NamedBy(disk, Loaded)' = NamedBy(disk, Loaded)
      BY <1>0, <1>3, <2>1, <2>3, NothingEntered DEF TypesOK
    <2>5. TypesOK'
      BY <1>0, <1>3, <1>4, <2>1 DEF TypesOK
    <2>6. Raises(f)
      BY <1>5, <1>6, <1>10 DEF ResultOK
    <2>7. ParallelOK'
      BY <1>2, <1>3, <1>4, <1>7, <1>8, <2>1, <2>2, <2>3, <2>4, <2>6 DEF ParallelOK
    <2> QED
      BY <1>9, <2>2, <2>4, <2>5, <2>7 DEF LoadInv
  <1>11. CASE r.ok
    <2>0. PICK ds, nd : ds = r.deps /\ nd = NewDependencies(r.deps)
      OBVIOUS
    <2>1. /\ targetBuildFiles' = targetBuildFiles \cup {f}
          /\ data' = Updated(data, r.data) /\ auxData' = Updated(auxData, r.aux)
          /\ scheduled' = scheduled \cup ToSet(ds)
          /\ dependencies' = dependencies \o nd
          /\ pending' = pending - 1 /\ error' = error
      BY <1>1, <1>5, <1>11, <2>0
    <2>2. /\ RunningTypeOK' /\ ResultsOK' /\ OnePlace' /\ DOMAIN running' = Workers
          /\ Outstanding' = Outstanding \ {f}
      BY <1>1, <1>3, <1>5, <2>1, ResultTaken
    <2>3. /\ DOMAIN r.data = FilesRead(f) /\ DOMAIN r.aux = FilesRead(f)
          /\ r.data[f] = Entry(f) /\ ds = Dependencies(f) /\ ~Raises(f)
      BY <1>5, <1>6, <1>11, <2>0 DEF ResultOK
    <2>4. ds \in Seq(GypFiles) /\ ToSet(ds) \subseteq GypFiles
      BY <1>0, <1>6, <2>3, DiskFacts, ToSetIs DEF TypesOK
    <2>5. nd \in Seq(GypFiles) /\ Distinct(nd) /\ ToSet(nd) = ToSet(ds) \ scheduled
      BY <2>0, <2>4, NewDependenciesFacts
    <2>6. PICK q : q = dependencies \o nd
      OBVIOUS
    <2>7. /\ q \in Seq(GypFiles) /\ ToSet(q) = ToSet(dependencies) \cup ToSet(nd)
          /\ Distinct(q)
      BY <1>0, <1>2, <2>5, <2>6, ConcatSet DEF TypesOK, ParallelOK
    <2>8. f \in FilesRead(f) /\ \A g \in FilesRead(f) : g \in GypFiles => g = f
      BY <1>0, <1>6, FilesReadFacts DEF TypesOK
    <2>9. /\ DOMAIN data' = DOMAIN data \cup FilesRead(f)
          /\ DOMAIN auxData' = DOMAIN auxData \cup FilesRead(f)
          /\ data'[f] = Entry(f)
      <3>1. /\ DOMAIN Updated(data, r.data) = DOMAIN data \cup DOMAIN r.data
            /\ \A g \in DOMAIN r.data : Updated(data, r.data)[g] = r.data[g]
        <4>1. PICK old, new : old = data /\ new = r.data
          OBVIOUS
        <4>2. /\ DOMAIN Updated(old, new) = DOMAIN old \cup DOMAIN new
              /\ \A g \in DOMAIN new : Updated(old, new)[g] = new[g]
          BY UpdatedFacts, Zenon
        <4> QED
          BY <4>1, <4>2, Zenon
      <3>2. DOMAIN Updated(auxData, r.aux) = DOMAIN auxData \cup DOMAIN r.aux
        BY UpdatedFacts
      <3>3. f \in DOMAIN r.data
        BY <2>3, <2>8
      <3>4. data'[f] = r.data[f]
        BY <2>1, <3>1, <3>3
      <3> QED
        BY <2>1, <2>3, <3>1, <3>2, <3>4
    <2>10. \A g \in Loaded : g # f => data'[g] = data[g]
      <3> SUFFICES ASSUME NEW g \in Loaded, g # f PROVE data'[g] = data[g]
        OBVIOUS
      <3>1. g \in GypFiles /\ g \in DOMAIN data
        BY <1>0 DEF Loaded, TypesOK
      <3>2. g \notin DOMAIN r.data
        BY <2>3, <2>8, <3>1
      <3> QED
        BY <2>1, <3>1, <3>2, UpdatedFacts
    <2>11. f \in NamedBy(disk, Loaded)
      BY <1>2, <1>7 DEF ParallelOK
    <2>12. /\ DataOK' /\ NamedOK' /\ Loaded' = Loaded \cup {f}
           /\ NamedBy(disk, Loaded)' = NamedBy(disk, Loaded) \cup ToSet(ds)
      BY <1>0, <1>3, <1>6, <2>1, <2>3, <2>9, <2>10, <2>11, FileEntered DEF TypesOK
    <2>13. TypesOK'
      BY <1>0, <1>3, <1>4, <1>6, <2>1, <2>4, <2>6, <2>7 DEF TypesOK
    <2>14. Handed' = Handed \ {f}
      BY <1>7, <2>1, <2>5, <2>6, <2>7 DEF Handed
    <2>15. pending' = Cardinality(Handed')
      <3>1. Cardinality(Handed \ {f}) = Cardinality(Handed) - 1
        BY <1>0, <1>7, HandedFinite, FS_RemoveElement
      <3> QED
        BY <1>2, <2>1, <2>14, <3>1 DEF ParallelOK
    <2>16. targetBuildFiles' \subseteq DOMAIN data'
      BY <1>2, <2>1, <2>8, <2>9 DEF ParallelOK
    <2>17. scheduled' = NamedBy(disk, Loaded)'
      BY <1>2, <2>1, <2>12 DEF ParallelOK
    <2>18. /\ ToSet(q) \subseteq scheduled' /\ ToSet(q) \cap targetBuildFiles' = {}
      <3>1. targetBuildFiles \subseteq scheduled
        BY <1>0, <1>2 DEF NamedOK, ParallelOK
      <3> QED
        BY <1>2, <1>7, <2>1, <2>5, <2>7, <3>1 DEF ParallelOK
    <2>19. Outstanding' \subseteq Handed'
           /\ (~error' /\ main' # "interrupted" => Handed' \subseteq Outstanding')
      BY <1>0, <1>2, <1>4, <2>1, <2>2, <2>14 DEF ParallelOK
    <2>20. error' => \E x \in Handed' : Raises(x)'
      BY <1>2, <1>8, <2>1, <2>3, <2>14 DEF ParallelOK
    \* Without an error nothing is outstanding when the pool is joined.
    <2>21. main' \in {"joining", "done"} => error'
      <3> SUFFICES ASSUME main' \in {"joining", "done"}, ~error' PROVE FALSE
        BY <1>0, <2>1 DEF TypesOK
      <3>1. pending = 0
        BY <1>2, <1>4, <2>1 DEF ParallelOK
      <3>2. Cardinality(Handed) = 0 /\ IsFiniteSet(Handed)
        BY <1>0, <1>2, <3>1, HandedFinite DEF ParallelOK
      <3>3. Handed = {}
        BY <3>2, FS_EmptySet
      <3> QED
        BY <1>7, <3>3
    <2>22. ParallelOK'
      BY <1>2, <1>3, <1>4, <2>1, <2>6, <2>7, <2>15, <2>16, <2>17, <2>18, <2>19, <2>20, <2>21
      DEF ParallelOK
    <2> QED
      BY <1>9, <2>2, <2>12, <2>13, <2>22 DEF LoadInv
  <1> QED
    BY <1>6, <1>10, <1>11

-----------------------------------------------------------------------------
(***************************************************************************)
(* Serial loading.                                                         *)
(***************************************************************************)
\* One call of LoadTargetBuildFile, for a file that was queued.
LEMMA SerialCall ==
    ASSUME LoadInv, ~parallel, main = "loop",
           NEW f \in GypFiles, NEW c \in Seq(Seq(GypFiles)), LoadTargetBuildFile(f, c),
           NEW q \in Seq(GypFiles), dependencies' = q,
           ToSet(dependencies) \cup Stacked(stack) = ToSet(q) \cup Stacked(c) \cup {f}
    PROVE  LoadInv'
  <1>0. /\ TypesOK /\ DataOK /\ NamedOK /\ SerialOK /\ DOMAIN running = Workers
    BY DEF LoadInv
  <1>1. /\ UNCHANGED <<disk, parallel, pending, scheduled, error, tasks, running, results>>
        /\ depthVar' = f
    BY DEF LoadTargetBuildFile
  <1>2. /\ tasks' = {} /\ results' = {} /\ \A w \in Workers : running'[w] = Idle
        /\ pending' = 0 /\ error' = FALSE /\ scheduled' = BuildFiles
    BY <1>0, <1>1 DEF SerialOK
  <1>3. RunningTypeOK' /\ ResultsOK' /\ OnePlace' /\ DOMAIN running' = Workers
    BY <1>0, <1>1, <1>2 DEF RunningTypeOK, ResultsOK, OnePlace
  <1>4. ParallelOK'
    BY <1>1 DEF ParallelOK
  <1>5. f \in NamedBy(disk, Loaded)
    BY <1>0 DEF SerialOK
  <1>6. targetBuildFiles \subseteq DOMAIN data
    BY <1>0 DEF SerialOK
  \* The file was loaded before.
  <1>7. CASE f \in targetBuildFiles
    <2>1. stack' = c /\ UNCHANGED <<main, data, auxData, targetBuildFiles>>
      BY <1>7 DEF LoadTargetBuildFile, dataVars
    <2>2. Loaded' = Loaded
      BY <2>1 DEF Loaded
    <2>3. DataOK' /\ NamedOK' /\ NamedBy(disk, Loaded)' = NamedBy(disk, Loaded)
      BY <1>0, <1>1, <2>1, <2>2, NothingEntered DEF TypesOK
    <2>4. TypesOK'
      BY <1>0, <1>1, <2>1 DEF TypesOK
    <2>5. SerialOK'
      BY <1>0, <1>1, <1>2, <1>7, <2>1, <2>3 DEF SerialOK
    <2> QED
      BY <1>3, <1>4, <2>3, <2>4, <2>5 DEF LoadInv
  <1>8. CASE f \notin targetBuildFiles
    <2>1. targetBuildFiles' = targetBuildFiles \cup {f}
      BY <1>8 DEF LoadTargetBuildFile
    <2>2. f \notin DOMAIN data
      <3> SUFFICES ASSUME f \in DOMAIN data PROVE FALSE
        OBVIOUS
      <3>1. PICK g \in Loaded : f \in FilesRead(g)
        BY <1>0 DEF DataOK
      <3>2. g \in GypFiles /\ g \in targetBuildFiles
        BY <1>0 DEF Loaded, TypesOK
      <3>3. f = g
        BY <1>0, <3>1, <3>2, FilesReadFacts DEF TypesOK
      <3> QED
        BY <1>8, <3>2, <3>3
    \* The file cannot be read: the program ends.
    <2>3. CASE Raises(f)
      <3>1. main' = "failed" /\ stack' = <<>> /\ UNCHANGED <<data, auxData>>
        BY <1>8, <2>3 DEF LoadTargetBuildFile
      <3>2. Loaded' = Loaded
        BY <2>1, <2>2, <3>1 DEF Loaded
      <3>3. DataOK' /\ NamedOK' /\ NamedBy(disk, Loaded)' = NamedBy(disk, Loaded)
        BY <1>0, <1>1, <1>5, <2>1, <3>1, <3>2, NothingEntered DEF TypesOK
      <3>4. TypesOK'
        BY <1>0, <1>1, <2>1, <3>1 DEF TypesOK
      <3>5. Stacked(stack)' = {} /\ stack' \in Seq(Seq(GypFiles))
        BY <3>1, StackedEmpty
      <3>6. SerialOK'
        BY <1>0, <1>1, <1>2, <3>1, <3>3, <3>5 DEF SerialOK
      <3> QED
        BY <1>3, <1>4, <3>3, <3>4, <3>6 DEF LoadInv
    <2>4. CASE ~Raises(f)
      <3>0. PICK d : d = Dependencies(f)
        OBVIOUS
      <3>1. /\ data' = Evaluated(f, data, f) /\ auxData' = Updated(auxData, AuxEntries(f))
            /\ stack' = Append(c, d) /\ UNCHANGED main
        BY <1>1, <1>8, <2>4, <3>0 DEF LoadTargetBuildFile
      <3>2. d \in Seq(GypFiles)
        BY <1>0, <3>0, DiskFacts DEF TypesOK
      <3>3. /\ DOMAIN data' = DOMAIN data \cup FilesRead(f) /\ data'[f] = Entry(f)
            /\ \A g \in DOMAIN data : data'[g] = data[g]
        <4>1. PICK e, v : e = data /\ v = Evaluated(f, e, f)
          OBVIOUS
        <4>2. f \notin DOMAIN e /\ disk \in Disks
          BY <1>0, <2>2, <4>1 DEF TypesOK
        <4>3. /\ DOMAIN Evaluated(f, e, f) = DOMAIN e \cup FilesRead(f)
              /\ Evaluated(f, e, f)[f] = Entry(f)
              /\ \A g \in DOMAIN e : Evaluated(f, e, f)[g] = e[g]
          BY <4>2, EvaluatedFacts, Zenon
        <4>4. data' = v
          BY <3>1, <4>1
        <4> QED
          BY <4>1, <4>3, <4>4, Zenon
      <3>4. DOMAIN auxData' = DOMAIN auxData \cup FilesRead(f)
        <4>1. DOMAIN AuxEntries(f) = FilesRead(f)
          BY DEF AuxEntries
        <4> QED
          BY <3>1, <4>1, UpdatedFacts
      <3>5. \A g \in Loaded : g # f => data'[g] = data[g]
        BY <3>3 DEF Loaded
      <3>6. /\ DataOK' /\ NamedOK' /\ Loaded' = Loaded \cup {f}
            /\ NamedBy(disk, Loaded)' = NamedBy(disk, Loaded) \cup ToSet(d)
        BY <1>0, <1>1, <1>5, <2>1, <2>4, <3>0, <3>3, <3>4, <3>5, FileEntered DEF TypesOK
      <3>7. TypesOK'
        BY <1>0, <1>1, <2>1, <3>1 DEF TypesOK
      <3>8. stack' \in Seq(Seq(GypFiles)) /\ Stacked(stack') = Stacked(c) \cup ToSet(d)
        BY <3>1, <3>2, StackedFacts
      <3>9. f \in FilesRead(f)
        BY <1>0, FilesReadFacts DEF TypesOK
      <3>10. targetBuildFiles' \subseteq DOMAIN data'
        BY <1>6, <2>1, <3>3, <3>9
      <3>11. ToSet(dependencies') \cup Stacked(stack') \subseteq NamedBy(disk, Loaded)'
        BY <1>0, <3>6, <3>8 DEF SerialOK
      <3>12. NamedBy(disk, Loaded)' \subseteq
                targetBuildFiles' \cup ToSet(dependencies') \cup Stacked(stack')
        BY <1>0, <2>1, <3>6, <3>8 DEF SerialOK
      <3>13. SerialOK'
        BY <1>0, <1>1, <1>2, <3>1, <3>8, <3>10, <3>11, <3>12 DEF SerialOK
      <3> QED
        BY <1>3, <1>4, <3>6, <3>7, <3>13 DEF LoadInv
    <2> QED
      BY <2>3, <2>4
  <1> QED
    BY <1>7, <1>8

LEMMA SerialSteps ==
    ASSUME LoadInv, LoadNextBuildFile \/ LoadDependency \/ Return
    PROVE  LoadInv'
  <1>0. TypesOK /\ ParallelOK /\ SerialOK
    BY DEF LoadInv
  <1>1. CASE LoadNextBuildFile
    <2>1. ~parallel /\ main = "loop" /\ stack = <<>>
      BY <1>1 DEF LoadNextBuildFile
    <2>2. PICK i \in DOMAIN dependencies :
             /\ dependencies' = RemoveAt(dependencies, i)
             /\ LoadTargetBuildFile(dependencies[i], stack)
      BY <1>1 DEF LoadNextBuildFile
    <2>3. PICK f, q, c : f = dependencies[i] /\ q = RemoveAt(dependencies, i) /\ c = stack
      OBVIOUS
    <2>4. /\ q \in Seq(GypFiles) /\ f \in GypFiles
          /\ ToSet(dependencies) = ToSet(q) \cup {f}
      BY <1>0, <2>3, RemoveAtSet DEF TypesOK
    <2>5. c \in Seq(Seq(GypFiles)) /\ Stacked(stack) = Stacked(c)
      BY <1>0, <2>1, <2>3 DEF SerialOK
    <2>6. LoadTargetBuildFile(f, c) /\ dependencies' = q
      BY <2>2, <2>3 DEF LoadTargetBuildFile
    <2> QED
      BY <2>1, <2>4, <2>5, <2>6, SerialCall
  <1>2. CASE LoadDependency
    <2>1. stack # <<>> /\ Last(stack) # <<>> /\ dependencies' = dependencies
      BY <1>2 DEF LoadDependency
    <2>2. ~parallel /\ main = "loop" /\ stack \in Seq(Seq(GypFiles))
      BY <1>0, <2>1 DEF ParallelOK, SerialOK, TypesOK
    <2>3. PICK a, b : a = Front(stack) /\ b = Last(stack)
      OBVIOUS
    <2>4. /\ a \in Seq(Seq(GypFiles)) /\ b \in Seq(GypFiles)
          /\ Stacked(stack) = Stacked(a) \cup ToSet(b)
      BY <2>1, <2>2, <2>3, StackedFacts
    <2>5. PICK f, t : f = Head(b) /\ t = Tail(b)
      OBVIOUS
    <2>6. f \in GypFiles /\ t \in Seq(GypFiles) /\ ToSet(b) = ToSet(t) \cup {f}
      BY <2>1, <2>3, <2>4, <2>5, TailSet
    <2>7. PICK c : c = Append(a, t)
      OBVIOUS
    <2>8. c \in Seq(Seq(GypFiles)) /\ Stacked(c) = Stacked(a) \cup ToSet(t)
      BY <2>4, <2>6, <2>7, StackedFacts
    <2>9. LoadTargetBuildFile(f, c)
      <3>1. LoadTargetBuildFile(Head(Last(stack)), Append(Front(stack), Tail(Last(stack))))
        BY <1>2 DEF LoadDependency
      <3> QED
        BY <2>3, <2>5, <2>7, <3>1 DEF LoadTargetBuildFile
    <2>10. PICK q : q = dependencies
      OBVIOUS
    <2>11. q \in Seq(GypFiles) /\ dependencies' = q
           /\ ToSet(dependencies) \cup Stacked(stack) = ToSet(q) \cup Stacked(c) \cup {f}
      BY <1>0, <2>1, <2>4, <2>6, <2>8, <2>10 DEF TypesOK
    <2> QED
      BY <2>2, <2>6, <2>8, <2>9, <2>11, SerialCall
  <1>3. CASE Return
    <2>1. /\ stack # <<>> /\ Last(stack) = <<>> /\ stack' = Front(stack)
          /\ UNCHANGED <<disk, parallel, main, pending, scheduled, dependencies, error,
                         tasks, running, results, data, auxData, targetBuildFiles>>
      BY <1>3 DEF Return, poolVars, dataVars
    <2>2. ~parallel /\ main = "loop" /\ stack \in Seq(Seq(GypFiles))
      BY <1>0, <2>1 DEF ParallelOK, SerialOK, TypesOK
    <2>3. PICK a, b : a = Front(stack) /\ b = Last(stack)
      OBVIOUS
    <2>4. /\ a \in Seq(Seq(GypFiles)) /\ Stacked(stack) = Stacked(a) \cup ToSet(b)
      BY <2>1, <2>2, <2>3, StackedFacts
    <2>5. Stacked(stack') = Stacked(stack)
      BY <2>1, <2>3, <2>4, ToSetEmpty
    <2>6. Loaded' = Loaded
      BY <2>1 DEF Loaded
    <2>7. DataOK' /\ NamedOK' /\ NamedBy(disk, Loaded)' = NamedBy(disk, Loaded)
      BY <2>1, <2>6, NothingEntered DEF LoadInv, TypesOK
    <2>8. RunningTypeOK' /\ ResultsOK' /\ OnePlace'
      BY <2>1, PoolStays DEF LoadInv
    <2>9. TypesOK'
      BY <1>0, <2>1 DEF TypesOK
    <2>10. ParallelOK'
      BY <2>1, <2>2 DEF ParallelOK
    <2>11. SerialOK'
      BY <1>0, <2>1, <2>2, <2>3, <2>4, <2>5, <2>7 DEF SerialOK
    <2> QED
      BY <2>1, <2>7, <2>8, <2>9, <2>10, <2>11 DEF LoadInv
  <1> QED
    BY <1>1, <1>2, <1>3

-----------------------------------------------------------------------------
\* The invariant holds of every state of the loading.
LEMMA LoadInvariance == Spec => []LoadInv
  <1>1. Init => LoadInv
    BY LoadInvInit
  <1>2. LoadInv /\ [Next]_vars => LoadInv'
    <2> SUFFICES ASSUME LoadInv, [Next]_vars PROVE LoadInv'
      OBVIOUS
    <2>1. CASE UNCHANGED vars
      <3>1. UNCHANGED <<disk, tasks, running, results, targetBuildFiles, parallel, main,
                        pending, scheduled, dependencies, error, data, auxData, stack>>
        BY <2>1 DEF vars, poolVars, dataVars
      <3>2. Loaded' = Loaded /\ Handed' = Handed
        BY <3>1 DEF Loaded, Handed
      <3>3. DataOK' /\ NamedOK' /\ NamedBy(disk, Loaded)' = NamedBy(disk, Loaded)
        BY <3>1, <3>2, NothingEntered DEF LoadInv, TypesOK
      <3>4. RunningTypeOK' /\ ResultsOK' /\ OnePlace' /\ Outstanding' = Outstanding
        BY <3>1, PoolStays DEF LoadInv
      <3>5. TypesOK'
        BY <3>1 DEF LoadInv, TypesOK
      <3>6. \A f : Raises(f)' <=> Raises(f)
        BY <3>1, DiskUnchanged
      <3>7. ParallelOK'
        BY <3>1, <3>2, <3>3, <3>4, <3>6 DEF LoadInv, ParallelOK
      <3>8. SerialOK'
        BY <3>1, <3>3 DEF LoadInv, SerialOK
      <3> QED
        BY <3>1, <3>3, <3>4, <3>5, <3>7, <3>8 DEF LoadInv
    <2>2. CASE Main
      BY <2>2, MainSteps, ScheduleKeepsInv DEF Main
    <2>3. CASE KeyboardInterrupt
      BY <2>3, InterruptKeepsInv
    <2>4. CASE LoadTargetBuildFileCallback
      BY <2>4, CallbackKeepsInv
    <2>5. CASE Serial
      BY <2>5, SerialSteps, MainSteps DEF Serial
    <2>6. ASSUME NEW w \in Workers, Worker(w) PROVE LoadInv'
      BY <2>6, TakeTaskKeepsInv, CallKeepsInv DEF Worker
    <2> QED
      BY <2>1, <2>2, <2>3, <2>4, <2>5, <2>6 DEF Next
  <1> QED
    BY <1>1, <1>2, PTL DEF Spec

\* The counter the main loop of the parallel loading ends by is the number of
\* calls whose result has not been entered, and a file is at one of the places it
\* passes through: it is never loaded twice, by any number of processes.
THEOREM PendingCounts == Spec => []PendingIsOutstanding
  <1>1. LoadInv => PendingIsOutstanding
    <2> SUFFICES ASSUME LoadInv PROVE PendingIsOutstanding
      OBVIOUS
    <2>0. TypesOK /\ DataOK /\ ParallelOK /\ SerialOK
      BY DEF LoadInv
    <2>1. pending \in 0..Cardinality(GypFiles)
      <3>1. Cardinality(Handed) \in 0..Cardinality(GypFiles) /\ 0 \in 0..Cardinality(GypFiles)
        BY <2>0, HandedFinite
      <3> QED
        BY <2>0, <3>1 DEF ParallelOK, SerialOK, TypesOK
    <2>2. DOMAIN data \subseteq Files
      <3>1. \A f \in Loaded : FilesRead(f) \subseteq Files
        BY DEF FilesRead
      <3> QED
        BY <2>0, <3>1 DEF DataOK
    <2>3. TypeOK
      BY <2>0, <2>1, <2>2 DEF TypeOK, TypesOK, DataOK
    <2>4. ASSUME parallel, ~error, main # "interrupted"
          PROVE  /\ pending = Cardinality(Outstanding)
                 /\ Outstanding \cap targetBuildFiles = {}
                 /\ Len(dependencies) = Cardinality(ToSet(dependencies))
                 /\ ToSet(dependencies) \cap (Outstanding \cup targetBuildFiles) = {}
                 /\ scheduled = ToSet(dependencies) \cup Outstanding \cup targetBuildFiles
      <3>1. Outstanding = Handed /\ pending = Cardinality(Handed)
        BY <2>0, <2>4 DEF ParallelOK
      <3>2. Len(dependencies) = Cardinality(ToSet(dependencies))
        <4>1. dependencies \in Seq(GypFiles) /\ Distinct(dependencies)
          BY <2>0, <2>4 DEF TypesOK, ParallelOK
        <4>2. Cardinality(Elements(dependencies)) = Len(dependencies)
          BY <4>1, CountElements DEF Distinct
        <4>3. ToSet(dependencies) = Elements(dependencies)
          BY <4>1, ToSetIs
        <4> QED
          BY <4>2, <4>3
      <3>3. targetBuildFiles \subseteq scheduled /\ ToSet(dependencies) \subseteq scheduled
            /\ ToSet(dependencies) \cap targetBuildFiles = {}
        BY <2>0, <2>4 DEF LoadInv, NamedOK, ParallelOK
      <3> QED
        BY <3>1, <3>2, <3>3 DEF Handed
    <2> QED
      BY <2>3, <2>4 DEF PendingIsOutstanding
  <1> QED
    BY <1>1, LoadInvariance, PTL

\* When nothing is queued and no call is outstanding everything is loaded.
LEMMA AllLoaded ==
    ASSUME LoadInv, dependencies = <<>>,
           parallel => ~error /\ pending = 0,
           ~parallel => main # "failed" /\ stack = <<>>
    PROVE  Loaded = targetBuildFiles /\ NamedBy(disk, Loaded) \subseteq targetBuildFiles
  <1>0. TypesOK /\ ParallelOK /\ SerialOK
    BY DEF LoadInv
  <1>1. ToSet(dependencies) = {}
    BY ToSetEmpty
  <1>2. CASE parallel
    <2>1. /\ targetBuildFiles \subseteq DOMAIN data /\ scheduled = NamedBy(disk, Loaded)
          /\ Cardinality(Handed) = 0
      BY <1>0, <1>2 DEF ParallelOK
    <2>2. Handed = {}
      BY <1>0, <2>1, HandedFinite, FS_EmptySet
    <2> QED
      BY <1>1, <2>1, <2>2 DEF Handed, Loaded
  <1>3. CASE ~parallel
    <2>1. /\ targetBuildFiles \subseteq DOMAIN data
          /\ NamedBy(disk, Loaded) \subseteq
                targetBuildFiles \cup ToSet(dependencies) \cup Stacked(stack)
      BY <1>0, <1>3 DEF SerialOK
    <2>2. Stacked(stack) = {}
      BY <1>3, StackedEmpty
    <2> QED
      BY <1>1, <2>1, <2>2 DEF Loaded
  <1> QED
    BY <1>2, <1>3

\* Loading that ends well has loaded exactly the files that are reachable, each
\* evaluated with its own DEPTH and its includes merged in order, in parallel with
\* any number of processes as well as serially.
THEOREM LoadsReachable == Spec => []LoadedIsReachable
  <1>1. LoadInv => LoadedIsReachable
    <2> SUFFICES ASSUME LoadInv, main = "done" PROVE LoadedIsReachable
      BY DEF LoadedIsReachable
    <2>0. TypesOK /\ DataOK /\ NamedOK /\ ParallelOK /\ SerialOK
      BY DEF LoadInv
    <2>1. Loaded = targetBuildFiles /\ NamedBy(disk, Loaded) \subseteq targetBuildFiles
      BY <2>0, AllLoaded DEF ParallelOK, SerialOK
    <2>2. targetBuildFiles = Reachable
      <3>1. targetBuildFiles \in SUBSET GypFiles /\ disk \in Disks
        BY <2>0 DEF TypesOK
      <3>2. Reachable \subseteq targetBuildFiles
        BY <2>1, <3>1, ReachableFacts
      <3> QED
        BY <2>0, <3>2 DEF NamedOK
    <2>3. DOMAIN data = UNION {FilesRead(f) : f \in Reachable}
      BY <2>0, <2>1, <2>2 DEF DataOK
    <2>4. \A f \in Reachable :
             /\ data[f] = [parts |-> LoadBuildFileIncludesIntoDict[f], depth |-> f,
                           included |-> GetIncludedBuildFiles(f)]
             /\ ~Raises(f)
      BY <2>0, <2>1, <2>2 DEF DataOK, Entry
    <2> QED
      BY <2>2, <2>3, <2>4 DEF LoadedIsReachable
  <1> QED
    BY <1>1, LoadInvariance, PTL

-----------------------------------------------------------------------------
(***************************************************************************)
(* Both ways of loading implement the abstract set of build files.         *)
(***************************************************************************)
\* The abstract state; its set of wanted files in the terms of the invariant.
Needs == [f \in GypFiles |-> ToSet(disk[f].deps)]
Unreadable == {f \in GypFiles : Raises(f)}
Status == IF main = "done" THEN "done" ELSE IF main = "failed" THEN "failed" ELSE "loading"

LEMMA WantedIs ==
    ASSUME TypesOK
    PROVE  Set!Wanted = NamedBy(disk, Loaded) \ Loaded
  <1>1. Loaded \subseteq GypFiles
    BY DEF Loaded, TypesOK
  <1>2. \A f \in Loaded : Needs[f] = ToSet(disk[f].deps)
    BY <1>1 DEF Needs
  <1>3. Set!Wanted = (BuildFiles \cup UNION {Needs[f] : f \in Loaded}) \ Loaded
    BY DEF Set!Wanted, Needs, Loaded
  <1> QED
    BY <1>2, <1>3 DEF NamedBy

LEMMA AbstractStays ==
    ASSUME disk' = disk
    PROVE  Needs' = Needs /\ Unreadable' = Unreadable
  <1>1. \A f : Raises(f)' <=> Raises(f)
    BY DiskUnchanged
  <1>2. Unreadable' = Unreadable
    BY <1>1 DEF Unreadable
  <1>3. Needs' = Needs
    BY DEF Needs
  <1> QED
    BY <1>2, <1>3

\* A step that loads nothing and does not end the loading is not seen.
LEMMA Unseen ==
    ASSUME disk' = disk, Loaded' = Loaded, Status' = Status
    PROVE  UNCHANGED Set!setVars
  BY AbstractStays DEF Set!setVars, Needs, Unreadable, Loaded, Status

\* The three steps of the abstract specification.
LEMMA SeenLoad ==
    ASSUME TypesOK, disk' = disk, NEW f \in NamedBy(disk, Loaded), f \notin Loaded,
           Loaded' = Loaded \cup {f}, Status = "loading", Status' = Status
    PROVE  Set!SetNext
  <1>1. f \in Set!Wanted
    BY WantedIs
  <1>2. Set!LoadFile(f)
    BY <1>1, AbstractStays DEF Set!LoadFile, Needs, Unreadable, Loaded, Status
  <1> QED
    BY <1>1, <1>2 DEF Set!SetNext

LEMMA SeenComplete ==
    ASSUME TypesOK, disk' = disk, NamedBy(disk, Loaded) \subseteq Loaded,
           Loaded' = Loaded, Status = "loading", Status' = "done"
    PROVE  Set!SetNext
  <1>1. Set!Wanted = {}
    BY WantedIs
  <1>2. Set!Complete
    BY <1>1, AbstractStays DEF Set!Complete, Needs, Unreadable, Loaded, Status
  <1> QED
    BY <1>2 DEF Set!SetNext

LEMMA SeenFail ==
    ASSUME TypesOK, disk' = disk, NEW f \in NamedBy(disk, Loaded), f \in GypFiles, Raises(f),
           Loaded' = Loaded, Status = "loading", Status' = "failed"
    PROVE  Set!SetNext
  <1>1. f \in Loaded \cup Set!Wanted
    BY WantedIs
  <1>2. f \in Unreadable
    BY DEF Unreadable
  <1>3. (Loaded \cup Set!Wanted) \cap Unreadable # {}
    BY <1>1, <1>2
  <1>4. Set!Fail
    BY <1>3, AbstractStays DEF Set!Fail, Needs, Unreadable, Loaded, Status
  <1> QED
    BY <1>4 DEF Set!SetNext

\* A call of LoadTargetBuildFile loads the file, fails or is not seen.
LEMMA SerialCallSeen ==
    ASSUME LoadInv, LoadInv', ~parallel, main = "loop",
           NEW f, f \in NamedBy(disk, Loaded), NEW c, LoadTargetBuildFile(f, c)
    PROVE  Set!SetNext \/ UNCHANGED Set!setVars
  <1>0. /\ TypesOK /\ SerialOK /\ DataOK' /\ SerialOK' /\ disk' = disk /\ parallel' = parallel
    BY DEF LoadInv, LoadTargetBuildFile
  <1>1. Loaded = targetBuildFiles /\ Status = "loading"
    BY <1>0 DEF Loaded, SerialOK, Status
  <1>2. f \in GypFiles
    <2>1. disk \in Disks /\ Loaded \in SUBSET GypFiles
      BY <1>0, <1>1 DEF TypesOK
    <2> QED
      BY <2>1, NamedFacts
  <1>3. CASE f \in targetBuildFiles
    <2>1. UNCHANGED <<main, data, targetBuildFiles>>
      BY <1>3 DEF LoadTargetBuildFile, dataVars
    <2>2. Loaded' = Loaded /\ Status' = Status
      BY <2>1 DEF Loaded, Status
    <2> QED
      BY <1>0, <2>2, Unseen
  <1>4. CASE f \notin targetBuildFiles /\ Raises(f)
    <2>1. targetBuildFiles' = targetBuildFiles \cup {f} /\ data' = data /\ main' = "failed"
      BY <1>4 DEF LoadTargetBuildFile
    <2>2. f \notin Loaded'
      <3>1. Raises(f)'
        BY <1>0, <1>4, DiskUnchanged
      <3> QED
        BY <1>0, <3>1 DEF DataOK
    <2>3. Loaded' = Loaded /\ Status' = "failed"
      BY <2>1, <2>2 DEF Loaded, Status
    <2> QED
      BY <1>0, <1>1, <1>2, <1>4, <2>3, SeenFail
  <1>5. CASE f \notin targetBuildFiles /\ ~Raises(f)
    <2>1. targetBuildFiles' = targetBuildFiles \cup {f} /\ main' = main
      BY <1>5 DEF LoadTargetBuildFile
    <2>2. targetBuildFiles' \subseteq DOMAIN data'
      BY <1>0, <2>1 DEF SerialOK
    <2>3. Loaded' = Loaded \cup {f}
      BY <1>1, <2>1, <2>2 DEF Loaded
    <2>4. Status' = Status
      BY <2>1 DEF Status
    <2> QED
      BY <1>0, <1>1, <1>5, <2>3, <2>4, SeenLoad
  <1> QED
    BY <1>3, <1>4, <1>5

\* Loading build files, in parallel or serially, loads one file after the other
\* because it was named, ends well only when every file that was named is loaded,
\* and fails only because a file that it has to read cannot be read: every step is
\* a step of BuildFileSet or leaves its state unchanged.
THEOREM ImplementsSet == Spec => ImplementsBuildFileSet
  <1>1. Init => Set!SetInit
    <2> SUFFICES ASSUME Init PROVE Set!SetInit
      OBVIOUS
    <2>1. TypesOK
      BY LoadInvInit DEF LoadInv
    <2>2. \A f \in GypFiles : ToSet(disk[f].deps) \subseteq GypFiles
      BY <2>1, DiskFacts, ToSetIs DEF TypesOK, Dependencies
    <2>3. Needs \in [GypFiles -> SUBSET GypFiles] /\ Unreadable \in SUBSET GypFiles
      BY <2>2 DEF Needs, Unreadable
    <2>4. Loaded = {} /\ Status = "loading"
      BY DEF Init, Loaded, Status
    <2> QED
      BY <2>3, <2>4 DEF Set!SetInit, Needs, Unreadable, Loaded, Status
  <1>2. LoadInv /\ LoadInv' /\ [Next]_vars => [Set!SetNext]_(Set!setVars)
    <2> SUFFICES ASSUME LoadInv, LoadInv', [Next]_vars
                 PROVE  Set!SetNext \/ UNCHANGED Set!setVars
      OBVIOUS
    <2>0. TypesOK /\ ParallelOK /\ SerialOK
      BY DEF LoadInv
    <2>1. CASE UNCHANGED vars
      <3>1. disk' = disk /\ Loaded' = Loaded /\ Status' = Status
        BY <2>1 DEF vars, dataVars, Loaded, Status
      <3> QED
        BY <3>1, Unseen
    <2>2. CASE Schedule \/ Wait \/ Wake \/ Leave \/ KeyboardInterrupt
      <3>1. disk' = disk /\ Loaded' = Loaded
        BY <2>2 DEF Schedule, Wait, Wake, Leave, KeyboardInterrupt, dataVars, Loaded
      <3>2. Status' = Status
        BY <2>2 DEF Schedule, Wait, Wake, Leave, KeyboardInterrupt, Status
      <3> QED
        BY <3>1, <3>2, Unseen
    <2>3. CASE Join
      <3>1. disk' = disk /\ Loaded' = Loaded /\ Status = "loading"
        BY <2>3 DEF Join, dataVars, Loaded, Status
      <3>2. parallel /\ main = "joining" /\ main' = IF error THEN "failed" ELSE "done"
        BY <2>0, <2>3 DEF Join, SerialOK
      <3>3. CASE error
        <4>1. PICK f \in Handed : Raises(f)
          BY <2>0, <3>2, <3>3 DEF ParallelOK
        <4>2. f \in NamedBy(disk, Loaded) /\ f \in GypFiles
          BY <2>0, <3>2 DEF ParallelOK, Handed, TypesOK
        <4>3. Status' = "failed"
          BY <3>2, <3>3 DEF Status
        <4> QED
          BY <2>0, <3>1, <4>1, <4>2, <4>3, SeenFail
      <3>4. CASE ~error
        <4>1. dependencies = <<>> /\ pending = 0
          BY <2>0, <3>2, <3>4 DEF ParallelOK
        <4>2. NamedBy(disk, Loaded) \subseteq Loaded
          BY <3>2, <3>4, <4>1, AllLoaded
        <4>3. Status' = "done"
          BY <3>2, <3>4 DEF Status
        <4> QED
          BY <2>0, <3>1, <4>2, <4>3, SeenComplete
      <3> QED
        BY <3>3, <3>4
    <2>4. CASE LoadTargetBuildFileCallback
      <3>1. PICK r \in results :
              IF r.ok THEN targetBuildFiles' = targetBuildFiles \cup {r.file}
              ELSE UNCHANGED dataVars
        BY <2>4 DEF LoadTargetBuildFileCallback
      <3>2. parallel /\ parallel' /\ disk' = disk
        BY <2>0, <2>4, <3>1 DEF LoadTargetBuildFileCallback, SerialOK, TypesOK
      <3>3. Status = "loading" /\ Status' = Status
        BY <2>4 DEF LoadTargetBuildFileCallback, Notify, Status
      <3>4. CASE r.ok
        <4>1. PICK f : f = r.file
          OBVIOUS
        <4>2. f \in Handed
          BY <2>0, <3>1, <3>2, <4>1, OutstandingIs DEF InPool, ParallelOK
        <4>3. f \in NamedBy(disk, Loaded) /\ f \notin Loaded
          BY <2>0, <3>2, <4>2 DEF Handed, ParallelOK, Loaded
        <4>4. targetBuildFiles \subseteq DOMAIN data /\ targetBuildFiles' \subseteq DOMAIN data'
          BY <3>2 DEF LoadInv, ParallelOK
        <4>5. Loaded' = Loaded \cup {f}
          BY <3>1, <3>4, <4>1, <4>4 DEF Loaded
        <4> QED
          BY <2>0, <3>2, <3>3, <4>3, <4>5, SeenLoad
      <3>5. CASE ~r.ok
        <4>1. Loaded' = Loaded
          BY <3>1, <3>5 DEF dataVars, Loaded
        <4> QED
          BY <3>2, <3>3, <4>1, Unseen
      <3> QED
        BY <3>4, <3>5
    <2>5. CASE LoadNextBuildFile
      <3>1. ~parallel /\ main = "loop"
        BY <2>5 DEF LoadNextBuildFile
      <3>2. PICK i \in DOMAIN dependencies : LoadTargetBuildFile(dependencies[i], stack)
        BY <2>5 DEF LoadNextBuildFile
      <3>3. PICK f, c : f = dependencies[i] /\ c = stack
        OBVIOUS
      <3>4. f \in ToSet(dependencies)
        BY <2>0, <3>3, RemoveAtSet DEF TypesOK
      <3>5. f \in NamedBy(disk, Loaded)
        BY <2>0, <3>1, <3>4 DEF SerialOK
      <3>6. LoadTargetBuildFile(f, c)
        BY <3>2, <3>3 DEF LoadTargetBuildFile
      <3> QED
        BY <3>1, <3>5, <3>6, SerialCallSeen
    <2>6. CASE LoadDependency
      <3>1. /\ stack # <<>> /\ Last(stack) # <<>>
            /\ LoadTargetBuildFile(Head(Last(stack)), Append(Front(stack), Tail(Last(stack))))
        BY <2>6 DEF LoadDependency
      <3>2. ~parallel /\ main = "loop" /\ stack \in Seq(Seq(GypFiles))
        BY <2>0, <3>1 DEF ParallelOK, SerialOK, TypesOK
      <3>3. PICK b : b = Last(stack)
        OBVIOUS
      <3>4. b \in Seq(GypFiles) /\ ToSet(b) \subseteq Stacked(stack)
        BY <3>1, <3>2, <3>3, StackedFacts
      <3>5. PICK f, c : f = Head(b) /\ c = Append(Front(stack), Tail(Last(stack)))
        OBVIOUS
      <3>6. f \in ToSet(b)
        BY <3>1, <3>3, <3>4, <3>5, TailSet
      <3>7. f \in NamedBy(disk, Loaded)
        BY <2>0, <3>2, <3>4, <3>6 DEF SerialOK
      <3>8. LoadTargetBuildFile(f, c)
        BY <3>1, <3>3, <3>5 DEF LoadTargetBuildFile
      <3> QED
        BY <3>2, <3>7, <3>8, SerialCallSeen
    <2>7. CASE Return
      <3>1. disk' = disk /\ Loaded' = Loaded /\ Status' = Status
        BY <2>7 DEF Return, dataVars, Loaded, Status
      <3> QED
        BY <3>1, Unseen
    <2>8. CASE LeaveSerial
      <3>1. disk' = disk /\ Loaded' = Loaded /\ Status = "loading" /\ Status' = "done"
        BY <2>8 DEF LeaveSerial, dataVars, Loaded, Status
      <3>2. NamedBy(disk, Loaded) \subseteq Loaded
        BY <2>8, AllLoaded DEF LeaveSerial
      <3> QED
        BY <2>0, <3>1, <3>2, SeenComplete
    <2>9. ASSUME NEW w \in Workers, Worker(w)
          PROVE  Set!SetNext \/ UNCHANGED Set!setVars
      <3>1. disk' = disk /\ Loaded' = Loaded /\ Status' = Status
        BY <2>9 DEF Worker, TakeTask, CallLoadTargetBuildFile, dataVars, Loaded, Status
      <3> QED
        BY <3>1, Unseen
    <2> QED
      BY <2>1, <2>2, <2>3, <2>4, <2>5, <2>6, <2>7, <2>8, <2>9 DEF Next, Main, Serial
  <1> QED
    BY <1>1, <1>2, LoadInvariance, PTL DEF Spec, ImplementsBuildFileSet, Set!SetSpec
=============================================================================
