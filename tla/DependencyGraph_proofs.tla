----------------------- MODULE DependencyGraph_proofs -----------------------
(***************************************************************************)
(* FlattenToList of gyp's DependencyGraphNode, for every finite graph and  *)
(* whichever element a pop returns, and what Load does with the graph: it  *)
(* begins with one, begins again with another one, takes turns of the      *)
(* loop, and, once the loop has ended, takes off the list what nothing     *)
(* that stays depends on.                                                  *)
(***************************************************************************)
EXTENDS DependencyGraph, QueueFacts

\* The node of a dependency exists, and there are finitely many nodes.
IsGraph(g) == IsFiniteSet(DOMAIN g) /\ \A n \in DOMAIN g : g[n] \subseteq DOMAIN g

FlattenInit ==
    /\ IsGraph(nodes)
    /\ in_degree_zeros = {n \in DOMAIN nodes : nodes[n] = {}}
    /\ flat_list = <<>>

FlattenNext == PopZero \/ \E g : IsGraph(g) /\ StartFlatten(g)

FlattenSpec == FlattenInit /\ [][FlattenNext]_graphVars

\* What is wanted is wanted with its dependencies.
PruneUnwanted ==
    /\ in_degree_zeros = {}
    /\ \E wanted :
          /\ \A n \in ToSet(flat_list) \cap wanted : nodes[n] \subseteq wanted
          /\ PruneList(wanted)

ListSpec == FlattenInit /\ [][FlattenNext \/ PruneUnwanted]_graphVars

-----------------------------------------------------------------------------
(***************************************************************************)
(* The inductive invariant: what waits in in_degree_zeros may be listed,   *)
(* and, until the list is pruned, everything that may be listed is listed  *)
(* or waits.                                                               *)
(***************************************************************************)
Ready == \A n \in in_degree_zeros : nodes[n] \subseteq ToSet(flat_list)

NothingForgotten ==
    \A m \in DOMAIN nodes : nodes[m] \subseteq ToSet(flat_list) =>
        m \in ToSet(flat_list) \/ m \in in_degree_zeros

ListInv ==
    /\ IsGraph(nodes)
    /\ in_degree_zeros \subseteq DOMAIN nodes
    /\ flat_list \in Seq(DOMAIN nodes)
    /\ Ready
    /\ DependenciesComeFirst

GraphInv == ListInv /\ NothingForgotten

LEMMA ToSetOfSeq ==
    ASSUME NEW S, NEW q \in Seq(S)
    PROVE  /\ ToSet(q) = Elements(q) /\ ToSet(q) \subseteq S
           /\ ToSet(q) = {q[i] : i \in 1..Len(q)}
  <1>1. DOMAIN q = 1..Len(q) /\ \A i \in 1..Len(q) : q[i] \in S
    OBVIOUS
  <1> QED
    BY <1>1 DEF ToSet, Elements

LEMMA ToSetOfEmpty == ToSet(<<>>) = {}
  BY DEF ToSet

\* A graph that is begun with.
LEMMA StartInv ==
    ASSUME NEW g, NEW zeros, IsGraph(g), zeros = {n \in DOMAIN g : g[n] = {}}
    PROVE  /\ zeros \subseteq DOMAIN g
           /\ << >> \in Seq(DOMAIN g)
           /\ \A n \in zeros : g[n] \subseteq ToSet(<<>>)
           /\ \A m \in DOMAIN g : g[m] \subseteq ToSet(<<>>) => m \in zeros
  BY ToSetOfEmpty

LEMMA PopZeroInv ==
    ASSUME ListInv, PopZero
    PROVE  ListInv' /\ (NothingForgotten => NothingForgotten')
  <1>1. PICK node \in in_degree_zeros :
          /\ flat_list' = IF node \in ToSet(flat_list) THEN flat_list
                          ELSE Append(flat_list, node)
          /\ in_degree_zeros' =
                 (in_degree_zeros \ {node}) \cup
                     {m \in Dependents(nodes, node) :
                         nodes[m] \subseteq ToSet(flat_list) \cup {node}}
          /\ nodes' = nodes
    BY DEF PopZero
  <1>2. /\ node \in DOMAIN nodes /\ nodes[node] \subseteq ToSet(flat_list)
        /\ flat_list \in Seq(DOMAIN nodes) /\ Len(flat_list) \in Nat
        /\ ToSet(flat_list) = {flat_list[i] : i \in 1..Len(flat_list)}
        /\ ToSet(flat_list) \subseteq DOMAIN nodes
    <2>1. flat_list \in Seq(DOMAIN nodes)
      BY DEF ListInv
    <2> QED
      BY <2>1, ToSetOfSeq DEF ListInv, Ready
  <1>3. /\ flat_list' \in Seq(DOMAIN nodes)
        /\ ToSet(flat_list)' = ToSet(flat_list) \cup {node}
        /\ DependenciesComeFirst'
    <2>1. CASE node \in ToSet(flat_list)
      <3>1. flat_list' = flat_list
        BY <1>1, <2>1
      <3> QED
        BY <1>1, <1>2, <2>1, <3>1 DEF ListInv, DependenciesComeFirst, ToSet
    <2>2. CASE node \notin ToSet(flat_list)
      <3>1. /\ flat_list' \in Seq(DOMAIN nodes)
            /\ Len(flat_list') = Len(flat_list) + 1
            /\ \A i \in 1..Len(flat_list) : flat_list'[i] = flat_list[i]
            /\ flat_list'[Len(flat_list) + 1] = node
        BY <1>1, <1>2, <2>2, AppendFacts
      <3>2. /\ \A i \in 1..Len(flat_list') : i \in 1..Len(flat_list) \/ i = Len(flat_list) + 1
            /\ 1..Len(flat_list) \subseteq 1..Len(flat_list')
            /\ Len(flat_list) + 1 \in 1..Len(flat_list')
            /\ 1..((Len(flat_list) + 1) - 1) = 1..Len(flat_list)
            /\ \A i \in 1..Len(flat_list) : 1..(i - 1) \subseteq 1..Len(flat_list)
        BY <1>2, <3>1
      <3>3. ToSet(flat_list)' = {flat_list'[i] : i \in 1..Len(flat_list')}
        BY <3>1, ToSetOfSeq
      <3>4. ToSet(flat_list)' = ToSet(flat_list) \cup {node}
        <4>1. \A i \in 1..Len(flat_list') : flat_list'[i] \in ToSet(flat_list) \cup {node}
          BY <1>2, <3>1, <3>2
        <4>2. node \in ToSet(flat_list)'
          BY <3>1, <3>2, <3>3
        <4>3. \A i \in 1..Len(flat_list) : flat_list[i] \in ToSet(flat_list)'
          <5> SUFFICES ASSUME NEW i \in 1..Len(flat_list)
                       PROVE  flat_list[i] \in ToSet(flat_list)'
            OBVIOUS
          <5>1. i \in 1..Len(flat_list') /\ flat_list'[i] = flat_list[i]
            BY <3>1, <3>2
          <5> QED
            BY <3>3, <5>1
        <4>4. ToSet(flat_list)' \subseteq ToSet(flat_list) \cup {node}
          BY <3>3, <4>1
        <4>5. ToSet(flat_list) \subseteq ToSet(flat_list)'
          BY <1>2, <4>3
        <4> QED
          BY <4>2, <4>4, <4>5
      <3>5. ASSUME NEW i \in 1..Len(flat_list')
            PROVE  nodes[flat_list'[i]] \subseteq {flat_list'[j] : j \in 1..(i - 1)}
        <4>1. CASE i \in 1..Len(flat_list)
          <5>1. nodes[flat_list[i]] \subseteq {flat_list[j] : j \in 1..(i - 1)}
            BY <4>1 DEF ListInv, DependenciesComeFirst
          <5>2. \A j \in 1..(i - 1) : flat_list'[j] = flat_list[j]
            BY <3>1, <3>2, <4>1
          <5>3. flat_list'[i] = flat_list[i]
            BY <3>1, <4>1
          <5> QED
            BY <5>1, <5>2, <5>3
        <4>2. CASE i = Len(flat_list) + 1
          <5>1. flat_list'[i] = node /\ i - 1 = Len(flat_list)
            BY <1>2, <3>1, <4>2
          <5>2. nodes[node] \subseteq {flat_list[j] : j \in 1..Len(flat_list)}
            BY <1>2
          <5>3. \A j \in 1..(i - 1) : flat_list'[j] = flat_list[j]
            BY <3>1, <5>1
          <5> QED
            BY <5>1, <5>2, <5>3
        <4> QED
          BY <3>2, <4>1, <4>2
      <3>6. \A i, j \in 1..Len(flat_list') : flat_list'[i] = flat_list'[j] => i = j
        <4>1. \A i \in 1..Len(flat_list) : flat_list[i] # node
          BY <1>2, <2>2
        <4> QED
          BY <3>1, <3>2, <4>1 DEF ListInv, DependenciesComeFirst
      <3>7. DependenciesComeFirst'
        BY <1>1, <3>5, <3>6 DEF DependenciesComeFirst
      <3> QED
        BY <3>1, <3>4, <3>7
    <2> QED
      BY <2>1, <2>2
  <1>4. in_degree_zeros' \subseteq DOMAIN nodes
    BY <1>1 DEF ListInv, Dependents
  <1>5. Ready'
    <2> SUFFICES ASSUME NEW n \in in_degree_zeros'
                 PROVE  nodes[n] \subseteq ToSet(flat_list) \cup {node}
      BY <1>1, <1>3 DEF Ready
    <2> QED
      BY <1>1 DEF ListInv, Ready
  <1>6. ASSUME NothingForgotten PROVE NothingForgotten'
    <2> SUFFICES ASSUME NEW m \in DOMAIN nodes,
                        nodes[m] \subseteq ToSet(flat_list) \cup {node}
                 PROVE  m \in ToSet(flat_list) \cup {node} \/ m \in in_degree_zeros'
      BY <1>1, <1>3 DEF NothingForgotten
    <2>1. CASE node \in nodes[m]
      BY <1>1, <2>1 DEF Dependents
    <2>2. CASE node \notin nodes[m]
      <3>1. nodes[m] \subseteq ToSet(flat_list)
        BY <2>2
      <3>2. m \in ToSet(flat_list) \/ m \in in_degree_zeros
        BY <1>6, <3>1 DEF NothingForgotten
      <3> QED
        BY <1>1, <3>2
    <2> QED
      BY <2>1, <2>2
  <1> QED
    BY <1>1, <1>3, <1>4, <1>5, <1>6 DEF ListInv

LEMMA PruneInv ==
    ASSUME ListInv, PruneUnwanted
    PROVE  ListInv'
  <1>1. in_degree_zeros = {} /\ UNCHANGED <<nodes, in_degree_zeros>>
    BY DEF PruneUnwanted, PruneList
  <1>2. PICK wanted : /\ \A n \in ToSet(flat_list) \cap wanted : nodes[n] \subseteq wanted
                      /\ flat_list' = Select(flat_list, wanted)
    BY DEF PruneUnwanted, PruneList
  <1>3. PICK l, r, n : l = flat_list /\ r = Select(flat_list, wanted) /\ n = Len(flat_list)
    OBVIOUS
  <1>4. /\ l \in Seq(DOMAIN nodes) /\ n \in Nat /\ n = Len(l)
        /\ \A i \in 1..n : nodes[l[i]] \subseteq {l[j] : j \in 1..(i - 1)}
        /\ \A i, j \in 1..n : l[i] = l[j] => i = j
    BY <1>3 DEF ListInv, DependenciesComeFirst
  <1>5. r \in Seq(DOMAIN nodes) /\ Selected(l, wanted, n, r)
    BY <1>3, <1>4, SelectFacts
  <1>6. /\ \A k \in 1..Len(r) : \E i \in 1..n : r[k] = l[i] /\ l[i] \in wanted
        /\ \A i \in 1..n : l[i] \in wanted => \E k \in 1..Len(r) : r[k] = l[i]
        /\ \A k, m \in 1..Len(r) : r[k] = r[m] => k = m
        /\ \A k, m \in 1..Len(r) : \A i, j \in 1..n :
              r[k] = l[i] /\ r[m] = l[j] /\ i < j => k < m
    BY <1>4, <1>5 DEF Selected
  <1>7. ASSUME NEW k \in 1..Len(r), NEW d \in nodes[r[k]]
        PROVE  \E m \in 1..(k - 1) : r[m] = d
    <2>1. PICK i \in 1..n : r[k] = l[i] /\ l[i] \in wanted
      BY <1>6
    <2>2. PICK j \in 1..(i - 1) : l[j] = d
      BY <1>4, <2>1
    <2>3. j \in 1..n /\ j < i
      BY <1>4, <2>2
    <2>4. l[i] \in ToSet(flat_list)
      BY <1>3, <1>4, ToSetOfSeq
    <2>5. l[j] \in wanted
      BY <1>2, <2>1, <2>2, <2>4
    <2>6. PICK m \in 1..Len(r) : r[m] = l[j]
      BY <1>6, <2>3, <2>5
    <2>7. m < k
      BY <1>6, <2>1, <2>3, <2>6
    <2>8. m \in 1..(k - 1)
      BY <1>5, <2>7
    <2> QED
      BY <2>2, <2>6, <2>8
  <1>8. DependenciesComeFirst'
    <2>1. flat_list' = r /\ nodes' = nodes
      BY <1>1, <1>2, <1>3
    <2>2. \A k \in 1..Len(flat_list') :
              nodes'[flat_list'[k]] \subseteq {flat_list'[m] : m \in 1..(k - 1)}
      <3> SUFFICES ASSUME NEW k \in 1..Len(r), NEW d \in nodes[r[k]]
                   PROVE  \E m \in 1..(k - 1) : flat_list'[m] = d
        BY <2>1
      <3> QED
        BY <1>7, <2>1
    <2>3. \A k, m \in 1..Len(flat_list') : flat_list'[k] = flat_list'[m] => k = m
      BY <1>6, <2>1
    <2> QED
      BY <2>2, <2>3 DEF DependenciesComeFirst
  <1>9. Ready'
    BY <1>1 DEF Ready
  <1> QED
    BY <1>1, <1>2, <1>3, <1>5, <1>8, <1>9 DEF ListInv

\* A graph that is begun with has an empty list.
LEMMA StartsWell ==
    /\ FlattenInit => GraphInv
    /\ \A g : IsGraph(g) /\ StartFlatten(g) => GraphInv'
  <1>1. ASSUME FlattenInit PROVE GraphInv
    <2>1. /\ in_degree_zeros \subseteq DOMAIN nodes
          /\ flat_list \in Seq(DOMAIN nodes)
          /\ Ready /\ NothingForgotten
      BY <1>1, StartInv DEF FlattenInit, Ready, NothingForgotten
    <2>2. DependenciesComeFirst
      BY <1>1 DEF FlattenInit, DependenciesComeFirst
    <2> QED
      BY <1>1, <2>1, <2>2 DEF GraphInv, ListInv, FlattenInit
  <1>2. ASSUME NEW g, IsGraph(g), StartFlatten(g) PROVE GraphInv'
    <2>1. /\ nodes' = g /\ in_degree_zeros' = {n \in DOMAIN g : g[n] = {}}
          /\ flat_list' = <<>>
      BY <1>2 DEF StartFlatten
    <2>2. /\ in_degree_zeros' \subseteq DOMAIN nodes'
          /\ flat_list' \in Seq(DOMAIN nodes')
          /\ Ready' /\ NothingForgotten'
      BY <1>2, <2>1, StartInv DEF Ready, NothingForgotten
    <2>3. DependenciesComeFirst'
      BY <2>1 DEF DependenciesComeFirst
    <2> QED
      BY <1>2, <2>1, <2>2, <2>3 DEF GraphInv, ListInv
  <1> QED
    BY <1>1, <1>2

LEMMA FlattenInvariant == FlattenSpec => []GraphInv
  <1>1. FlattenInit => GraphInv
    BY StartsWell
  <1>2. ASSUME GraphInv, [FlattenNext]_graphVars PROVE GraphInv'
    <2>1. CASE PopZero
      BY <1>2, <2>1, PopZeroInv DEF GraphInv
    <2>2. ASSUME NEW g, IsGraph(g), StartFlatten(g) PROVE GraphInv'
      BY <2>2, StartsWell
    <2>3. CASE UNCHANGED graphVars
      BY <1>2, <2>3 DEF graphVars, GraphInv, ListInv, Ready, NothingForgotten,
                        DependenciesComeFirst
    <2> QED
      BY <1>2, <2>1, <2>2, <2>3 DEF FlattenNext
  <1> QED
    BY <1>1, <1>2, PTL DEF FlattenSpec

LEMMA ListInvariant == ListSpec => []ListInv
  <1>1. FlattenInit => ListInv
    BY StartsWell DEF GraphInv
  <1>2. ASSUME ListInv, [FlattenNext \/ PruneUnwanted]_graphVars PROVE ListInv'
    <2>1. CASE PopZero
      BY <1>2, <2>1, PopZeroInv
    <2>2. ASSUME NEW g, IsGraph(g), StartFlatten(g) PROVE ListInv'
      BY <2>2, StartsWell DEF GraphInv
    <2>3. CASE PruneUnwanted
      BY <1>2, <2>3, PruneInv
    <2>4. CASE UNCHANGED graphVars
      BY <1>2, <2>4 DEF graphVars, ListInv, Ready, DependenciesComeFirst
    <2> QED
      BY <1>2, <2>1, <2>2, <2>3, <2>4 DEF FlattenNext
  <1> QED
    BY <1>1, <1>2, PTL DEF ListSpec

\* "Every target must appear in the list after all of its dependencies", as
\* FlattenToList says, and no target twice; pruning keeps it so.
THEOREM ListsDependenciesFirst == ListSpec => []DependenciesComeFirst
  <1>1. ListInv => DependenciesComeFirst
    BY DEF ListInv
  <1> QED
    BY <1>1, ListInvariant, PTL

\* When nothing waits any more the list is short exactly when a node is not on it.
LEMMA ShortListLeavesOut ==
    ASSUME GraphInv, in_degree_zeros = {}
    PROVE  Circular <=> ToSet(flat_list) # DOMAIN nodes
  <1>1. /\ flat_list \in Seq(DOMAIN nodes) /\ Len(flat_list) \in Nat
        /\ ToSet(flat_list) \subseteq DOMAIN nodes
    <2>1. flat_list \in Seq(DOMAIN nodes)
      BY DEF GraphInv, ListInv
    <2> QED
      BY <2>1, ToSetOfSeq
  <1>2. /\ IsFiniteSet(DOMAIN nodes)
        /\ \A i, j \in 1..Len(flat_list) : flat_list[i] = flat_list[j] => i = j
    BY DEF GraphInv, ListInv, IsGraph, DependenciesComeFirst
  <1>3. Len(flat_list) = Cardinality(DOMAIN nodes) <=> ToSet(flat_list) = DOMAIN nodes
    BY <1>1, <1>2, ShortLists, ToSetOfSeq
  <1> QED
    BY <1>3 DEF Circular

LEMMA ShortListHasCycle ==
    ASSUME GraphInv
    PROVE  ShortMeansCycle
  <1>1. ASSUME in_degree_zeros = {}
        PROVE  /\ Circular <=> \E S \in SUBSET DOMAIN nodes : CycleIn(nodes, S)
               /\ Circular => CycleIn(nodes, DOMAIN nodes \ ToSet(flat_list))
    <2> DEFINE left == DOMAIN nodes \ ToSet(flat_list)
    <2>1. /\ flat_list \in Seq(DOMAIN nodes) /\ Len(flat_list) \in Nat
          /\ ToSet(flat_list) = {flat_list[i] : i \in 1..Len(flat_list)}
          /\ ToSet(flat_list) \subseteq DOMAIN nodes
      <3>1. flat_list \in Seq(DOMAIN nodes)
        BY DEF GraphInv, ListInv
      <3> QED
        BY <3>1, ToSetOfSeq
    <2>2. Circular <=> ToSet(flat_list) # DOMAIN nodes
      BY <1>1, ShortListLeavesOut
    <2>3. ASSUME ToSet(flat_list) # DOMAIN nodes PROVE CycleIn(nodes, left)
      <3>1. left # {}
        BY <2>1, <2>3
      <3>2. ASSUME NEW n \in left PROVE nodes[n] \cap left # {}
        <4>1. n \in DOMAIN nodes /\ n \notin ToSet(flat_list)
          OBVIOUS
        <4>2. ~(nodes[n] \subseteq ToSet(flat_list))
          BY <1>1, <4>1 DEF GraphInv, ListInv, NothingForgotten
        <4>3. nodes[n] \subseteq DOMAIN nodes
          BY <4>1 DEF GraphInv, ListInv, IsGraph
        <4> QED
          BY <4>2, <4>3
      <3> QED
        BY <3>1, <3>2 DEF CycleIn
    <2>4. ASSUME NEW S \in SUBSET DOMAIN nodes, CycleIn(nodes, S),
                 ToSet(flat_list) = DOMAIN nodes
          PROVE  FALSE
      <3> DEFINE T == {i \in 1..Len(flat_list) : flat_list[i] \in S}
      <3>1. T \in SUBSET Nat /\ T # {}
        <4>1. PICK n \in S : n \in ToSet(flat_list)
          BY <2>4 DEF CycleIn
        <4>2. PICK i \in 1..Len(flat_list) : flat_list[i] = n
          BY <2>1, <4>1
        <4> QED
          BY <2>1, <4>1, <4>2
      <3>2. PICK i \in T : \A j \in T : i <= j
        BY <3>1, NatLeast
      <3>3. i \in 1..Len(flat_list) /\ flat_list[i] \in S
        OBVIOUS
      <3>4. PICK m \in nodes[flat_list[i]] : m \in S
        BY <2>4, <3>3 DEF CycleIn
      <3>5. m \in {flat_list[j] : j \in 1..(i - 1)}
        BY <3>3 DEF GraphInv, ListInv, DependenciesComeFirst
      <3>6. PICK j \in 1..(i - 1) : flat_list[j] = m
        BY <3>5
      <3>7. j \in T /\ j < i
        BY <2>1, <3>3, <3>4, <3>6
      <3> QED
        BY <2>1, <3>2, <3>3, <3>7
    <2>5. left \in SUBSET DOMAIN nodes
      OBVIOUS
    <2> HIDE DEF left
    <2>6. Circular => CycleIn(nodes, left)
      BY <2>2, <2>3
    <2>7. Circular => \E S \in SUBSET DOMAIN nodes : CycleIn(nodes, S)
      BY <2>5, <2>6
    <2>8. (\E S \in SUBSET DOMAIN nodes : CycleIn(nodes, S)) => Circular
      BY <2>2, <2>4
    <2> QED
      BY <2>6, <2>7, <2>8 DEF left
  <1> QED
    BY <1>1 DEF ShortMeansCycle

\* BuildDependencyList and VerifyNoGYPFileCircularDependencies are right to take
\* a short list for a cycle: it is short exactly when the graph has one.
THEOREM ShortListIsCycle == FlattenSpec => []ShortMeansCycle
  <1>1. GraphInv => ShortMeansCycle
    BY ShortListHasCycle
  <1> QED
    BY <1>1, FlattenInvariant, PTL
=============================================================================
