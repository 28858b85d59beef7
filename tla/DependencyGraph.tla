-------------------------- MODULE DependencyGraph --------------------------
(***************************************************************************)
(* DependencyGraphNode of gyp's input.py: the graph of targets, or of      *)
(* build files, and FlattenToList, which lists it so that everything comes *)
(* after what it depends on.  The implicit root node, on which the nodes   *)
(* without dependencies depend, is not kept: its dependents are the first  *)
(* in_degree_zeros.                                                        *)
(***************************************************************************)
EXTENDS GypLists, FiniteSets

VARIABLES nodes,            \* nodes[n]: the dependencies of node n
          in_degree_zeros,
          flat_list

graphVars == <<nodes, in_degree_zeros, flat_list>>

Dependents(g, n) == {m \in DOMAIN g : n \in g[m]}

\* The graph is built and FlattenToList begins with the dependents of the root.
StartFlatten(g) ==
    /\ nodes' = g
    /\ in_degree_zeros' = {n \in DOMAIN g : g[n] = {}}
    /\ flat_list' = <<>>

\* Mutation: one dependency that is listed is enough.
PopZeroEager ==
    \E node \in in_degree_zeros :
        /\ flat_list' = IF node \in ToSet(flat_list) THEN flat_list ELSE Append(flat_list, node)
        /\ in_degree_zeros' = (in_degree_zeros \ {node}) \cup
               (Dependents(nodes, node) \ (ToSet(flat_list) \cup {node}))
        /\ UNCHANGED nodes

\* One turn of the loop of FlattenToList.  set.pop takes any element.
PopZero ==
    \E node \in in_degree_zeros :
        LET listed == ToSet(flat_list) \cup {node}
        IN  /\ flat_list' = IF node \in ToSet(flat_list) THEN flat_list
                            ELSE Append(flat_list, node)
            /\ in_degree_zeros' =
                   (in_degree_zeros \ {node}) \cup
                       {m \in Dependents(nodes, node) : nodes[m] \subseteq listed}
            /\ UNCHANGED nodes

\* BuildDependencyList and VerifyNoGYPFileCircularDependencies take a list that
\* is too short for a cycle.
Flattened == in_degree_zeros = {} /\ Len(flat_list) = Cardinality(DOMAIN nodes)
Circular == in_degree_zeros = {} /\ Len(flat_list) # Cardinality(DOMAIN nodes)

\* PruneUnwantedTargets takes what is not wanted off the list.
PruneList(wanted) ==
    /\ flat_list' = Select(flat_list, wanted)
    /\ UNCHANGED <<nodes, in_degree_zeros>>

-----------------------------------------------------------------------------
\* FlattenToList says that every target appears after all of its dependencies
\* and before all of its dependents, whichever element the pops return.
DependenciesComeFirst ==
    /\ \A i \in 1..Len(flat_list) :
           nodes[flat_list[i]] \subseteq {flat_list[j] : j \in 1..(i - 1)}
    /\ \A i, j \in 1..Len(flat_list) : flat_list[i] = flat_list[j] => i = j

\* A set of nodes each of which depends on one of the set holds a cycle.
CycleIn(g, S) == S # {} /\ \A n \in S : g[n] \cap S # {}

\* A list that came out too short means a cycle, and with a cycle it is short:
\* what is left out is what a cycle keeps from being listed.
ShortMeansCycle ==
    in_degree_zeros = {} =>
        /\ Circular <=> \E S \in SUBSET DOMAIN nodes : CycleIn(nodes, S)
        /\ Circular => CycleIn(nodes, DOMAIN nodes \ ToSet(flat_list))
=============================================================================
