-------------------------- MODULE Analyzer_proofs ---------------------------
(***************************************************************************)
(* The answer of the analyzer is right for every project and every order   *)
(* in which its walks go through the sets of targets. The recursions of    *)
(* the analyzer are stacks of frames, so that what a call has established  *)
(* so far is part of the invariant; that no call meets its own target      *)
(* again rests on the order of the list that Load made.                    *)
(***************************************************************************)
EXTENDS Analyzer, GypTargets_proofs

-----------------------------------------------------------------------------
(***************************************************************************)
(* The invariant: AnalyzerFacts says for each phase of the analysis what   *)
(* has been found out by then.                                             *)
(***************************************************************************)
\* What depends on a target, what is below the targets of S, and what is affected.
Parents(t) == {x \in DOMAIN targets : t \in NeedsGraph[x]}
Below(S) == {t \in DOMAIN targets : \E r \in S : t \in NeededBy(r)}
Roots == {t \in TopTargets : t[1] \in project.build_files}
Affected == {t \in DOMAIN targets : NeededBy(t) \cap ChangedTargets # {}}

Seen == {t \in DOMAIN objects : objects[t].visited}
Named == {mapping[n] : n \in DOMAIN mapping}
ObjectKeys ==
    {"deps", "back_deps", "match_status", "visited", "requires_build", "is_executable", "in_roots",
     "added_to_compile_targets"}

\* The object of t says of it what its dictionary says.
Described(t) ==
    /\ objects[t].deps = NeedsGraph[t]
    /\ objects[t].requires_build <=> DoesTargetTypeRequireBuild(targets[t])
    /\ objects[t].is_executable <=> targets[t].type = "executable"

\* _GenerateTargets, while it visits the targets.
Generated(t) ==
    /\ DOMAIN objects[t] = ObjectKeys
    /\ objects[t].back_deps = Parents(t) \cap Seen
    /\ t \in Seen => Described(t)
    /\ objects[t].match_status = IF t \in Seen \cap ChangedTargets THEN "MATCHES" ELSE "TBD"
    /\ ~objects[t].added_to_compile_targets
Generating ==
    /\ IsList(targets_to_visit) /\ ToSet(targets_to_visit) \subseteq DOMAIN targets
    /\ DOMAIN targets \subseteq ToSet(targets_to_visit) \cup Seen
    /\ DOMAIN objects \subseteq DOMAIN targets
    /\ \A t \in DOMAIN objects : Generated(t)
    /\ \A t \in Seen : NeedsGraph[t] \subseteq DOMAIN objects
    /\ roots = {t \in DOMAIN objects : objects[t].back_deps = {}}
    /\ build_file_targets = {t \in Seen : t[1] \in project.build_files}
    /\ IsList(matching_targets) /\ ToSet(matching_targets) = Seen \cap ChangedTargets
    /\ frames = <<>> /\ matched_search_targets = {} /\ build_targets = {}

\* What the walks find when _GenerateTargets is through.
Complete ==
    /\ DOMAIN objects = DOMAIN targets
    /\ \A t \in DOMAIN targets :
          DOMAIN objects[t] = ObjectKeys /\ objects[t].back_deps = Parents(t) /\ Described(t)
    /\ roots = Roots /\ Named \subseteq DOMAIN targets
    /\ IsList(matching_targets) /\ IsList(frames)

\* _GetTargetsDependingOn: what a match status says is true, and of a frame of the
\* recursion, that what it has looked at is not affected.
StatusIsTrue(t) ==
    /\ t \in ChangedTargets => objects[t].match_status = "MATCHES"
    /\ objects[t].match_status \in {"TBD", "DOESNT_MATCH", "MATCHES", "MATCHES_BY_DEPENDENCY"}
    /\ Matched(t) => t \in Affected
    /\ objects[t].match_status = "DOESNT_MATCH" => t \notin Affected
    /\ ~objects[t].added_to_compile_targets
FrameKeys == {"target", "add_if_no_ancestor", "todo"}
LookedFor(f) ==
    /\ DOMAIN f = FrameKeys
    /\ f.target \in DOMAIN targets \ ChangedTargets
    /\ f.todo \subseteq NeedsGraph[f.target]
    /\ (NeedsGraph[f.target] \ f.todo) \cap Affected = {}
Searching ==
    /\ Complete
    /\ \A t \in DOMAIN targets : StatusIsTrue(t)
    /\ \A i \in DOMAIN frames : LookedFor(frames[i])
    /\ to_search \subseteq Named
    /\ matched_search_targets = (Named \ to_search) \cap Affected
    /\ ToSet(matching_targets) = ChangedTargets
    /\ build_targets = {}

\* _AddBuildTargets: a target is finished when it has been visited and is in no frame.
Position(t) == CHOOSE i \in 1..Len(flat_list) : flat_list[i] = t
Active == {frames[i].target : i \in DOMAIN frames}
Finished == Seen \ Active

\* Of a finished target it is known whether it is below a root and whether it is built:
\* o is its object, F what is finished and B what is to be built.
Right(o, t, F, B) ==
    /\ Parents(t) \subseteq F
    /\ o.in_roots <=> t \in Below(Roots)
    /\ o.added_to_compile_targets <=> t \in Below(B)
    /\ t \in Below(Roots) /\ DoesTargetTypeRequireBuild(targets[t]) => t \in Below(B)
    /\ t \in Below(Roots) /\ targets[t].type = "executable" => t \in B
\* A frame has handed down to its target what is known of the dependents it has been at.
Handed(o, f, F, B) ==
    /\ DOMAIN f = FrameKeys
    /\ f.todo \subseteq Parents(f.target) /\ Parents(f.target) \ f.todo \subseteq F
    /\ o.in_roots <=>
          \/ Parents(f.target) = {} /\ f.target \in Roots
          \/ \E b \in Parents(f.target) \ f.todo : b \in Below(Roots)
    /\ o.added_to_compile_targets <=> \E b \in Parents(f.target) \ f.todo : b \in Below(B)
\* An inner frame is of a target that is listed later.
Ordered(fs) == \A i, j \in DOMAIN fs : i < j => Position(fs[i].target) < Position(fs[j].target)
\* Nothing is built for another one anyway, unless it is a program.
NotTwice(B) == \A b, t \in B : b # t /\ t \in NeededBy(b) => targets[t].type = "executable"
Building ==
    /\ Complete
    /\ \A t \in DOMAIN targets \ Seen : ~objects[t].added_to_compile_targets
    /\ \A t \in Finished : Right(objects[t], t, Finished, build_targets)
    /\ \A i \in DOMAIN frames :
          Handed(objects[frames[i].target], frames[i], Finished, build_targets)
    /\ Ordered(frames) /\ Active \subseteq Seen
    /\ Seen \subseteq Affected /\ build_targets \subseteq Finished /\ NotTwice(build_targets)
    /\ matched_search_targets = Named \cap Affected
    /\ ToSet(matching_targets) \subseteq ChangedTargets
    /\ ChangedTargets \subseteq Seen \cup ToSet(matching_targets)

\* The answer of the analyzer, in the words of the invariant.
Covers ==
    /\ matched_search_targets = Named \cap Affected
    /\ \A t \in ChangedTargets \cap Below(Roots) :
           DoesTargetTypeRequireBuild(targets[t]) => t \in Below(build_targets)
    /\ \A t \in Affected \cap Below(Roots) : targets[t].type = "executable" => t \in build_targets
    /\ build_targets \subseteq Affected
    /\ NotTwice(build_targets)

AnalyzerFacts ==
    /\ analyzing # "idle" => stage = "loaded" /\ project.format = "analyzer"
    /\ analyzing = "idle" => AnalyzerInit
    /\ analyzing = "generate targets" => Generating
    /\ analyzing = "search" => Searching
    /\ analyzing = "build targets" => Building
    /\ analyzing = "done" => Covers

\* The dependencies of the loaded targets are targets that are listed before them.
DependsOn ==
    /\ DOMAIN NeedsGraph = DOMAIN targets
    /\ \A t \in DOMAIN targets :
          NeedsGraph[t] = ToSet(targets[t].dependencies) /\ NeedsGraph[t] \subseteq DOMAIN targets

-----------------------------------------------------------------------------
(***************************************************************************)
(* What the graph says.                                                    *)
(***************************************************************************)
\* What a target needs: the smallest set with it and the dependencies of what is in it.
LEMMA NeededByFacts ==
    ASSUME DependsOn, NEW t \in DOMAIN targets
    PROVE  /\ NeededBy(t) \subseteq DOMAIN targets /\ t \in NeededBy(t)
           /\ NeedsGraph[t] \subseteq NeededBy(t)
           /\ \A u \in NeededBy(t) : NeedsGraph[u] \subseteq NeededBy(t)
           /\ \A X \in SUBSET DOMAIN targets :
                 t \in X /\ (\A u \in X : NeedsGraph[u] \subseteq X) => NeededBy(t) \subseteq X
  <1>1. PICK C : C = Closure(NeedsGraph[t], NeedsGraph)
    OBVIOUS
  <1>2. /\ DOMAIN NeedsGraph = DOMAIN targets /\ NeedsGraph[t] \subseteq DOMAIN NeedsGraph
        /\ \A u \in DOMAIN NeedsGraph : NeedsGraph[u] \subseteq DOMAIN NeedsGraph
    BY DEF DependsOn
  <1>3. /\ C \subseteq DOMAIN NeedsGraph /\ NeedsGraph[t] \subseteq C
        /\ \A u \in C : NeedsGraph[u] \subseteq C
        /\ \A X \in SUBSET DOMAIN NeedsGraph :
              NeedsGraph[t] \subseteq X /\ (\A u \in X : NeedsGraph[u] \subseteq X) => C \subseteq X
    BY <1>1, <1>2, ClosureFacts
  <1>4. NeededBy(t) = {t} \cup C
    BY <1>1 DEF NeededBy
  <1> QED
    BY <1>2, <1>3, <1>4

\* What a target needs it needs itself, or one of its dependencies does.
LEMMA NeededFirst ==
    ASSUME DependsOn, NEW t \in DOMAIN targets, NEW x
    PROVE  x \in NeededBy(t) <=> x = t \/ \E u \in NeedsGraph[t] : x \in NeededBy(u)
  <1>1. \A u \in NeedsGraph[t] : u \in DOMAIN targets
    BY DEF DependsOn
  <1>2. PICK N : N = NeededBy(t)
    OBVIOUS
  <1>3. /\ N \subseteq DOMAIN targets /\ t \in N /\ NeedsGraph[t] \subseteq N
        /\ \A u \in N : NeedsGraph[u] \subseteq N
        /\ \A X \in SUBSET DOMAIN targets :
                 t \in X /\ (\A u \in X : NeedsGraph[u] \subseteq X) => N \subseteq X
    BY <1>2, NeededByFacts
  <1>4. PICK Y : Y = {t} \cup UNION {NeededBy(u) : u \in NeedsGraph[t]}
    OBVIOUS
  <1>5. Y \in SUBSET DOMAIN targets
    BY <1>1, <1>4, NeededByFacts
  <1>6. ASSUME NEW u \in Y PROVE NeedsGraph[u] \subseteq Y
    <2>1. CASE u = t
      <3>1. \A v \in NeedsGraph[t] : v \in NeededBy(v)
        BY <1>1, NeededByFacts
      <3> QED
        BY <1>4, <2>1, <3>1
    <2>2. ASSUME NEW v \in NeedsGraph[t], u \in NeededBy(v) PROVE NeedsGraph[u] \subseteq Y
      <3>1. NeedsGraph[u] \subseteq NeededBy(v)
        BY <1>1, <2>2, NeededByFacts
      <3> QED
        BY <1>4, <2>2, <3>1
    <2> QED
      BY <1>4, <2>1, <2>2
  <1>7. N \subseteq Y
    BY <1>3, <1>4, <1>5, <1>6
  <1>8. ASSUME NEW u \in NeedsGraph[t] PROVE NeededBy(u) \subseteq N
    <2>1. u \in DOMAIN targets /\ u \in N /\ N \in SUBSET DOMAIN targets
      BY <1>1, <1>3
    <2> QED
      BY <1>3, <2>1, NeededByFacts
  <1> QED
    BY <1>2, <1>3, <1>4, <1>7, <1>8

\* What is below the targets of S is in S, or something below them depends on it.
LEMMA BelowStep ==
    ASSUME DependsOn, NEW S \in SUBSET DOMAIN targets, NEW x \in DOMAIN targets
    PROVE  x \in Below(S) <=> x \in S \/ \E b \in Parents(x) : b \in Below(S)
  <1>1. ASSUME NEW r \in S, x \in NeededBy(r), x # r
        PROVE  \E b \in Parents(x) : b \in Below(S)
    <2>1. PICK N : N = NeededBy(r)
      OBVIOUS
    <2>2. /\ N \subseteq DOMAIN targets /\ r \in N /\ NeedsGraph[r] \subseteq N
          /\ \A u \in N : NeedsGraph[u] \subseteq N
          /\ \A X \in SUBSET DOMAIN targets :
                 r \in X /\ (\A u \in X : NeedsGraph[u] \subseteq X) => N \subseteq X
      BY <2>1, NeededByFacts
    <2>3. PICK Y : Y = {r} \cup {y \in DOMAIN targets : \E b \in N : y \in NeedsGraph[b]}
      OBVIOUS
    <2>4. Y \in SUBSET DOMAIN targets /\ r \in Y /\ Y \subseteq N
      BY <2>2, <2>3
    <2>5. \A u \in Y : NeedsGraph[u] \subseteq Y
      BY <2>2, <2>3, <2>4
    <2>6. x \in Y
      BY <1>1, <2>1, <2>2, <2>4, <2>5
    <2>7. PICK b \in N : x \in NeedsGraph[b]
      BY <1>1, <2>3, <2>6
    <2> QED
      BY <1>1, <2>1, <2>2, <2>7 DEF Parents, Below
  <1>2. ASSUME NEW b \in Parents(x), b \in Below(S) PROVE x \in Below(S)
    <2>1. PICK r \in S : b \in NeededBy(r)
      BY <1>2 DEF Below
    <2>2. x \in NeedsGraph[b]
      BY <1>2 DEF Parents
    <2>3. x \in NeededBy(r)
      BY <2>1, <2>2, NeededByFacts
    <2> QED
      BY <2>1, <2>3 DEF Below
  <1>3. x \in S => x \in Below(S)
    BY NeededByFacts DEF Below
  <1>4. x \in Below(S) => \E r \in S : x \in NeededBy(r)
    BY DEF Below
  <1> QED
    BY <1>1, <1>2, <1>3, <1>4

\* A target is affected when it is changed or a dependency is; so what depends on it is too.
LEMMA AffectedFacts ==
    ASSUME DependsOn
    PROVE  /\ Affected \subseteq DOMAIN targets /\ ChangedTargets \subseteq Affected
           /\ \A t \in DOMAIN targets :
                 t \in Affected <=> t \in ChangedTargets \/ NeedsGraph[t] \cap Affected # {}
           /\ \A t \in Affected : Parents(t) \subseteq Affected
  <1>1. ASSUME NEW t \in DOMAIN targets
        PROVE  t \in Affected <=> t \in ChangedTargets \/ NeedsGraph[t] \cap Affected # {}
    <2>1. \A x : x \in NeededBy(t) <=> x = t \/ \E u \in NeedsGraph[t] : x \in NeededBy(u)
      BY NeededFirst
    <2>2. \A u \in NeedsGraph[t] : u \in DOMAIN targets
      BY DEF DependsOn
    <2>3. \A u \in DOMAIN targets : u \in Affected <=> \E x \in ChangedTargets : x \in NeededBy(u)
      BY DEF Affected
    <2> QED
      BY <2>1, <2>2, <2>3
  <1>2. Affected \subseteq DOMAIN targets /\ ChangedTargets \subseteq DOMAIN targets
    BY DEF Affected, ChangedTargets
  <1>3. ASSUME NEW t \in Affected, NEW b \in Parents(t) PROVE b \in Affected
    <2>1. b \in DOMAIN targets /\ t \in NeedsGraph[b]
      BY DEF Parents
    <2> QED
      BY <1>1, <1>3, <2>1
  <1> QED
    BY <1>1, <1>2, <1>3

\* A set that holds all the dependents of what it holds holds nothing that is below
\* what is outside.
LEMMA FinishedAbove ==
    ASSUME DependsOn, NEW F, \A t \in F : Parents(t) \subseteq F,
           NEW t \in F, NEW b \in DOMAIN targets, t \in NeededBy(b)
    PROVE  b \in F
  <1>1. SUFFICES ASSUME b \notin F PROVE FALSE
    OBVIOUS
  <1>2. PICK X : X = DOMAIN targets \ F
    OBVIOUS
  <1>3. ASSUME NEW u \in X PROVE NeedsGraph[u] \subseteq X
    <2>1. ASSUME NEW y \in NeedsGraph[u], y \in F PROVE FALSE
      <3>1. u \in Parents(y)
        BY <1>2, <2>1 DEF Parents
      <3> QED
        BY <1>2, <2>1, <3>1
    <2>2. NeedsGraph[u] \subseteq DOMAIN targets
      BY <1>2 DEF DependsOn
    <2> QED
      BY <1>2, <2>1, <2>2
  <1>4. b \in X /\ X \in SUBSET DOMAIN targets
    BY <1>1, <1>2
  <1>5. NeededBy(b) \subseteq X
    BY <1>3, <1>4, NeededByFacts
  <1> QED
    BY <1>2, <1>5

\* What the analyzer is given.
Loaded ==
    /\ DependsOn
    /\ \A t \in DOMAIN targets : IsList(targets[t].dependencies) /\ Position(t) \in Nat
    /\ \A t \in DOMAIN targets : \A u \in NeedsGraph[t] : Position(u) < Position(t)
    /\ IsList(flat_list) /\ ToSet(flat_list) = DOMAIN targets

\* The invariant of Load gives the analyzer what it relies on.
LEMMA LoadedFacts ==
    ASSUME LoadInv, stage = "loaded", project.format = "analyzer"
    PROVE  Loaded
  <1>1. stage \in Adjusted /\ stage \in Listed
    BY DEF Adjusted, Listed
  <1>2. ~project.adjust_static_libraries
    BY AnalyzerAssumption DEF LoadInv
  <1>3. PICK deps : deps = [t \in DOMAIN targets |-> targets[t].dependencies]
    OBVIOUS
  <1>4. AreTargets(deps) /\ ComeEarlier(deps)
    BY <1>1, <1>2, <1>3 DEF LoadInv, LoadFacts, AdjustedSafely, SafeDependencies
  <1>5. DependsOn
    BY <1>3, <1>4 DEF DependsOn, NeedsGraph, AreTargets
  <1>6. PICK l, n : l = flat_list /\ n = Len(flat_list)
    OBVIOUS
  <1>7. /\ l \in Seq(DOMAIN nodes) /\ ToSet(l) = DOMAIN targets
        /\ \A i, j \in 1..n : l[i] = l[j] => i = j
    BY <1>1, <1>6 DEF LoadInv, LoadFacts, ListInv, ListIsTargets, DependenciesComeFirst
  <1>8. n \in Nat /\ DOMAIN l = 1..n /\ ToSet(l) = {l[i] : i \in 1..n} /\ IsList(l)
    <2>1. l \in Seq(DOMAIN nodes) /\ n = Len(l)
      BY <1>6, <1>7
    <2>2. ToSet(l) = {l[i] : i \in 1..n}
      BY <2>1, ToSetOfSeq
    <2>3. IsList(l) /\ n \in Nat /\ DOMAIN l = 1..n
      BY <2>1, ListOfSeq
    <2> QED
      BY <2>2, <2>3
  <1>9. ASSUME NEW t \in DOMAIN targets PROVE Position(t) \in 1..n /\ l[Position(t)] = t
    <2>1. \E i \in 1..n : l[i] = t
      BY <1>7, <1>8
    <2> QED
      BY <1>6, <2>1 DEF Position
  <1>10. ASSUME NEW t \in DOMAIN targets, NEW u \in NeedsGraph[t]
         PROVE  Position(u) < Position(t)
    <2>1. PICK i : i = Position(t)
      OBVIOUS
    <2>2. i \in 1..n /\ l[i] = t
      BY <1>9, <2>1
    <2>3. ToSet(deps[t]) \subseteq {l[j] : j \in 1..(i - 1)}
      <3>1. \A k \in DOMAIN l : ToSet(deps[l[k]]) \subseteq {l[j] : j \in 1..(k - 1)}
        BY <1>4, <1>6 DEF ComeEarlier
      <3> QED
        BY <1>8, <2>2, <3>1
    <2>4. NeedsGraph[t] = ToSet(deps[t]) /\ u \in DOMAIN targets
      BY <1>3, <1>5 DEF DependsOn
    <2>5. PICK j \in 1..(i - 1) : u = l[j]
      BY <2>3, <2>4
    <2>6. j \in 1..n /\ j < i
      BY <1>8, <2>2
    <2>7. Position(u) = j
      BY <1>7, <1>9, <2>4, <2>5, <2>6
    <2> QED
      BY <2>1, <2>6, <2>7
  <1>11. \A t \in DOMAIN targets : IsList(targets[t].dependencies)
    BY ListsOf
  <1> QED
    BY <1>5, <1>6, <1>7, <1>8, <1>9, <1>10, <1>11 DEF Loaded

\* What the walks of the analyzer leave alone.
LEMMA GraphIsFixed ==
    ASSUME UNCHANGED <<targetVars, graphVars>>
    PROVE  /\ targets' = targets /\ project' = project /\ stage' = stage
           /\ flat_list' = flat_list
           /\ NeedsGraph' = NeedsGraph /\ ChangedTargets' = ChangedTargets /\ Roots' = Roots
           /\ Affected' = Affected /\ TopTargets' = TopTargets
           /\ \A t : NeededBy(t)' = NeededBy(t) /\ Parents(t)' = Parents(t)
           /\ \A t : Position(t)' = Position(t)
           /\ \A S : Below(S)' = Below(S)
  <1>1. targets' = targets /\ project' = project /\ stage' = stage /\ flat_list' = flat_list
    BY DEF targetVars, graphVars
  <1>2. NeedsGraph' = NeedsGraph
    BY <1>1 DEF NeedsGraph
  <1>3. \A t : NeededBy(t)' = NeededBy(t) /\ Parents(t)' = Parents(t)
    BY <1>1, <1>2 DEF NeededBy, Parents
  <1>4. \A t : Matches(t)' <=> Matches(t)
    BY <1>1 DEF Matches, WasBuildFileModified, ExtractSources, AddSources, ResolveParent, Config,
                BasePath, BasePathComponents
  <1>5. ChangedTargets' = ChangedTargets
    BY <1>1, <1>4 DEF ChangedTargets
  <1>6. TopTargets' = TopTargets
    BY <1>1, <1>2 DEF TopTargets
  <1>7. Roots' = Roots
    BY <1>1, <1>6 DEF Roots
  <1>8. Affected' = Affected
    BY <1>1, <1>3, <1>5 DEF Affected
  <1>9. \A t : Position(t)' = Position(t)
    BY <1>1 DEF Position
  <1>10. \A S : Below(S)' = Below(S)
    BY <1>1, <1>3 DEF Below
  <1> QED
    BY <1>1, <1>2, <1>3, <1>5, <1>6, <1>7, <1>8, <1>9, <1>10

\* Taking the last element off a list.
LEMMA FrontFacts ==
    ASSUME NEW l, IsList(l), l # <<>>
    PROVE  /\ IsList(Front(l)) /\ Len(Front(l)) = Len(l) - 1 /\ Len(l) \in Nat \ {0}
           /\ DOMAIN l = 1..Len(l) /\ DOMAIN Front(l) = 1..(Len(l) - 1)
           /\ \A i \in 1..(Len(l) - 1) : Front(l)[i] = l[i]
           /\ Last(l) = l[Len(l)] /\ Last(l) \in ToSet(l)
           /\ ToSet(l) = ToSet(Front(l)) \cup {Last(l)}
  <1>1. PICK S, n, f : S = ToSet(l) /\ n = Len(l) /\ f = Front(l)
    OBVIOUS
  <1>2. l \in Seq(S) /\ n \in Nat /\ DOMAIN l = 1..n /\ S = {l[i] : i \in 1..n}
    BY <1>1, SeqOfList
  <1>3. n # 0
    BY <1>1, <1>2
  <1>4. f = SubSeq(l, 1, n - 1)
    BY <1>1 DEF Front
  <1>5. /\ f \in Seq(S) /\ Len(f) = n - 1 /\ \A i \in 1..(n - 1) : f[i] = l[i]
    BY <1>2, <1>3, <1>4
  <1>6. IsList(f) /\ ToSet(f) = {f[i] : i \in 1..(n - 1)} /\ DOMAIN f = 1..(n - 1)
    BY <1>5, ListOfSeq, ToSetOfSeq
  <1>7. Last(l) = l[n]
    BY <1>1 DEF Last
  <1>8. \A i \in 1..n : i \in 1..(n - 1) \/ i = n
    BY <1>2, <1>3
  <1>9. n \in 1..n /\ 1..(n - 1) \subseteq 1..n
    BY <1>2, <1>3
  <1>10. S = ToSet(f) \cup {l[n]}
    BY <1>2, <1>5, <1>6, <1>8, <1>9
  <1> QED
    BY <1>1, <1>2, <1>3, <1>5, <1>6, <1>7, <1>9, <1>10

-----------------------------------------------------------------------------
(***************************************************************************)
(* The objects of the targets are made.                                    *)
(***************************************************************************)
\* What is still to be shown of a step of the analyzer.
LEMMA PhaseFacts ==
    ASSUME AnalyzerFacts, UNCHANGED <<targetVars, graphVars>>,
           stage = "loaded", project.format = "analyzer", analyzing' # "idle",
           analyzing' = "generate targets" => Generating',
           analyzing' = "search" => Searching',
           analyzing' = "build targets" => Building',
           analyzing' = "done" => Covers'
    PROVE  AnalyzerFacts'
  <1>1. stage' = "loaded" /\ project'.format = "analyzer"
    BY GraphIsFixed
  <1> QED
    BY <1>1 DEF AnalyzerFacts

\* The object of x, or what it will be when it is made.
ObjectOf(x, o) ==
    /\ DOMAIN o = ObjectKeys
    /\ o.visited <=> x \in Seen
    /\ o.back_deps = Parents(x) \cap Seen
    /\ o.match_status = IF x \in Seen \cap ChangedTargets THEN "MATCHES" ELSE "TBD"
    /\ ~o.added_to_compile_targets
    /\ x \in DOMAIN objects => o = objects[x]

\* GetOrCreateTargetByName, for a target that has an object and for one that has none.
LEMMA ObjectFacts ==
    ASSUME Generating, NEW x \in DOMAIN targets, NEW o, o = GetOrCreateTargetByName(x)
    PROVE  ObjectOf(x, o)
  <1>1. CASE x \in DOMAIN objects
    <2>1. o = objects[x] /\ Generated(x)
      BY <1>1 DEF GetOrCreateTargetByName, Generating
    <2>2. objects[x].visited <=> x \in Seen
      BY <1>1 DEF Seen
    <2> QED
      BY <2>1, <2>2 DEF ObjectOf, Generated
  <1>2. CASE x \notin DOMAIN objects
    <2>1. o = NewTarget
      BY <1>2 DEF GetOrCreateTargetByName
    <2>2. x \notin Seen /\ Parents(x) \cap Seen = {}
      BY <1>2 DEF Seen, Parents, Generating
    <2>3. /\ DOMAIN NewTarget = ObjectKeys /\ NewTarget.back_deps = {}
          /\ NewTarget.match_status = "TBD" /\ NewTarget.visited = FALSE
          /\ NewTarget.added_to_compile_targets = FALSE
      BY DEF NewTarget, ObjectKeys
    <2> QED
      BY <1>2, <2>1, <2>2, <2>3 DEF ObjectOf
  <1> QED
    BY <1>1, <1>2

\* The analysis starts with every listed target on the stack.
LEMMA StartAnalysisInv ==
    ASSUME LoadInv, AnalyzerFacts, StartAnalysis, UNCHANGED <<targetVars, graphVars>>
    PROVE  AnalyzerFacts'
  <1>1. /\ stage = "loaded" /\ project.format = "analyzer" /\ analyzing = "idle"
        /\ analyzing' \in {"error", "all changed", "generate targets"}
        /\ targets_to_visit' = flat_list
        /\ UNCHANGED <<objects, matching_targets, roots, build_file_targets, mapping, frames,
                       to_search, matched_search_targets, build_targets>>
    BY DEF StartAnalysis
  <1>2. AnalyzerInit /\ Loaded
    BY <1>1, LoadedFacts DEF AnalyzerFacts
  <1>3. /\ DOMAIN objects' = {} /\ matching_targets' = <<>> /\ roots' = {}
        /\ build_file_targets' = {} /\ frames' = <<>>
        /\ matched_search_targets' = {} /\ build_targets' = {}
    BY <1>1, <1>2 DEF AnalyzerInit
  <1>4. Seen' = {}
    BY <1>3 DEF Seen
  <1>5. IsList(<<>>) /\ ToSet(<<>>) = {}
    BY ToSetOfEmpty DEF IsList
  <1>6. IsList(targets_to_visit') /\ ToSet(targets_to_visit') = DOMAIN targets'
    BY <1>1, <1>2, GraphIsFixed DEF Loaded
  <1>7. Generating'
    BY <1>3, <1>4, <1>5, <1>6 DEF Generating
  <1> QED
    BY <1>1, <1>7, PhaseFacts

\* A target that is on the stack again.
LEMMA VisitAgainInv ==
    ASSUME Generating, Loaded, targets_to_visit # <<>>, UNCHANGED <<targetVars, graphVars>>,
           Last(targets_to_visit) \in Seen,
           targets_to_visit' = Front(targets_to_visit),
           UNCHANGED <<objects, matching_targets, roots, build_file_targets, frames,
                       matched_search_targets, build_targets>>
    PROVE  Generating'
  <1>1. PICK l : l = targets_to_visit
    OBVIOUS
  <1>2. IsList(l) /\ l # <<>>
    BY <1>1 DEF Generating
  <1>3. IsList(Front(l)) /\ ToSet(l) = ToSet(Front(l)) \cup {Last(l)}
    BY <1>2, FrontFacts
  <1>4. Seen' = Seen /\ targets' = targets /\ project' = project
    BY GraphIsFixed DEF Seen
  <1>5. \A t \in DOMAIN objects : Generated(t)'
    BY <1>4, GraphIsFixed DEF Generated, Described, Generating
  <1>6. NeedsGraph' = NeedsGraph /\ ChangedTargets' = ChangedTargets
    BY GraphIsFixed
  <1>7. /\ IsList(targets_to_visit)' /\ ToSet(targets_to_visit') \subseteq DOMAIN targets
        /\ DOMAIN targets \subseteq ToSet(targets_to_visit') \cup Seen
    BY <1>1, <1>3 DEF Generating
  <1> QED
    BY <1>4, <1>5, <1>6, <1>7 DEF Generating

\* The objects after a target has been visited.
Visiting(t, o, N) ==
    /\ DOMAIN objects' = DOMAIN objects \cup {t} \cup N
    /\ objects'[t] = [o[t] EXCEPT
                    !.visited = TRUE,
                    !.requires_build = DoesTargetTypeRequireBuild(targets[t]),
                    !.is_executable = targets[t].type = "executable",
                    !.match_status = IF Matches(t) THEN "MATCHES" ELSE @,
                    !.deps = N]
    /\ \A x \in N : objects'[x] = [o[x] EXCEPT !.back_deps = @ \cup {t}]
    /\ \A x \in DOMAIN objects \ ({t} \cup N) : objects'[x] = objects[x]

\* The objects after a round of _GenerateTargets are those of Visiting.
LEMMA VisitingFacts ==
    ASSUME NEW t, t \notin ToSet(targets[t].dependencies), objects' = Visited(t, targets[t]),
           NEW N, N = ToSet(targets[t].dependencies),
           NEW o, o = [x \in DOMAIN targets |-> GetOrCreateTargetByName(x)],
           t \in DOMAIN targets, N \subseteq DOMAIN targets
    PROVE  Visiting(t, o, N)
  <1>1. PICK d : d = targets[t]
    OBVIOUS
  <1>2. objects' = [x \in DOMAIN objects \cup {t} \cup N |->
        CASE x = t ->
               [GetOrCreateTargetByName(t) EXCEPT
                    !.visited = TRUE,
                    !.requires_build = DoesTargetTypeRequireBuild(d),
                    !.is_executable = d.type = "executable",
                    !.match_status = IF Matches(t) THEN "MATCHES" ELSE @,
                    !.deps = N]
          [] x # t /\ x \in N ->
               [GetOrCreateTargetByName(x) EXCEPT !.back_deps = @ \cup {t}]
          [] OTHER -> objects[x]]
    BY <1>1 DEF Visited
  <1>3. o[t] = GetOrCreateTargetByName(t) /\ \A x \in N : o[x] = GetOrCreateTargetByName(x)
    OBVIOUS
  <1> HIDE DEF GetOrCreateTargetByName
  <1>4. DOMAIN objects' = DOMAIN objects \cup {t} \cup N
    BY <1>2
  <1>5. objects'[t] = [o[t] EXCEPT
                    !.visited = TRUE,
                    !.requires_build = DoesTargetTypeRequireBuild(d),
                    !.is_executable = d.type = "executable",
                    !.match_status = IF Matches(t) THEN "MATCHES" ELSE @,
                    !.deps = N]
    BY <1>2, <1>3
  <1>6. \A x \in N : objects'[x] = [o[x] EXCEPT !.back_deps = @ \cup {t}]
    BY <1>2, <1>3
  <1>7. \A x \in DOMAIN objects \ ({t} \cup N) : objects'[x] = objects[x]
    BY <1>2
  <1> QED
    BY <1>1, <1>4, <1>5, <1>6, <1>7 DEF Visiting

\* A target that is visited for the first time.
LEMMA VisitNewInv ==
    ASSUME Generating, Loaded, targets_to_visit # <<>>, UNCHANGED <<targetVars, graphVars>>,
           NEW t, t = Last(targets_to_visit), t \notin Seen,
           targets_to_visit' = Front(targets_to_visit) \o targets[t].dependencies,
           objects' = Visited(t, targets[t]),
           roots' = (IF t \in DOMAIN objects THEN roots ELSE roots \cup {t})
                              \ (DOMAIN objects \cap ToSet(targets[t].dependencies)),
           build_file_targets' = IF t[1] \in project.build_files
                                       THEN build_file_targets \cup {t} ELSE build_file_targets,
           matching_targets' = IF Matches(t) THEN Append(matching_targets, t)
                                     ELSE matching_targets,
           UNCHANGED <<frames, matched_search_targets, build_targets>>
    PROVE  Generating'
  <1>1. PICK D, N, O, l, o :
          /\ D = DOMAIN targets /\ N = ToSet(targets[t].dependencies) /\ O = DOMAIN objects
          /\ l = targets_to_visit
          /\ o = [x \in DOMAIN targets |-> GetOrCreateTargetByName(x)]
    OBVIOUS
  <1>2. IsList(l) /\ l # <<>> /\ ToSet(l) \subseteq D /\ O \subseteq D /\ D \subseteq ToSet(l) \cup Seen
    BY <1>1 DEF Generating
  <1>3. IsList(Front(l)) /\ ToSet(l) = ToSet(Front(l)) \cup {t} /\ t \in D
    <2>1. /\ IsList(Front(l)) /\ ToSet(l) = ToSet(Front(l)) \cup {Last(l)}
          /\ Last(l) \in ToSet(l)
      BY <1>2, FrontFacts
    <2> QED
      BY <1>1, <1>2, <2>1
  <1>4. /\ N = NeedsGraph[t] /\ N \subseteq D /\ IsList(targets[t].dependencies)
        /\ t \notin N
    <2>1. \A u \in NeedsGraph[t] : Position(u) < Position(t)
      BY <1>1, <1>3 DEF Loaded
    <2>2. Position(t) \in Nat
      BY <1>1, <1>3 DEF Loaded
    <2>3. t \notin NeedsGraph[t]
      BY <2>1, <2>2
    <2> QED
      BY <1>1, <1>3, <2>3 DEF Loaded, DependsOn
  <1>5. Visiting(t, o, N)
    BY <1>1, <1>3, <1>4, VisitingFacts
  <1>6. \A x \in D : ObjectOf(x, o[x])
    BY <1>1, ObjectFacts
  <1>7. DOMAIN objects' = O \cup {t} \cup N
    BY <1>1, <1>5 DEF Visiting
  <1>8. /\ DOMAIN objects'[t] = ObjectKeys /\ objects'[t].visited
        /\ objects'[t].requires_build <=> DoesTargetTypeRequireBuild(targets[t])
        /\ objects'[t].is_executable <=> targets[t].type = "executable"
        /\ objects'[t].match_status = IF Matches(t) THEN "MATCHES" ELSE "TBD"
        /\ objects'[t].deps = N /\ objects'[t].back_deps = Parents(t) \cap Seen
        /\ ~objects'[t].added_to_compile_targets
    <2>1. ObjectOf(t, o[t])
      BY <1>3, <1>6
    <2>2. PICK a, e : a = o[t] /\ e = objects'[t]
      OBVIOUS
    <2>3. /\ DOMAIN a = ObjectKeys /\ a.match_status = "TBD" /\ a.back_deps = Parents(t) \cap Seen
          /\ ~a.added_to_compile_targets
      BY <2>1, <2>2 DEF ObjectOf
    <2>4. PICK m, q, p : /\ m = IF Matches(t) THEN "MATCHES" ELSE "TBD"
                         /\ q = DoesTargetTypeRequireBuild(targets[t])
                         /\ p = (targets[t].type = "executable")
      OBVIOUS
    <2>5. e = [a EXCEPT !.visited = TRUE, !.requires_build = q, !.is_executable = p,
                        !.match_status = m, !.deps = N]
      BY <1>5, <2>2, <2>3, <2>4 DEF Visiting
    <2>6. /\ DOMAIN e = ObjectKeys /\ e.visited = TRUE /\ e.requires_build = q
          /\ e.is_executable = p /\ e.match_status = m /\ e.deps = N
          /\ e.back_deps = a.back_deps
          /\ e.added_to_compile_targets = a.added_to_compile_targets
      BY <2>3, <2>5 DEF ObjectKeys
    <2> QED
      BY <2>2, <2>3, <2>4, <2>6
  <1>9. ASSUME NEW x \in N
        PROVE  /\ ObjectOf(x, o[x]) /\ DOMAIN objects'[x] = ObjectKeys
               /\ objects'[x].back_deps = (Parents(x) \cap Seen) \cup {t}
               /\ \A k \in ObjectKeys \ {"back_deps"} : objects'[x][k] = o[x][k]
    <2>1. ObjectOf(x, o[x])
      BY <1>4, <1>6
    <2>2. PICK a, e : a = o[x] /\ e = objects'[x]
      OBVIOUS
    <2>3. DOMAIN a = ObjectKeys /\ a.back_deps = Parents(x) \cap Seen
      BY <2>1, <2>2 DEF ObjectOf
    <2>4. e = [a EXCEPT !.back_deps = @ \cup {t}]
      BY <1>5, <2>2 DEF Visiting
    <2>5. /\ DOMAIN e = ObjectKeys /\ e.back_deps = a.back_deps \cup {t}
          /\ \A k \in ObjectKeys \ {"back_deps"} : e[k] = a[k]
      BY <2>3, <2>4 DEF ObjectKeys
    <2> QED
      BY <2>1, <2>2, <2>3, <2>5
  <1>10. \A x \in O \ ({t} \cup N) : objects'[x] = objects[x] /\ Generated(x)
    BY <1>1, <1>5 DEF Visiting, Generating
  <1>11. \A x \in N : objects'[x].visited <=> x \in Seen
    <2>1. "visited" \in ObjectKeys \ {"back_deps"}
      BY DEF ObjectKeys
    <2> QED
      BY <1>9, <2>1 DEF ObjectOf
  <1>12. Seen' = Seen \cup {t}
    <2>1. \A x : x \in Seen' <=> x \in DOMAIN objects' /\ objects'[x].visited
      BY DEF Seen
    <2>2. \A x : x \in Seen <=> x \in O /\ objects[x].visited
      BY <1>1 DEF Seen
    <2>3. ASSUME NEW x PROVE x \in Seen' <=> x \in Seen \cup {t}
      <3>1. CASE x = t
        BY <1>7, <1>8, <2>1, <3>1
      <3>2. CASE x # t /\ x \in N
        BY <1>7, <1>11, <2>1, <3>2
      <3>3. CASE x # t /\ x \notin N
        BY <1>7, <1>10, <2>1, <2>2, <3>3
      <3> QED
        BY <3>1, <3>2, <3>3
    <2> QED
      BY <2>3
  <1>13. /\ targets' = targets /\ project' = project /\ NeedsGraph' = NeedsGraph
         /\ ChangedTargets' = ChangedTargets /\ \A x : Parents(x)' = Parents(x)
    BY GraphIsFixed
  <1>14. t \in ChangedTargets <=> Matches(t)
    BY <1>1, <1>3 DEF ChangedTargets
  <1>15. \A x \in D : t \in Parents(x) <=> x \in N
    BY <1>1, <1>3, <1>4 DEF Parents
  <1>16. ASSUME NEW x \in DOMAIN objects'
         PROVE  /\ Generated(x)'
                /\ objects'[x].back_deps = {} <=>
                      x \in (IF t \in O THEN roots ELSE roots \cup {t}) \ (O \cap N)
    <2>0. /\ Parents(x)' = Parents(x) /\ roots = {y \in O : objects[y].back_deps = {}}
          /\ x \in D
      BY <1>1, <1>2, <1>3, <1>4, <1>7, <1>13 DEF Generating
    <2>1. CASE x = t
      <3>1. objects'[x].back_deps = Parents(x)' \cap Seen'
        BY <1>3, <1>4, <1>8, <1>12, <1>15, <2>0, <2>1
      <3>2. Described(x)'
        BY <1>4, <1>8, <1>13, <2>1 DEF Described
      <3>3. objects'[x].match_status = IF x \in Seen' \cap ChangedTargets' THEN "MATCHES" ELSE "TBD"
        BY <1>8, <1>12, <1>13, <1>14, <2>1
      <3>4. Generated(x)'
        BY <1>8, <2>1, <3>1, <3>2, <3>3 DEF Generated
      <3>5. t \in O => objects[t].back_deps = Parents(t) \cap Seen
        BY <1>1 DEF Generating, Generated
      <3>6. t \notin O => Parents(t) \cap Seen = {}
        BY <1>1 DEF Parents, Generating
      <3> QED
        BY <1>4, <1>8, <2>0, <2>1, <3>4, <3>5, <3>6
    <2>2. CASE x # t /\ x \in N
      <3>1. objects'[x].back_deps = Parents(x)' \cap Seen'
        BY <1>9, <1>12, <1>15, <2>0, <2>2
      <3>2. ObjectOf(x, o[x]) /\ DOMAIN objects'[x] = ObjectKeys
        BY <1>9, <2>2
      <3>3. /\ objects'[x].match_status = o[x].match_status
            /\ objects'[x].added_to_compile_targets = o[x].added_to_compile_targets
            /\ objects'[x].deps = o[x].deps
            /\ objects'[x].requires_build = o[x].requires_build
            /\ objects'[x].is_executable = o[x].is_executable
        BY <1>9, <2>2 DEF ObjectKeys
      <3>4. x \in Seen' => Described(x)'
        <4>1. SUFFICES ASSUME x \in Seen PROVE Described(x)'
          BY <1>12, <2>2
        <4>2. x \in O /\ o[x] = objects[x]
          BY <1>1, <3>2, <4>1 DEF Seen, ObjectOf
        <4>3. Described(x)
          BY <1>1, <4>1, <4>2 DEF Generating, Generated
        <4> QED
          BY <1>13, <3>3, <4>2, <4>3 DEF Described
      <3>5. objects'[x].match_status = IF x \in Seen' \cap ChangedTargets' THEN "MATCHES" ELSE "TBD"
        BY <1>12, <1>13, <2>2, <3>2, <3>3 DEF ObjectOf
      <3>6. Generated(x)'
        BY <3>1, <3>2, <3>3, <3>4, <3>5 DEF Generated, ObjectOf
      <3>7. objects'[x].back_deps # {}
        BY <1>9, <2>2
      <3> QED
        BY <2>0, <2>2, <3>6, <3>7
    <2>3. CASE x # t /\ x \notin N
      <3>1. x \in O /\ objects'[x] = objects[x] /\ Generated(x)
        BY <1>7, <1>10, <2>3
      <3>2. Parents(x)' \cap Seen' = Parents(x) \cap Seen
        BY <1>12, <1>15, <2>0, <2>3
      <3>3. x \in Seen' <=> x \in Seen
        BY <1>12, <2>3
      <3>4. x \in Seen' => Described(x)'
        BY <1>13, <3>1, <3>3 DEF Generated, Described
      <3>5. Generated(x)'
        BY <1>13, <3>1, <3>2, <3>3, <3>4 DEF Generated
      <3> QED
        BY <2>0, <2>3, <3>1, <3>5
    <2> QED
      BY <2>1, <2>2, <2>3
  <1>17. roots' = {x \in DOMAIN objects' : objects'[x].back_deps = {}}
    <2>1. roots \subseteq O
      BY <1>1 DEF Generating
    <2>2. roots' = (IF t \in O THEN roots ELSE roots \cup {t}) \ (O \cap N)
      BY <1>1
    <2>3. roots' \subseteq DOMAIN objects'
      BY <1>7, <2>1, <2>2
    <2> QED
      BY <1>16, <2>2, <2>3
  <1>18. build_file_targets' = {x \in Seen' : x[1] \in project'.build_files}
    BY <1>12, <1>13 DEF Generating
  <1>19. IsList(matching_targets') /\ ToSet(matching_targets') = Seen' \cap ChangedTargets'
    <2>1. PICK m : m = matching_targets
      OBVIOUS
    <2>2. IsList(m) /\ ToSet(m) = Seen \cap ChangedTargets
      BY <2>1 DEF Generating
    <2>3. CASE Matches(t)
      <3>1. m \in Seq(ToSet(m) \cup {t})
        <4>1. m \in Seq(ToSet(m))
          BY <2>2, SeqOfList
        <4> QED
          BY <4>1, SeqWider
      <3>2. /\ Append(m, t) \in Seq(ToSet(m) \cup {t})
            /\ ToSet(Append(m, t)) = ToSet(m) \cup {t}
        BY <3>1, AppendSet
      <3>3. IsList(Append(m, t))
        BY <3>2, ListOfSeq
      <3> QED
        BY <1>12, <1>13, <1>14, <2>1, <2>2, <2>3, <3>2, <3>3
    <2>4. CASE ~Matches(t)
      BY <1>12, <1>13, <1>14, <2>1, <2>2, <2>4
    <2> QED
      BY <2>3, <2>4
  <1>20. /\ IsList(targets_to_visit') /\ ToSet(targets_to_visit') = ToSet(Front(l)) \cup N
    <2>1. PICK f, d, S : f = Front(l) /\ d = targets[t].dependencies /\ S = ToSet(f) \cup ToSet(d)
      OBVIOUS
    <2>2. f \in Seq(S)
      <3>1. f \in Seq(ToSet(f))
        BY <1>3, <2>1, SeqOfList
      <3> QED
        BY <2>1, <3>1, SeqWider
    <2>3. d \in Seq(S)
      <3>1. d \in Seq(ToSet(d))
        BY <1>4, <2>1, SeqOfList
      <3> QED
        BY <2>1, <3>1, SeqWider
    <2>4. f \o d \in Seq(S) /\ ToSet(f \o d) = ToSet(f) \cup ToSet(d)
      BY <2>2, <2>3, ConcatFacts
    <2>5. IsList(f \o d)
      BY <2>4, ListOfSeq
    <2> QED
      BY <1>1, <2>1, <2>4, <2>5
  <1>21. \A x \in Seen' : NeedsGraph'[x] \subseteq DOMAIN objects'
    BY <1>1, <1>4, <1>7, <1>12, <1>13 DEF Generating
  <1>22. DOMAIN objects' \subseteq DOMAIN targets'
    BY <1>1, <1>2, <1>3, <1>4, <1>7, <1>13
  <1>23. /\ ToSet(targets_to_visit') \subseteq DOMAIN targets'
         /\ DOMAIN targets' \subseteq ToSet(targets_to_visit') \cup Seen'
    BY <1>1, <1>2, <1>3, <1>4, <1>12, <1>13, <1>20
  <1>24. frames' = <<>> /\ matched_search_targets' = {} /\ build_targets' = {}
    BY DEF Generating
  <1> QED
    BY <1>16, <1>17, <1>18, <1>19, <1>20, <1>21, <1>22, <1>23, <1>24 DEF Generating

\* A round of _GenerateTargets keeps the invariant.
LEMMA VisitTargetInv ==
    ASSUME LoadInv, AnalyzerFacts, VisitTarget, UNCHANGED <<targetVars, graphVars>>
    PROVE  AnalyzerFacts'
  <1>1. /\ analyzing = "generate targets" /\ targets_to_visit # <<>> /\ analyzing' = analyzing
        /\ UNCHANGED <<frames, matched_search_targets, build_targets>>
    BY DEF VisitTarget
  <1>2. Generating /\ Loaded /\ stage = "loaded" /\ project.format = "analyzer"
    BY <1>1, LoadedFacts DEF AnalyzerFacts
  <1>3. PICK t : t = Last(targets_to_visit)
    OBVIOUS
  <1>4. t \in Seen <=> t \in DOMAIN objects /\ objects[t].visited
    BY DEF Seen
  <1>5. CASE t \in Seen
    <2>1. /\ targets_to_visit' = Front(targets_to_visit)
          /\ UNCHANGED <<objects, matching_targets, roots, build_file_targets>>
      BY <1>3, <1>4, <1>5 DEF VisitTarget
    <2>2. Generating'
      BY <1>1, <1>2, <1>3, <1>5, <2>1, VisitAgainInv
    <2> QED
      BY <1>1, <1>2, <2>2, PhaseFacts
  <1>6. CASE t \notin Seen
    <2>1. /\ targets_to_visit' = Front(targets_to_visit) \o targets[t].dependencies
          /\ objects' = Visited(t, targets[t])
          /\ roots' = (IF t \in DOMAIN objects THEN roots ELSE roots \cup {t})
                              \ (DOMAIN objects \cap ToSet(targets[t].dependencies))
          /\ build_file_targets' = IF t[1] \in project.build_files
                                       THEN build_file_targets \cup {t} ELSE build_file_targets
          /\ matching_targets' = IF Matches(t) THEN Append(matching_targets, t)
                                     ELSE matching_targets
      BY <1>3, <1>4, <1>6 DEF VisitTarget
    <2>2. Generating'
      BY <1>1, <1>2, <1>3, <1>6, <2>1, VisitNewInv
    <2> QED
      BY <1>1, <1>2, <2>2, PhaseFacts
  <1> QED
    BY <1>5, <1>6

\* When the stack is empty every target has its object, with all of its dependents.
LEMMA EndGenerateInv ==
    ASSUME LoadInv, AnalyzerFacts, EndGenerateTargets, UNCHANGED <<targetVars, graphVars>>
    PROVE  AnalyzerFacts'
  <1>1. /\ analyzing = "generate targets" /\ targets_to_visit = <<>>
        /\ roots' = roots \cap build_file_targets
        /\ analyzing' = IF matching_targets = <<>> THEN "done" ELSE "search"
        /\ UNCHANGED <<objects, targets_to_visit, matching_targets, build_file_targets, frames,
                       matched_search_targets, build_targets>>
    BY DEF EndGenerateTargets
  <1>2. PICK m \in [NamesFound -> DOMAIN objects] :
           /\ mapping' = m
           /\ to_search' = IF matching_targets = <<>> THEN {} ELSE {m[n] : n \in NamesFound}
    BY DEF EndGenerateTargets
  <1>3. Generating /\ Loaded /\ stage = "loaded" /\ project.format = "analyzer"
    BY <1>1, LoadedFacts DEF AnalyzerFacts
  <1>4. PICK D : D = DOMAIN targets
    OBVIOUS
  <1>5. DOMAIN objects = D /\ Seen = D
    <2>1. ToSet(targets_to_visit) = {}
      BY <1>1, ToSetOfEmpty
    <2> QED
      BY <1>3, <1>4, <2>1 DEF Generating, Seen
  <1>6. /\ targets' = targets /\ project' = project /\ NeedsGraph' = NeedsGraph
        /\ ChangedTargets' = ChangedTargets /\ \A x : Parents(x)' = Parents(x)
        /\ Roots' = Roots /\ Affected' = Affected
        /\ \A S : Below(S)' = Below(S)
    BY GraphIsFixed
  <1>7. Seen' = Seen
    BY <1>1 DEF Seen
  <1>8. \A x : Parents(x) \subseteq D
    BY <1>4 DEF Parents
  <1>9. ASSUME NEW t \in D
        PROVE  /\ DOMAIN objects'[t] = ObjectKeys /\ objects'[t].back_deps = Parents(t)'
               /\ Described(t)' /\ ~objects'[t].added_to_compile_targets
               /\ objects'[t].match_status = IF t \in ChangedTargets THEN "MATCHES" ELSE "TBD"
    <2>1. Generated(t) /\ Described(t)
      BY <1>3, <1>4, <1>5 DEF Generating, Generated
    <2>2. Parents(t) \cap Seen = Parents(t)
      BY <1>5, <1>8
    <2>3. Described(t)'
      BY <1>1, <1>6, <2>1 DEF Described
    <2> QED
      BY <1>1, <1>5, <1>6, <2>1, <2>2, <2>3 DEF Generated
  <1>10. roots' = Roots'
    <2>1. \A t \in D : objects[t].back_deps = Parents(t)
      BY <1>1, <1>6, <1>9
    <2>2. roots' = {t \in D : objects[t].back_deps = {} /\ t[1] \in project.build_files}
      BY <1>1, <1>3, <1>5 DEF Generating
    <2>3. \A t \in D : t \in TopTargets <=> Parents(t) = {}
      BY <1>4 DEF TopTargets, Parents
    <2>4. TopTargets \subseteq D
      BY <1>4 DEF TopTargets
    <2>5. Roots = {t \in D : Parents(t) = {} /\ t[1] \in project.build_files}
      BY <2>3, <2>4 DEF Roots
    <2> QED
      BY <1>6, <2>1, <2>2, <2>5
  <1>11. PICK names : names = {m[n] : n \in NamesFound}
    OBVIOUS
  <1>12. Named' = names /\ names \subseteq D
    BY <1>2, <1>5, <1>11 DEF Named
  <1>13. /\ IsList(matching_targets) /\ ToSet(matching_targets) = ChangedTargets
         /\ frames = <<>> /\ matched_search_targets = {} /\ build_targets = {}
    <2>1. ChangedTargets \subseteq D
      BY <1>4 DEF ChangedTargets
    <2> QED
      BY <1>3, <1>5, <2>1 DEF Generating
  <1>14. Complete'
    <2>1. IsList(<<>>)
      BY DEF IsList
    <2> QED
      BY <1>1, <1>4, <1>5, <1>6, <1>9, <1>10, <1>12, <1>13, <2>1 DEF Complete
  <1>15. DependsOn /\ ChangedTargets \subseteq Affected
    BY <1>3, AffectedFacts DEF Loaded
  <1>16. CASE matching_targets = <<>>
    <2>1. ChangedTargets = {}
      BY <1>13, <1>16, ToSetOfEmpty
    <2>2. Affected = {}
      BY <2>1 DEF Affected
    <2>3. Covers'
      BY <1>1, <1>6, <1>13, <2>1, <2>2 DEF Covers, NotTwice
    <2> QED
      BY <1>1, <1>3, <1>16, <2>3, PhaseFacts
  <1>17. CASE matching_targets # <<>>
    <2>1. ASSUME NEW t \in D PROVE StatusIsTrue(t)'
      <3>1. Matched(t)' <=> t \in ChangedTargets
        BY <1>9 DEF Matched
      <3> QED
        BY <1>6, <1>9, <1>15, <3>1 DEF StatusIsTrue
    <2>4. DOMAIN <<>> = {}
      OBVIOUS
    <2>5. to_search' = Named' /\ matched_search_targets' = {}
      BY <1>1, <1>2, <1>11, <1>12, <1>13, <1>17
    <2>2. to_search' = Named' /\ matched_search_targets' = {} /\ DOMAIN frames' = {}
      BY <1>1, <1>13, <2>4, <2>5
    <2>3. Searching'
      BY <1>1, <1>4, <1>6, <1>13, <1>14, <2>1, <2>2 DEF Searching
    <2> QED
      BY <1>1, <1>3, <1>17, <2>3, PhaseFacts
  <1> QED
    BY <1>16, <1>17

\* The walks leave the dictionaries alone, and of the objects only what they are about.
ObjectKept(t) ==
    /\ DOMAIN objects'[t] = ObjectKeys
    /\ \A k \in {"deps", "back_deps", "requires_build", "is_executable"} :
           objects'[t][k] = objects[t][k]

-----------------------------------------------------------------------------
(***************************************************************************)
(* The search for targets that depend on what has changed.                 *)
(***************************************************************************)
\* A step that changes nothing but marks of the objects leaves what the walks rely on.
LEMMA CompleteKept ==
    ASSUME Complete, UNCHANGED <<targetVars, graphVars>>,
           DOMAIN objects' = DOMAIN objects, \A t \in DOMAIN targets : ObjectKept(t),
           UNCHANGED <<roots, mapping>>, IsList(matching_targets'), IsList(frames')
    PROVE  Complete'
  <1>1. /\ targets' = targets /\ project' = project /\ NeedsGraph' = NeedsGraph /\ Roots' = Roots
        /\ \A x : Parents(x)' = Parents(x)
    BY GraphIsFixed
  <1>2. ASSUME NEW t \in DOMAIN targets
        PROVE  DOMAIN objects'[t] = ObjectKeys /\ objects'[t].back_deps = Parents(t)' /\ Described(t)'
    <2>1. /\ DOMAIN objects'[t] = ObjectKeys /\ objects'[t].back_deps = objects[t].back_deps
          /\ objects'[t].deps = objects[t].deps
          /\ objects'[t].requires_build = objects[t].requires_build
          /\ objects'[t].is_executable = objects[t].is_executable
      BY DEF ObjectKept
    <2>2. objects[t].back_deps = Parents(t) /\ Described(t)
      BY DEF Complete
    <2>3. Described(t)'
      BY <1>1, <2>1, <2>2 DEF Described
    <2>4. Parents(t)' = Parents(t)
      BY <1>1
    <2> QED
      BY <2>1, <2>2, <2>3, <2>4
  <1>3. Named' = Named
    BY DEF Named
  <1>4. DOMAIN objects' = DOMAIN targets' /\ roots' = Roots' /\ Named' \subseteq DOMAIN targets'
    BY <1>1, <1>3 DEF Complete
  <1> QED
    BY <1>1, <1>2, <1>4 DEF Complete

\* Lists of frames: one more, and a change of the last one.
Extends(e, l, f) ==
    /\ IsList(e) /\ DOMAIN e = 1..(Len(l) + 1) /\ DOMAIN l = 1..Len(l) /\ Len(l) \in Nat
    /\ \A i \in 1..Len(l) : e[i] = l[i]
    /\ e[Len(l) + 1] = f
Differs(e, l, f) ==
    /\ IsList(e) /\ DOMAIN e = 1..Len(l) /\ DOMAIN l = 1..Len(l) /\ Len(l) \in Nat \ {0}
    /\ \A i \in 1..(Len(l) - 1) : e[i] = l[i]
    /\ e[Len(l)] = f

\* A list with a frame more, and one with another last frame.
LEMMA AppendFrame ==
    ASSUME NEW l, IsList(l), NEW f
    PROVE  Extends(Append(l, f), l, f)
  <1>1. PICK S, n, e : S = ToSet(l) \cup {f} /\ n = Len(l) /\ e = Append(l, f)
    OBVIOUS
  <1>2. l \in Seq(ToSet(l)) /\ n \in Nat /\ DOMAIN l = 1..n
    BY <1>1, SeqOfList
  <1>3. l \in Seq(S)
    BY <1>1, <1>2, SeqWider
  <1>4. e \in Seq(S) /\ Len(e) = n + 1 /\ e[n + 1] = f /\ \A i \in 1..n : e[i] = l[i]
    BY <1>1, <1>2, <1>3
  <1>5. IsList(e) /\ DOMAIN e = 1..(n + 1)
    BY <1>2, <1>4, ListOfSeq
  <1> QED
    BY <1>1, <1>2, <1>4, <1>5 DEF Extends

\* A function on 1..n is a sequence.
LEMMA SeqOfFunction ==
    ASSUME NEW S, NEW n \in Nat, NEW e \in [1..n -> S]
    PROVE  e \in Seq(S)
  OBVIOUS

LEMMA ChangeLast ==
    ASSUME NEW l, IsList(l), l # <<>>, NEW f
    PROVE  Differs([l EXCEPT ![Len(l)] = f], l, f)
  <1>1. PICK n, e : n = Len(l) /\ e = [l EXCEPT ![Len(l)] = f]
    OBVIOUS
  <1>2. n \in Nat \ {0} /\ DOMAIN l = 1..n
    BY <1>1, FrontFacts
  <1>3. DOMAIN e = 1..n /\ e[n] = f /\ \A i \in 1..(n - 1) : e[i] = l[i]
    BY <1>1, <1>2
  <1>4. e = [i \in 1..n |-> e[i]]
    BY <1>1, <1>2, <1>3
  <1>5. PICK S : S = {e[i] : i \in 1..n}
    OBVIOUS
  <1>6. e \in Seq(S)
    <2>1. e \in [1..n -> S]
      BY <1>4, <1>5
    <2>2. n \in Nat
      BY <1>2
    <2> QED
      BY <2>1, <2>2, SeqOfFunction
  <1>7. IsList(e)
    BY <1>6, ListOfSeq
  <1> QED
    BY <1>1, <1>2, <1>3, <1>7 DEF Differs

\* What is said of an object that a step leaves alone, and of a frame.
LEMMA SearchStays ==
    ASSUME UNCHANGED <<targetVars, graphVars>>
    PROVE  \A t : objects'[t] = objects[t] /\ StatusIsTrue(t) => StatusIsTrue(t)'
  <1>1. /\ targets' = targets /\ NeedsGraph' = NeedsGraph /\ ChangedTargets' = ChangedTargets
        /\ Affected' = Affected
    BY GraphIsFixed
  <1>2. ASSUME NEW t, objects'[t] = objects[t], StatusIsTrue(t) PROVE StatusIsTrue(t)'
    BY <1>1, <1>2 DEF StatusIsTrue, Matched
  <1> QED
    BY <1>2

\* Frames are as true as they were while the graph stays.
LEMMA FramesStay ==
    ASSUME UNCHANGED <<targetVars, graphVars>>, NEW fs, fs = frames',
           \A i \in DOMAIN fs : LookedFor(fs[i])
    PROVE  (\A i \in DOMAIN frames : LookedFor(frames[i]))'
  <1>1. /\ targets' = targets /\ NeedsGraph' = NeedsGraph /\ ChangedTargets' = ChangedTargets
        /\ Affected' = Affected
    BY GraphIsFixed
  <1> QED
    BY <1>1 DEF LookedFor

\* Calling _DoesTargetDependOn for a target of which nothing is known.
LEMMA NewFrame ==
    ASSUME Searching, DependsOn, NEW t \in DOMAIN targets, objects[t].match_status = "TBD",
           NEW f, f = Frame(t, FALSE, objects[t].deps)
    PROVE  LookedFor(f)
  <1>1. f.target = t /\ f.todo = objects[t].deps /\ DOMAIN f = FrameKeys
    BY DEF Frame, FrameKeys
  <1>2. t \notin ChangedTargets
    BY DEF Searching, StatusIsTrue
  <1>3. objects[t].deps = NeedsGraph[t]
    BY DEF Searching, Complete, Described
  <1> QED
    BY <1>1, <1>2, <1>3 DEF LookedFor

\* _GetTargetsDependingOn takes the next target, or finds out about it.
LEMMA SearchTargetInv ==
    ASSUME LoadInv, AnalyzerFacts, SearchTarget, UNCHANGED <<targetVars, graphVars>>
    PROVE  AnalyzerFacts'
  <1>1. /\ analyzing = "search" /\ analyzing' = analyzing /\ frames = <<>>
        /\ UNCHANGED <<objects, matching_targets, build_targets, roots, mapping>>
    BY DEF SearchTarget, Doing
  <1>2. Searching /\ Loaded /\ stage = "loaded" /\ project.format = "analyzer"
    BY <1>1, LoadedFacts DEF AnalyzerFacts
  <1>3. PICK D : D = DOMAIN targets
    OBVIOUS
  <1>4. targets' = targets /\ ChangedTargets' = ChangedTargets /\ Affected' = Affected
    BY GraphIsFixed
  <1>5. Named' = Named
    BY <1>1 DEF Named
  <1>6. \A x \in D : StatusIsTrue(x)'
    BY <1>1, <1>2, <1>3, SearchStays DEF Searching
  <1>7. IsList(frames') => Complete'
    <2>1. \A x \in D : ObjectKept(x)
      BY <1>1, <1>2, <1>3 DEF ObjectKept, Searching, Complete
    <2>2. Complete /\ IsList(matching_targets')
      BY <1>1, <1>2 DEF Searching, Complete
    <2> QED
      BY <1>1, <1>3, <2>1, <2>2, CompleteKept
  <1>8. PICK t \in to_search :
         IF objects[t].match_status = "TBD"
         THEN /\ frames' = <<Frame(t, FALSE, objects[t].deps)>>
              /\ UNCHANGED <<to_search, matched_search_targets>>
         ELSE /\ to_search' = to_search \ {t}
              /\ matched_search_targets' = IF Matched(t) THEN matched_search_targets \cup {t}
                                           ELSE matched_search_targets
              /\ UNCHANGED frames
    BY DEF SearchTarget
  <1>9. t \in D /\ t \in Named /\ StatusIsTrue(t)
    BY <1>2, <1>3, <1>8 DEF Searching, Complete
  <1>10. CASE objects[t].match_status = "TBD"
    <2>1. PICK f : f = Frame(t, FALSE, objects[t].deps)
      OBVIOUS
    <2>2. LookedFor(f)
      BY <1>2, <1>3, <1>9, <1>10, <2>1, NewFrame DEF Loaded
    <2>3. frames' = <<f>> /\ UNCHANGED <<to_search, matched_search_targets>>
      BY <1>8, <1>10, <2>1
    <2>4. IsList(<<f>>) /\ DOMAIN <<f>> = {1} /\ <<f>>[1] = f
      BY DEF IsList
    <2>7. \A i \in DOMAIN <<f>> : LookedFor(<<f>>[i])
      BY <2>2, <2>4
    <2>5. (\A i \in DOMAIN frames : LookedFor(frames[i]))'
      BY <2>3, <2>7, FramesStay
    <2>6. Searching'
      BY <1>1, <1>2, <1>3, <1>4, <1>5, <1>6, <1>7, <2>3, <2>4, <2>5 DEF Searching
    <2> QED
      BY <1>1, <1>2, <2>6, PhaseFacts
  <1>11. CASE objects[t].match_status # "TBD"
    <2>1. /\ to_search' = to_search \ {t} /\ UNCHANGED frames
          /\ matched_search_targets' = IF Matched(t) THEN matched_search_targets \cup {t}
                                       ELSE matched_search_targets
      BY <1>8, <1>11
    <2>2. Matched(t) <=> t \in Affected
      BY <1>9, <1>11 DEF StatusIsTrue, Matched
    <2>3. matched_search_targets' = (Named \ to_search') \cap Affected
      <3>1. matched_search_targets = (Named \ to_search) \cap Affected
        BY <1>2 DEF Searching
      <3> QED
        BY <1>8, <1>9, <2>1, <2>2, <3>1
    <2>6. IsList(frames) /\ \A i \in DOMAIN frames : LookedFor(frames[i])
      BY <1>2 DEF Searching, Complete
    <2>4. IsList(frames') /\ (\A i \in DOMAIN frames : LookedFor(frames[i]))'
      BY <2>1, <2>6, FramesStay
    <2>5. Searching'
      BY <1>1, <1>2, <1>3, <1>4, <1>5, <1>6, <1>7, <2>1, <2>3, <2>4 DEF Searching
    <2> QED
      BY <1>1, <1>2, <2>5, PhaseFacts
  <1> QED
    BY <1>10, <1>11

\* A frame is left with an answer for its target.
LEMMA AnswerInv ==
    ASSUME LoadInv, AnalyzerFacts, UNCHANGED <<targetVars, graphVars>>,
           analyzing = "search", frames # <<>>, frames' = Front(frames),
           NEW s, objects' = [objects EXCEPT ![Top.target].match_status = s],
           \/ s = "MATCHES_BY_DEPENDENCY" /\ Top.target \in Affected
           \/ s = "DOESNT_MATCH" /\ Top.target \notin Affected,
           UNCHANGED <<analyzing, matching_targets, to_search, matched_search_targets,
                       build_targets, roots, mapping>>
    PROVE  AnalyzerFacts'
  <1>1. Searching /\ Loaded /\ stage = "loaded" /\ project.format = "analyzer"
    BY LoadedFacts DEF AnalyzerFacts
  <1>2. PICK D, fs, t : D = DOMAIN targets /\ fs = frames /\ t = Top.target
    OBVIOUS
  <1>3. IsList(fs) /\ fs # <<>> /\ \A i \in DOMAIN fs : LookedFor(fs[i])
    BY <1>1, <1>2 DEF Searching, Complete
  <1>4. /\ IsList(Front(fs)) /\ Len(fs) \in Nat \ {0} /\ DOMAIN fs = 1..Len(fs)
        /\ DOMAIN Front(fs) = 1..(Len(fs) - 1)
        /\ \A i \in 1..(Len(fs) - 1) : Front(fs)[i] = fs[i]
        /\ Last(fs) = fs[Len(fs)]
    BY <1>3, FrontFacts
  <1>5. LookedFor(Last(fs))
    BY <1>3, <1>4
  <1>6. t \in D /\ t \notin ChangedTargets
    BY <1>2, <1>5 DEF Top, LookedFor
  <1>7. /\ DOMAIN objects = D /\ DOMAIN objects[t] = ObjectKeys
        /\ \A x \in D : DOMAIN objects[x] = ObjectKeys
    BY <1>1, <1>2, <1>6 DEF Searching, Complete
  <1>8. DOMAIN objects' = D /\ \A x \in D : x # t => objects'[x] = objects[x]
    BY <1>2, <1>7
  <1>9. objects'[t] = [objects[t] EXCEPT !.match_status = s]
    BY <1>2, <1>6, <1>7
  <1>10. /\ DOMAIN objects'[t] = ObjectKeys /\ objects'[t].match_status = s
         /\ \A k \in ObjectKeys \ {"match_status"} : objects'[t][k] = objects[t][k]
    <2>1. PICK a, e : a = objects[t] /\ e = objects'[t]
      OBVIOUS
    <2>2. e = [a EXCEPT !.match_status = s] /\ DOMAIN a = ObjectKeys
      BY <1>7, <1>9, <2>1
    <2>3. /\ DOMAIN e = ObjectKeys /\ e.match_status = s
          /\ \A k \in ObjectKeys \ {"match_status"} : e[k] = a[k]
      BY <2>2 DEF ObjectKeys
    <2> QED
      BY <2>1, <2>3
  <1>11. \A x \in D : ObjectKept(x)
    <2>1. ObjectKept(t)
      BY <1>10 DEF ObjectKept, ObjectKeys
    <2>2. \A x \in D : x # t => ObjectKept(x)
      BY <1>7, <1>8 DEF ObjectKept
    <2> QED
      BY <2>1, <2>2
  <1>12. IsList(frames') /\ (\A i \in DOMAIN frames : LookedFor(frames[i]))'
    <2>1. \A i \in 1..(Len(fs) - 1) : i \in DOMAIN fs
      BY <1>4
    <2>2. \A i \in DOMAIN Front(fs) : LookedFor(Front(fs)[i])
      BY <1>3, <1>4, <2>1
    <2> QED
      BY <1>2, <1>4, <2>2, FramesStay
  <1>13. Complete'
    <2>1. Complete /\ IsList(matching_targets')
      BY <1>1 DEF Searching, Complete
    <2> QED
      BY <1>2, <1>7, <1>8, <1>11, <1>12, <2>1, CompleteKept
  <1>14. targets' = targets /\ ChangedTargets' = ChangedTargets /\ Affected' = Affected
    BY GraphIsFixed
  <1>15. Named' = Named
    BY DEF Named
  <1>16. ASSUME NEW x \in D PROVE StatusIsTrue(x)'
    <2>0. StatusIsTrue(x)
      BY <1>1, <1>2 DEF Searching
    <2>1. CASE x # t
      BY <1>8, <2>0, <2>1, SearchStays
    <2>2. CASE x = t
      <3>1. objects'[t].added_to_compile_targets = objects[t].added_to_compile_targets
        BY <1>10 DEF ObjectKeys
      <3>2. Matched(t)' <=> s = "MATCHES_BY_DEPENDENCY"
        BY <1>2, <1>10 DEF Matched
      <3> QED
        BY <1>2, <1>6, <1>10, <1>14, <2>0, <2>2, <3>1, <3>2 DEF StatusIsTrue
    <2> QED
      BY <2>1, <2>2
  <1>17. Searching'
    BY <1>1, <1>2, <1>12, <1>13, <1>14, <1>15, <1>16 DEF Searching
  <1> QED
    BY <1>1, <1>17, PhaseFacts

\* A frame is added or changed, and nothing else.
LEMMA FrameInv ==
    ASSUME AnalyzerFacts, UNCHANGED <<targetVars, graphVars>>, analyzing = "search",
           NEW fs, fs = frames', IsList(fs), \A i \in DOMAIN fs : LookedFor(fs[i]),
           UNCHANGED <<analyzing, objects, matching_targets, to_search, matched_search_targets,
                       build_targets, roots, mapping>>
    PROVE  AnalyzerFacts'
  <1>1. Searching /\ stage = "loaded" /\ project.format = "analyzer"
    BY DEF AnalyzerFacts
  <1>2. PICK D : D = DOMAIN targets
    OBVIOUS
  <1>3. (\A i \in DOMAIN frames : LookedFor(frames[i]))'
    BY FramesStay
  <1>4. Complete'
    <2>1. \A x \in D : ObjectKept(x)
      BY <1>1, <1>2 DEF ObjectKept, Searching, Complete
    <2>2. Complete /\ IsList(matching_targets')
      BY <1>1 DEF Searching, Complete
    <2> QED
      BY <1>2, <2>1, <2>2, CompleteKept
  <1>5. targets' = targets /\ ChangedTargets' = ChangedTargets /\ Affected' = Affected
    BY GraphIsFixed
  <1>6. Named' = Named
    BY DEF Named
  <1>7. \A x \in D : StatusIsTrue(x)'
    BY <1>1, <1>2, SearchStays DEF Searching
  <1>8. Searching'
    BY <1>1, <1>2, <1>3, <1>4, <1>5, <1>6, <1>7 DEF Searching
  <1> QED
    BY <1>1, <1>8, PhaseFacts

\* What is known of the last frame.
LEMMA TopFacts ==
    ASSUME Searching, frames # <<>>, NEW f, f = Top
    PROVE  /\ LookedFor(f) /\ IsList(frames) /\ f = frames[Len(frames)]
           /\ Len(frames) \in Nat \ {0} /\ DOMAIN frames = 1..Len(frames)
  <1>1. PICK fs : fs = frames
    OBVIOUS
  <1>2. IsList(fs) /\ fs # <<>> /\ \A i \in DOMAIN fs : LookedFor(fs[i])
    BY <1>1 DEF Searching, Complete
  <1>3. Len(fs) \in Nat \ {0} /\ DOMAIN fs = 1..Len(fs) /\ Last(fs) = fs[Len(fs)]
    BY <1>2, FrontFacts
  <1>4. LookedFor(fs[Len(fs)])
    BY <1>2, <1>3
  <1> QED
    BY <1>1, <1>2, <1>3, <1>4 DEF Top

\* _DoesTargetDependOn looks at a dependency.
LEMMA DependOnInv ==
    ASSUME LoadInv, AnalyzerFacts, DoesTargetDependOn, UNCHANGED <<targetVars, graphVars>>
    PROVE  AnalyzerFacts'
  <1>1. /\ analyzing = "search" /\ analyzing' = analyzing /\ frames # <<>>
        /\ UNCHANGED <<matching_targets, to_search, matched_search_targets, build_targets,
                       roots, mapping>>
    BY DEF DoesTargetDependOn, Doing
  <1>2. Searching /\ Loaded /\ stage = "loaded" /\ project.format = "analyzer"
    BY <1>1, LoadedFacts DEF AnalyzerFacts
  <1>3. PICK fs, n, f, g : fs = frames /\ n = Len(frames) /\ f = Top /\ g = frames'
    OBVIOUS
  <1>4. LookedFor(f) /\ IsList(fs) /\ f = fs[n] /\ n \in Nat \ {0} /\ DOMAIN fs = 1..n
    BY <1>1, <1>2, <1>3, TopFacts
  <1>5. /\ DOMAIN f = FrameKeys /\ f.target \in DOMAIN targets /\ f.target \notin ChangedTargets
        /\ f.todo \subseteq NeedsGraph[f.target]
        /\ (NeedsGraph[f.target] \ f.todo) \cap Affected = {}
    BY <1>4 DEF LookedFor
  <1>6. DependsOn /\ NeedsGraph[f.target] \subseteq DOMAIN targets
    BY <1>2, <1>5 DEF Loaded, DependsOn
  <1>7. \A i \in 1..n : LookedFor(fs[i])
    BY <1>2, <1>3, <1>4 DEF Searching
  <1>8. PICK dep \in f.todo :
         CASE objects[dep].match_status = "TBD" ->
                frames' = Append(frames, Frame(dep, FALSE, objects[dep].deps)) /\ UNCHANGED objects
           [] objects[dep].match_status = "DOESNT_MATCH" ->
                frames' = Looked(dep) /\ UNCHANGED objects
           [] OTHER ->
                /\ frames' = Front(frames)
                /\ objects' = [objects EXCEPT ![Top.target].match_status = "MATCHES_BY_DEPENDENCY"]
    BY <1>3 DEF DoesTargetDependOn
  <1>9. dep \in DOMAIN targets /\ StatusIsTrue(dep)
    BY <1>2, <1>5, <1>6 DEF Searching
  <1>10. CASE objects[dep].match_status = "TBD"
    <2>1. PICK h : h = Frame(dep, FALSE, objects[dep].deps)
      OBVIOUS
    <2>2. g = Append(fs, h) /\ UNCHANGED objects
      BY <1>3, <1>8, <1>10, <2>1
    <2>3. LookedFor(h)
      BY <1>2, <1>6, <1>9, <1>10, <2>1, NewFrame
    <2>4. /\ IsList(g) /\ DOMAIN g = 1..(n + 1) /\ \A i \in 1..n : g[i] = fs[i]
          /\ g[n + 1] = h
      <3>1. IsList(fs) /\ n = Len(fs)
        BY <1>3, <1>4
      <3>2. /\ IsList(g) /\ DOMAIN g = 1..(Len(fs) + 1) /\ \A i \in 1..Len(fs) : g[i] = fs[i]
            /\ g[Len(fs) + 1] = h
        <4>1. Extends(Append(fs, h), fs, h)
          BY <3>1, AppendFrame
        <4> QED
          BY <2>2, <4>1 DEF Extends
      <3> QED
        BY <3>1, <3>2
    <2>5. \A i \in 1..(n + 1) : i \in 1..n \/ i = n + 1
      BY <1>4
    <2>6. \A i \in DOMAIN g : LookedFor(g[i])
      BY <1>7, <2>3, <2>4, <2>5
    <2> QED
      BY <1>1, <1>3, <2>2, <2>4, <2>6, FrameInv
  <1>11. CASE objects[dep].match_status = "DOESNT_MATCH"
    <2>1. g = Looked(dep) /\ UNCHANGED objects
      BY <1>3, <1>8, <1>11
    <2>2. PICK h : h = [f EXCEPT !.todo = @ \ {dep}]
      OBVIOUS
    <2>3. DOMAIN h = FrameKeys /\ h.target = f.target /\ h.todo = f.todo \ {dep}
      BY <1>5, <2>2 DEF FrameKeys
    <2>4. dep \notin Affected
      BY <1>9, <1>11 DEF StatusIsTrue
    <2>5. LookedFor(h)
      BY <1>5, <2>3, <2>4 DEF LookedFor
    <2>6. g = [fs EXCEPT ![n] = h]
      BY <1>3, <1>4, <2>1, <2>2 DEF Looked
    <2>7. /\ IsList(g) /\ DOMAIN g = 1..n /\ \A i \in 1..(n - 1) : g[i] = fs[i]
          /\ g[n] = h
      <3>1. IsList(fs) /\ n = Len(fs) /\ fs # <<>>
        BY <1>1, <1>3, <1>4
      <3>2. g = [fs EXCEPT ![Len(fs)] = h]
        BY <2>6, <3>1
      <3>3. /\ IsList(g) /\ DOMAIN g = 1..Len(fs) /\ \A i \in 1..(Len(fs) - 1) : g[i] = fs[i]
            /\ g[Len(fs)] = h
        <4>1. Differs([fs EXCEPT ![Len(fs)] = h], fs, h)
          BY <3>1, ChangeLast
        <4> QED
          BY <3>2, <4>1 DEF Differs
      <3> QED
        BY <3>1, <3>3
    <2>8. \A i \in 1..n : i \in 1..(n - 1) \/ i = n
      BY <1>4
    <2>9. \A i \in DOMAIN g : LookedFor(g[i])
      BY <1>7, <2>5, <2>7, <2>8
    <2> QED
      BY <1>1, <1>3, <2>1, <2>7, <2>9, FrameInv
  <1>12. CASE objects[dep].match_status \notin {"TBD", "DOESNT_MATCH"}
    <2>1. /\ frames' = Front(frames)
          /\ objects' = [objects EXCEPT ![Top.target].match_status = "MATCHES_BY_DEPENDENCY"]
      BY <1>8, <1>12
    <2>2. dep \in Affected
      BY <1>9, <1>12 DEF StatusIsTrue, Matched
    <2>3. f.target \in Affected
      <3>1. NeedsGraph[f.target] \cap Affected # {}
        BY <1>5, <2>2
      <3> QED
        BY <1>5, <1>6, <3>1, AffectedFacts
    <2> QED
      BY <1>1, <1>3, <2>1, <2>3, AnswerInv
  <1> QED
    BY <1>10, <1>11, <1>12

\* _DoesTargetDependOn has looked at all of them.
LEMMA NoDependencyInv ==
    ASSUME LoadInv, AnalyzerFacts, NoDependencyMatches, UNCHANGED <<targetVars, graphVars>>
    PROVE  AnalyzerFacts'
  <1>1. /\ analyzing = "search" /\ analyzing' = analyzing /\ frames # <<>> /\ Top.todo = {}
        /\ frames' = Front(frames)
        /\ objects' = [objects EXCEPT ![Top.target].match_status = "DOESNT_MATCH"]
        /\ UNCHANGED <<matching_targets, to_search, matched_search_targets, build_targets,
                       roots, mapping>>
    BY DEF NoDependencyMatches, Doing
  <1>2. Searching /\ Loaded
    BY <1>1, LoadedFacts DEF AnalyzerFacts
  <1>3. PICK f : f = Top
    OBVIOUS
  <1>4. LookedFor(f)
    BY <1>1, <1>2, <1>3, TopFacts
  <1>5. /\ f.target \in DOMAIN targets /\ f.target \notin ChangedTargets
        /\ NeedsGraph[f.target] \cap Affected = {}
    BY <1>1, <1>3, <1>4 DEF LookedFor
  <1>6. f.target \notin Affected
    BY <1>2, <1>5, AffectedFacts DEF Loaded
  <1> QED
    BY <1>1, <1>3, <1>6, AnswerInv

\* Nobody has been visited, so nothing has been said yet of what is built.
LEMMA EndSearchInv ==
    ASSUME LoadInv, AnalyzerFacts, EndSearch, UNCHANGED <<targetVars, graphVars>>
    PROVE  AnalyzerFacts'
  <1>1. /\ analyzing = "search" /\ analyzing' = "build targets" /\ frames = <<>> /\ to_search = {}
        /\ objects' = ResetVisited
        /\ UNCHANGED <<matching_targets, roots, mapping, frames, matched_search_targets,
                       build_targets>>
    BY DEF EndSearch
  <1>2. Searching /\ Loaded /\ stage = "loaded" /\ project.format = "analyzer"
    BY <1>1, LoadedFacts DEF AnalyzerFacts
  <1>3. PICK D : D = DOMAIN targets
    OBVIOUS
  <1>4. DOMAIN objects = D /\ \A x \in D : DOMAIN objects[x] = ObjectKeys
    BY <1>2, <1>3 DEF Searching, Complete
  <1>5. DOMAIN objects' = D /\ \A x \in D : objects'[x] = [objects[x] EXCEPT !.visited = FALSE]
    BY <1>1, <1>4 DEF ResetVisited
  <1>6. ASSUME NEW x \in D
        PROVE  /\ DOMAIN objects'[x] = ObjectKeys /\ objects'[x].visited = FALSE
               /\ \A k \in ObjectKeys \ {"visited"} : objects'[x][k] = objects[x][k]
    <2>1. PICK a, e : a = objects[x] /\ e = objects'[x]
      OBVIOUS
    <2>2. e = [a EXCEPT !.visited = FALSE] /\ DOMAIN a = ObjectKeys
      BY <1>4, <1>5, <2>1
    <2>3. /\ DOMAIN e = ObjectKeys /\ e.visited = FALSE
          /\ \A k \in ObjectKeys \ {"visited"} : e[k] = a[k]
      BY <2>2 DEF ObjectKeys
    <2> QED
      BY <2>1, <2>3
  <1>7. Seen' = {}
    BY <1>5, <1>6 DEF Seen
  <1>8. Complete'
    <2>1. \A x \in D : ObjectKept(x)
      BY <1>6 DEF ObjectKept, ObjectKeys
    <2>2. Complete /\ IsList(matching_targets') /\ IsList(frames')
      BY <1>1, <1>2 DEF Searching, Complete
    <2> QED
      BY <1>1, <1>3, <1>4, <1>5, <2>1, <2>2, CompleteKept
  <1>9. \A x \in D : ~objects'[x].added_to_compile_targets
    <2>1. \A x \in D : ~objects[x].added_to_compile_targets
      BY <1>2, <1>3 DEF Searching, StatusIsTrue
    <2>2. "added_to_compile_targets" \in ObjectKeys \ {"visited"}
      BY DEF ObjectKeys
    <2> QED
      BY <1>6, <2>1, <2>2
  <1>10. DOMAIN frames' = {}
    <2>1. DOMAIN <<>> = {}
      OBVIOUS
    <2> QED
      BY <1>1, <2>1
  <1>11. Finished' = {} /\ Named' = Named
    BY <1>1, <1>7 DEF Finished, Named
  <1>12. targets' = targets /\ ChangedTargets' = ChangedTargets /\ Affected' = Affected
    BY GraphIsFixed
  <1>13. matched_search_targets = Named \cap Affected
    BY <1>1, <1>2 DEF Searching
  <1>14. build_targets' = {} /\ ToSet(matching_targets') = ChangedTargets
    BY <1>1, <1>2 DEF Searching
  <1>15. Building'
    BY <1>1, <1>3, <1>7, <1>8, <1>9, <1>10, <1>11, <1>12, <1>13, <1>14 DEF Building, Ordered, NotTwice, Active
  <1> QED
    BY <1>1, <1>2, <1>15, PhaseFacts

-----------------------------------------------------------------------------
(***************************************************************************)
(* The targets to be built.                                                *)
(***************************************************************************)
\* A step of _AddBuildTargets, in terms of what it leads to: the objects o, the visited
\* targets S, the finished ones F, the frames g and the targets B to be built.
LEMMA BuildingNext ==
    ASSUME Building, UNCHANGED <<targetVars, graphVars>>,
           NEW o, NEW S, NEW F, NEW g, NEW B, NEW A,
           o = objects', S = Seen', A = Active', F = S \ A, g = frames', B = build_targets',
           Complete', UNCHANGED <<mapping, matched_search_targets>>,
           \A t \in DOMAIN targets \ S : ~o[t].added_to_compile_targets,
           \A t \in F : Right(o[t], t, F, B),
           \A i \in DOMAIN g : Handed(o[g[i].target], g[i], F, B),
           Ordered(g), A \subseteq S, S \subseteq Affected, B \subseteq F, NotTwice(B),
           ToSet(matching_targets') \subseteq ChangedTargets,
           ChangedTargets \subseteq S \cup ToSet(matching_targets')
    PROVE  Building'
  <1>1. /\ targets' = targets /\ project' = project /\ Roots' = Roots /\ Affected' = Affected
        /\ ChangedTargets' = ChangedTargets
        /\ \A t : NeededBy(t)' = NeededBy(t) /\ Parents(t)' = Parents(t)
        /\ \A t : Position(t)' = Position(t)
    BY GraphIsFixed
  <1>2. F = Finished' /\ Named' = Named
    BY DEF Finished, Named
  <1>3. \A x : x \in Below(build_targets)' <=> x \in Below(B)
    BY <1>1 DEF Below
  <1>4. \A x : x \in Below(Roots)' <=> x \in Below(Roots)
    BY <1>1 DEF Below
  <1>5. (\A t \in Finished : Right(objects[t], t, Finished, build_targets))'
    BY <1>1, <1>2, <1>3, <1>4 DEF Right, DoesTargetTypeRequireBuild
  <1>6. (\A i \in DOMAIN frames :
            Handed(objects[frames[i].target], frames[i], Finished, build_targets))'
    BY <1>1, <1>2, <1>3, <1>4 DEF Handed
  <1>7. Ordered(frames)'
    BY <1>1 DEF Ordered
  <1>8. NotTwice(build_targets)'
    BY <1>1 DEF NotTwice
  <1>9. (matched_search_targets = Named \cap Affected)'
    BY <1>1, <1>2 DEF Building
  <1> QED
    BY <1>1, <1>2, <1>5, <1>6, <1>7, <1>8, <1>9 DEF Building

\* What is finished stays right, and a frame true, when nothing that is said of it changes.
LEMMA RightStays ==
    ASSUME NEW o, NEW t, NEW F, NEW B, NEW G, NEW C, Right(o, t, F, B), F \subseteq G, B \subseteq C,
           t \in Below(C) <=> t \in Below(B)
    PROVE  Right(o, t, G, C)
  BY DEF Right

\* What a frame has handed down is about finished targets only.
LEMMA HandedStays ==
    ASSUME NEW o, NEW f, NEW F, NEW B, NEW G, NEW C, Handed(o, f, F, B), F \subseteq G,
           \A b \in F : b \in Below(C) <=> b \in Below(B)
    PROVE  Handed(o, f, G, C)
  <1>1. \A b \in Parents(f.target) \ f.todo : b \in F
    BY DEF Handed
  <1>2. \A b \in Parents(f.target) \ f.todo : b \in Below(C) <=> b \in Below(B)
    BY <1>1
  <1> QED
    BY <1>2 DEF Handed

\* The frames of the recursion.
LEMMA BuildFrames ==
    ASSUME Building, frames # <<>>, NEW fs, NEW n, NEW f, fs = frames, n = Len(fs), f = Top
    PROVE  /\ IsList(fs) /\ fs # <<>> /\ n \in Nat \ {0} /\ DOMAIN fs = 1..n /\ f = fs[n]
           /\ Handed(objects[f.target], f, Finished, build_targets)
           /\ f.target \in Active /\ f.target \in Seen
  <1>1. IsList(fs) /\ fs # <<>>
    BY DEF Building, Complete
  <1>2. n \in Nat \ {0} /\ DOMAIN fs = 1..n /\ Last(fs) = fs[n]
    <2>1. Len(fs) \in Nat \ {0} /\ DOMAIN fs = 1..Len(fs) /\ Last(fs) = fs[Len(fs)]
      BY <1>1, FrontFacts
    <2> QED
      BY <2>1
  <1>3. n \in DOMAIN fs /\ f = fs[n]
    BY <1>2 DEF Top
  <1>4. f.target \in Active
    BY <1>3 DEF Active
  <1>5. Handed(objects[f.target], f, Finished, build_targets)
    BY <1>3 DEF Building
  <1> QED
    BY <1>1, <1>2, <1>3, <1>4, <1>5 DEF Building

\* The targets of the frames are listed before what depends on the innermost one.
LEMMA FramesBelow ==
    ASSUME Building, Loaded, frames # <<>>, NEW b \in Parents(Top.target)
    PROVE  /\ b \in DOMAIN targets /\ b \in Affected /\ b \notin Active
           /\ \A i \in DOMAIN frames : Position(frames[i].target) < Position(b)
  <1>1. PICK fs, n, f : fs = frames /\ n = Len(fs) /\ f = Top
    OBVIOUS
  <1>2. /\ n \in Nat \ {0} /\ DOMAIN fs = 1..n /\ f = fs[n] /\ f.target \in Seen
    BY <1>1, BuildFrames
  <1>3. b \in DOMAIN targets /\ f.target \in NeedsGraph[b] /\ f.target \in Affected
    BY <1>1, <1>2 DEF Parents, Building
  <1>4. DependsOn /\ Affected \subseteq DOMAIN targets
    BY AffectedFacts DEF Loaded
  <1>5. Position(f.target) < Position(b) /\ Position(b) \in Nat /\ Position(f.target) \in Nat
    BY <1>3, <1>4 DEF Loaded
  <1>6. b \in Affected
    BY <1>1, <1>3, <1>4, AffectedFacts
  <1>7. ASSUME NEW i \in 1..n PROVE Position(fs[i].target) < Position(b)
    <2>1. CASE i = n
      BY <1>2, <1>5, <2>1
    <2>2. CASE i # n
      <3>1. i < n /\ n \in 1..n
        BY <1>2, <2>2
      <3>2. Position(fs[i].target) < Position(fs[n].target)
        BY <1>1, <1>2, <3>1 DEF Building, Ordered
      <3>3. fs[i].target \in DOMAIN targets
        <4>1. fs[i].target \in Active
          BY <1>1, <1>2 DEF Active
        <4> QED
          BY <1>4, <4>1 DEF Building
      <3>4. Position(fs[i].target) \in Nat
        BY <3>3 DEF Loaded
      <3> QED
        BY <1>2, <1>5, <3>2, <3>4
    <2> QED
      BY <2>1, <2>2
  <1>8. b \notin Active
    <2>1. SUFFICES ASSUME NEW i \in 1..n, fs[i].target = b PROVE FALSE
      BY <1>1, <1>2 DEF Active
    <2> QED
      BY <1>5, <1>7, <2>1
  <1> QED
    BY <1>1, <1>2, <1>3, <1>6, <1>7, <1>8

\* The object of a target for which _AddBuildTargets is called.
LEMMA EnterObjects ==
    ASSUME Complete, NEW b \in DOMAIN targets, NEW add, Enter(b, add)
    PROVE  /\ DOMAIN objects' = DOMAIN targets
           /\ \A x \in DOMAIN targets : x # b => objects'[x] = objects[x]
           /\ DOMAIN objects'[b] = ObjectKeys /\ objects'[b].visited
           /\ objects'[b].in_roots <=> Parents(b) = {} /\ b \in Roots
           /\ \A k \in ObjectKeys \ {"visited", "in_roots"} : objects'[b][k] = objects[b][k]
  <1>1. PICK r : r = (objects[b].back_deps = {} /\ b \in roots)
    OBVIOUS
  <1>2. objects' = [objects EXCEPT ![b].visited = TRUE, ![b].in_roots = r]
    BY <1>1 DEF Enter
  <1>3. /\ DOMAIN objects = DOMAIN targets /\ DOMAIN objects[b] = ObjectKeys
        /\ objects[b].back_deps = Parents(b) /\ roots = Roots
    BY DEF Complete
  <1>4. /\ DOMAIN objects' = DOMAIN targets
        /\ \A x \in DOMAIN targets : x # b => objects'[x] = objects[x]
    BY <1>2, <1>3
  <1>5. PICK a, e : a = objects[b] /\ e = objects'[b]
    OBVIOUS
  <1>6. e = [a EXCEPT !.visited = TRUE, !.in_roots = r]
    BY <1>2, <1>3, <1>5
  <1>7. /\ DOMAIN e = ObjectKeys /\ e.visited = TRUE /\ e.in_roots = r
        /\ \A k \in ObjectKeys \ {"visited", "in_roots"} : e[k] = a[k]
    BY <1>3, <1>5, <1>6 DEF ObjectKeys
  <1> QED
    BY <1>1, <1>3, <1>4, <1>5, <1>7

\* _AddBuildTargets is called for a target that it has not been at.
LEMMA EnterInv ==
    ASSUME Building, Loaded, UNCHANGED <<targetVars, graphVars>>,
           NEW b \in Affected, NEW add, b \notin Seen, Enter(b, add),
           \A i \in DOMAIN frames : Position(frames[i].target) < Position(b),
           UNCHANGED <<roots, mapping, matched_search_targets, build_targets>>,
           IsList(matching_targets'), ToSet(matching_targets') \subseteq ChangedTargets,
           ChangedTargets \subseteq Seen \cup {b} \cup ToSet(matching_targets')
    PROVE  Building'
  <1>1. PICK D, o, S, A, F, g, B, fs, n, h :
          /\ D = DOMAIN targets /\ o = objects' /\ S = Seen' /\ A = Active' /\ F = S \ A
          /\ g = frames' /\ B = build_targets' /\ fs = frames /\ n = Len(fs)
          /\ h = Frame(b, add, objects[b].back_deps)
    OBVIOUS
  <1>2. Complete /\ IsList(fs) /\ DOMAIN objects = D
    BY <1>1 DEF Building, Complete
  <1>3. Affected \subseteq D /\ b \in D /\ DependsOn
    BY <1>1, AffectedFacts DEF Loaded
  <1>4. /\ DOMAIN o = D /\ \A x \in D : x # b => o[x] = objects[x]
        /\ DOMAIN o[b] = ObjectKeys /\ o[b].visited
        /\ o[b].in_roots <=> Parents(b) = {} /\ b \in Roots
        /\ \A k \in ObjectKeys \ {"visited", "in_roots"} : o[b][k] = objects[b][k]
    BY <1>1, <1>2, <1>3, EnterObjects
  <1>5. h.target = b /\ h.todo = Parents(b) /\ DOMAIN h = FrameKeys
    BY <1>1, <1>2, <1>3 DEF Complete, Frame, FrameKeys
  <1>6. /\ IsList(g) /\ DOMAIN g = 1..(n + 1) /\ DOMAIN fs = 1..n /\ n \in Nat
        /\ \A i \in 1..n : g[i] = fs[i]
        /\ g[n + 1] = h
    <2>1. Extends(Append(fs, h), fs, h)
      BY <1>2, AppendFrame
    <2>2. g = Append(fs, h)
      BY <1>1 DEF Enter
    <2> QED
      BY <1>1, <2>1, <2>2 DEF Extends
  <1>7. \A i \in 1..(n + 1) : i \in 1..n \/ i = n + 1
    BY <1>6
  <1>8. S = Seen \cup {b}
    <2>1. S = {t \in D : o[t].visited}
      BY <1>1, <1>4 DEF Seen
    <2>2. Seen = {t \in D : objects[t].visited}
      BY <1>2 DEF Seen
    <2> QED
      BY <1>3, <1>4, <2>1, <2>2
  <1>9. A = Active \cup {b}
    <2>1. A = {g[i].target : i \in 1..(n + 1)}
      BY <1>1, <1>6 DEF Active
    <2>2. Active = {fs[i].target : i \in 1..n}
      BY <1>1, <1>6 DEF Active
    <2>3. n + 1 \in 1..(n + 1) /\ \A i \in 1..n : i \in 1..(n + 1)
      BY <1>6
    <2> QED
      BY <1>5, <1>6, <1>7, <2>1, <2>2, <2>3
  <1>10. Active \subseteq Seen /\ Seen \subseteq D /\ F = Finished /\ B = build_targets
    BY <1>1, <1>2, <1>8, <1>9 DEF Building, Finished, Seen
  <1>11. Complete'
    <2>1. \A x \in D : ObjectKept(x)
      <3>1. ObjectKept(b)
        BY <1>1, <1>4 DEF ObjectKept, ObjectKeys
      <3>2. \A x \in D : DOMAIN objects[x] = ObjectKeys
        BY <1>1, <1>2 DEF Complete
      <3>3. \A x \in D : x # b => ObjectKept(x)
        BY <1>1, <1>4, <3>2 DEF ObjectKept
      <3> QED
        BY <3>1, <3>3
    <2> QED
      BY <1>1, <1>2, <1>4, <1>6, <2>1, CompleteKept
  <1>12. ASSUME NEW t \in D \ S PROVE ~o[t].added_to_compile_targets
    BY <1>1, <1>4, <1>8 DEF Building
  <1>13. ASSUME NEW t \in F PROVE Right(o[t], t, F, B)
    <2>1. t \in D /\ t # b /\ t \in Finished
      BY <1>10 DEF Finished
    <2> QED
      BY <1>4, <1>10, <2>1 DEF Building
  <1>14. ASSUME NEW i \in DOMAIN g PROVE Handed(o[g[i].target], g[i], F, B)
    <2>1. CASE i \in 1..n
      <3>1. fs[i].target \in Active /\ Handed(objects[fs[i].target], fs[i], Finished, build_targets)
        BY <1>1, <1>6, <2>1 DEF Active, Building
      <3>2. g[i] = fs[i] /\ fs[i].target \in D /\ fs[i].target # b
        BY <1>6, <1>10, <2>1, <3>1
      <3> QED
        BY <1>4, <1>10, <3>1, <3>2
    <2>2. CASE i = n + 1
      <3>1. ~o[b].added_to_compile_targets
        <4>1. ~objects[b].added_to_compile_targets
          BY <1>1, <1>3 DEF Building
        <4> QED
          BY <1>4, <4>1 DEF ObjectKeys
      <3>2. Handed(o[b], h, F, B)
        BY <1>4, <1>5, <3>1 DEF Handed
      <3> QED
        BY <1>5, <1>6, <2>2, <3>2
    <2> QED
      BY <1>6, <1>7, <2>1, <2>2
  <1>15. Ordered(g)
    <2>1. ASSUME NEW i \in 1..(n + 1), NEW j \in 1..(n + 1), i < j
          PROVE  Position(g[i].target) < Position(g[j].target)
      <3>1. i \in 1..n
        BY <1>6, <2>1
      <3>2. CASE j \in 1..n
        <4>1. Position(fs[i].target) < Position(fs[j].target)
          BY <1>1, <1>6, <2>1, <3>1, <3>2 DEF Building, Ordered
        <4> QED
          BY <1>6, <3>1, <3>2, <4>1
      <3>3. CASE j = n + 1
        BY <1>1, <1>5, <1>6, <3>1, <3>3
      <3> QED
        BY <1>7, <3>2, <3>3
    <2> QED
      BY <1>6, <2>1 DEF Ordered
  <1>16. A \subseteq S /\ S \subseteq Affected /\ B \subseteq F /\ NotTwice(B)
    BY <1>8, <1>9, <1>10 DEF Building
  <1>17. ChangedTargets \subseteq S \cup ToSet(matching_targets')
    BY <1>8
  <1> QED
    BY <1>1, <1>11, <1>12, <1>13, <1>14, <1>15, <1>16, <1>17, BuildingNext

\* Taking the first element off a list.
LEMMA RestFacts ==
    ASSUME NEW l, IsList(l), l # <<>>
    PROVE  IsList(Tail(l)) /\ ToSet(l) = {Head(l)} \cup ToSet(Tail(l))
  <1>1. PICK S, n, r : S = ToSet(l) /\ n = Len(l) /\ r = Tail(l)
    OBVIOUS
  <1>2. l \in Seq(S)
    BY <1>1, SeqOfList
  <1>3. /\ n \in Nat /\ n > 0 /\ Head(l) = l[1] /\ r \in Seq(S) /\ Len(r) = n - 1
        /\ \A i \in 1..(n - 1) : r[i] = l[i + 1]
    BY <1>1, <1>2, TailFacts
  <1>4. S = {l[i] : i \in 1..n} /\ ToSet(r) = {r[i] : i \in 1..(n - 1)} /\ IsList(r)
    <2>1. S = {l[i] : i \in 1..n}
      BY <1>1, SeqOfList
    <2>2. r \in Seq(S) /\ Len(r) = n - 1
      BY <1>3
    <2>3. IsList(r) /\ ToSet(r) = {r[i] : i \in 1..Len(r)}
      BY <2>2, ListOfSeq, ToSetOfSeq
    <2> QED
      BY <2>1, <2>2, <2>3
  <1>5. 1 \in 1..n /\ \A i \in 1..(n - 1) : i + 1 \in 1..n
    BY <1>3
  <1>6. \A i \in 1..n : i = 1 \/ \E j \in 1..(n - 1) : i = j + 1
    <2>1. \A i \in 1..n : i # 1 => i - 1 \in 1..(n - 1) /\ i = (i - 1) + 1
      BY <1>3
    <2> QED
      BY <2>1
  <1>7. ToSet(r) \subseteq S /\ l[1] \in S
    BY <1>3, <1>4, <1>5
  <1>8. S \subseteq {l[1]} \cup ToSet(r)
    <2>1. \A i \in 1..n : l[i] \in {l[1]} \cup ToSet(r)
      BY <1>3, <1>4, <1>6
    <2> QED
      BY <1>4, <2>1
  <1> QED
    BY <1>1, <1>3, <1>4, <1>7, <1>8

\* _GetBuildTargets takes the next changed target.
LEMMA GetBuildInv ==
    ASSUME LoadInv, AnalyzerFacts, GetBuildTargets, UNCHANGED <<targetVars, graphVars>>
    PROVE  AnalyzerFacts'
  <1>1. /\ analyzing = "build targets" /\ analyzing' = analyzing /\ frames = <<>>
        /\ matching_targets # <<>> /\ matching_targets' = Tail(matching_targets)
        /\ UNCHANGED <<roots, mapping, matched_search_targets, build_targets>>
    BY DEF GetBuildTargets, Doing
  <1>2. Building /\ Loaded /\ stage = "loaded" /\ project.format = "analyzer"
    BY <1>1, LoadedFacts DEF AnalyzerFacts
  <1>3. PICK l, r, t, D : /\ l = matching_targets /\ r = Tail(l) /\ t = Head(l)
                          /\ D = DOMAIN targets
    OBVIOUS
  <1>4. Complete /\ IsList(l) /\ l # <<>>
    BY <1>1, <1>2, <1>3 DEF Building, Complete
  <1>5. IsList(r) /\ ToSet(l) = {t} \cup ToSet(r)
    BY <1>3, <1>4, RestFacts
  <1>6. /\ t \in ChangedTargets /\ ToSet(r) \subseteq ChangedTargets
        /\ ChangedTargets \subseteq Seen \cup {t} \cup ToSet(r)
    BY <1>2, <1>3, <1>5 DEF Building
  <1>7. t \in Affected /\ t \in D
    BY <1>2, <1>3, <1>6, AffectedFacts DEF Loaded
  <1>8. t \in Seen <=> objects[t].visited
    BY <1>3, <1>4, <1>7 DEF Seen, Complete
  <1>9. CASE t \in Seen
    <2>1. UNCHANGED <<frames, objects>>
      BY <1>3, <1>8, <1>9 DEF GetBuildTargets
    <2>2. Complete'
      <3>1. \A x \in D : ObjectKept(x)
        BY <1>3, <1>4, <2>1 DEF ObjectKept, Complete
      <3>2. IsList(frames') /\ IsList(matching_targets') /\ DOMAIN objects' = DOMAIN objects
        BY <1>1, <1>3, <1>4, <1>5, <2>1 DEF Complete
      <3> QED
        BY <1>1, <1>3, <1>4, <3>1, <3>2, CompleteKept
    <2>3. Seen' = Seen /\ Active' = Active /\ build_targets' = build_targets
      BY <1>1, <2>1 DEF Seen, Active
    <2>4. PICK o, S, A, F, g, B : /\ o = objects' /\ S = Seen' /\ A = Active' /\ F = S \ A
                                  /\ g = frames' /\ B = build_targets'
      OBVIOUS
    <2>5. /\ o = objects /\ S = Seen /\ A = Active /\ F = Finished /\ g = frames
          /\ B = build_targets
      BY <2>1, <2>3, <2>4 DEF Finished
    <2>6. /\ ToSet(matching_targets') \subseteq ChangedTargets
          /\ ChangedTargets \subseteq S \cup ToSet(matching_targets')
      BY <1>1, <1>3, <1>6, <1>9, <2>5
    <2>7. /\ \A x \in DOMAIN targets \ S : ~o[x].added_to_compile_targets
          /\ \A x \in F : Right(o[x], x, F, B)
          /\ \A i \in DOMAIN g : Handed(o[g[i].target], g[i], F, B)
          /\ Ordered(g) /\ A \subseteq S /\ S \subseteq Affected /\ B \subseteq F /\ NotTwice(B)
      BY <1>2, <2>5 DEF Building
    <2>8. Building'
      BY <1>1, <1>2, <2>2, <2>4, <2>6, <2>7, BuildingNext
    <2> QED
      BY <1>1, <1>2, <2>8, PhaseFacts
  <1>10. CASE t \notin Seen
    <2>1. Enter(t, TRUE)
      BY <1>3, <1>8, <1>10 DEF GetBuildTargets
    <2>2. DOMAIN frames = {}
      <3>1. DOMAIN <<>> = {}
        OBVIOUS
      <3> QED
        BY <1>1, <3>1
    <2>3. \A i \in DOMAIN frames : Position(frames[i].target) < Position(t)
      BY <2>2
    <2>4. /\ IsList(matching_targets') /\ ToSet(matching_targets') \subseteq ChangedTargets
          /\ ChangedTargets \subseteq Seen \cup {t} \cup ToSet(matching_targets')
      BY <1>1, <1>3, <1>5, <1>6
    <2>5. Building'
      BY <1>1, <1>2, <1>7, <1>10, <2>1, <2>3, <2>4, EnterInv
    <2> QED
      BY <1>1, <1>2, <2>5, PhaseFacts
  <1> QED
    BY <1>9, <1>10

\* The object of a target that something which depends on it hands down to.
LEMMA HandedObjects ==
    ASSUME Complete, NEW t \in DOMAIN targets, NEW b \in DOMAIN targets,
           objects' = HandedDown(t, b)
    PROVE  /\ DOMAIN objects' = DOMAIN targets
           /\ \A x \in DOMAIN targets : x # t => objects'[x] = objects[x]
           /\ DOMAIN objects'[t] = ObjectKeys
           /\ objects'[t].in_roots <=> objects[t].in_roots \/ objects[b].in_roots
           /\ objects'[t].added_to_compile_targets <=>
                 objects[t].added_to_compile_targets \/ objects[b].added_to_compile_targets
           /\ \A k \in ObjectKeys \ {"added_to_compile_targets", "in_roots"} :
                 objects'[t][k] = objects[t][k]
  <1>1. DOMAIN objects = DOMAIN targets /\ DOMAIN objects[t] = ObjectKeys
    BY DEF Complete
  <1>2. PICK a, c, e : a = objects[t] /\ c = objects[b] /\ e = objects'[t]
    OBVIOUS
  <1>3. PICK p, q : /\ p = (a.added_to_compile_targets \/ c.added_to_compile_targets)
                    /\ q = (a.in_roots \/ c.in_roots)
    OBVIOUS
  <1>4. objects' = [objects EXCEPT ![t].added_to_compile_targets = p, ![t].in_roots = q]
    BY <1>1, <1>2, <1>3 DEF HandedDown, ObjectKeys
  <1>5. /\ DOMAIN objects' = DOMAIN targets
        /\ \A x \in DOMAIN targets : x # t => objects'[x] = objects[x]
    BY <1>1, <1>4
  <1>6. e = [a EXCEPT !.added_to_compile_targets = p, !.in_roots = q]
    BY <1>1, <1>2, <1>4
  <1>7. /\ DOMAIN e = ObjectKeys /\ e.added_to_compile_targets = p /\ e.in_roots = q
        /\ \A k \in ObjectKeys \ {"added_to_compile_targets", "in_roots"} : e[k] = a[k]
    BY <1>1, <1>2, <1>6 DEF ObjectKeys
  <1> QED
    BY <1>1, <1>2, <1>3, <1>5, <1>7

\* A dependent that is finished hands down to the target of the last frame.
LEMMA HandDownInv ==
    ASSUME Building, Loaded, UNCHANGED <<targetVars, graphVars>>, frames # <<>>,
           NEW b \in Top.todo, b \in Seen,
           frames' = Looked(b), objects' = HandedDown(Top.target, b),
           UNCHANGED <<roots, mapping, matched_search_targets, build_targets, matching_targets>>
    PROVE  Building'
  <1>1. PICK D, o, S, A, F, g, B, fs, n, f, t, h :
          /\ D = DOMAIN targets /\ o = objects' /\ S = Seen' /\ A = Active' /\ F = S \ A
          /\ g = frames' /\ B = build_targets' /\ fs = frames /\ n = Len(fs)
          /\ f = Top /\ t = Top.target /\ h = [f EXCEPT !.todo = @ \ {b}]
    OBVIOUS
  <1>2. /\ IsList(fs) /\ fs # <<>> /\ n \in Nat \ {0} /\ DOMAIN fs = 1..n /\ f = fs[n]
        /\ Handed(objects[f.target], f, Finished, build_targets)
        /\ f.target \in Active /\ f.target \in Seen
    BY <1>1, BuildFrames
  <1>3. t = f.target /\ Handed(objects[t], f, Finished, build_targets)
    BY <1>1, <1>2
  <1>4. b \in f.todo /\ b \in Parents(t)
    BY <1>1, <1>3 DEF Handed
  <1>5. b \in D /\ b \notin Active /\ b \in Finished
    BY <1>1, <1>4, FramesBelow DEF Finished
  <1>6. Complete /\ Seen \subseteq D /\ Active \subseteq Seen /\ t \in D /\ DOMAIN objects = D
    <2>1. Complete /\ DOMAIN objects = D
      BY <1>1 DEF Building, Complete
    <2>2. Active \subseteq Seen
      BY DEF Building
    <2> QED
      BY <1>2, <1>3, <2>1, <2>2 DEF Seen
  <1>7. /\ DOMAIN o = D /\ \A x \in D : x # t => o[x] = objects[x]
        /\ DOMAIN o[t] = ObjectKeys
        /\ o[t].in_roots <=> objects[t].in_roots \/ objects[b].in_roots
        /\ o[t].added_to_compile_targets <=>
              objects[t].added_to_compile_targets \/ objects[b].added_to_compile_targets
        /\ \A k \in ObjectKeys \ {"added_to_compile_targets", "in_roots"} : o[t][k] = objects[t][k]
    BY <1>1, <1>5, <1>6, HandedObjects
  <1>8. DOMAIN h = FrameKeys /\ h.target = t /\ h.todo = f.todo \ {b}
    <2>1. DOMAIN f = FrameKeys
      BY <1>3 DEF Handed
    <2> QED
      BY <1>1, <1>3, <2>1 DEF FrameKeys
  <1>9. /\ IsList(g) /\ DOMAIN g = 1..n /\ \A i \in 1..(n - 1) : g[i] = fs[i]
        /\ g[n] = h
    <2>1. g = [fs EXCEPT ![Len(fs)] = h]
      BY <1>1, <1>2 DEF Looked
    <2>2. Differs([fs EXCEPT ![Len(fs)] = h], fs, h)
      BY <1>2, ChangeLast
    <2> QED
      BY <1>1, <2>1, <2>2 DEF Differs
  <1>10. \A i \in 1..n : i \in 1..(n - 1) \/ i = n
    BY <1>2
  <1>11. \A i \in 1..n : g[i].target = fs[i].target
    BY <1>2, <1>3, <1>8, <1>9, <1>10
  <1>12. S = Seen
    <2>1. S = {x \in D : o[x].visited}
      BY <1>1, <1>7 DEF Seen
    <2>2. Seen = {x \in D : objects[x].visited}
      BY <1>6 DEF Seen
    <2>3. o[t].visited = objects[t].visited
      BY <1>7 DEF ObjectKeys
    <2> QED
      BY <1>7, <2>1, <2>2, <2>3
  <1>13. A = Active
    <2>1. A = {g[i].target : i \in 1..n}
      BY <1>1, <1>9 DEF Active
    <2>2. Active = {fs[i].target : i \in 1..n}
      BY <1>1, <1>2 DEF Active
    <2> QED
      BY <1>11, <2>1, <2>2
  <1>14. F = Finished /\ B = build_targets
    BY <1>1, <1>12, <1>13 DEF Finished
  <1>15. Complete'
    <2>1. \A x \in D : ObjectKept(x)
      <3>1. ObjectKept(t)
        BY <1>1, <1>7 DEF ObjectKept, ObjectKeys
      <3>2. \A x \in D : DOMAIN objects[x] = ObjectKeys
        BY <1>1, <1>6 DEF Complete
      <3>3. \A x \in D : x # t => ObjectKept(x)
        BY <1>1, <1>7, <3>2 DEF ObjectKept
      <3> QED
        BY <3>1, <3>3
    <2>2. IsList(matching_targets')
      BY <1>6 DEF Complete
    <2> QED
      BY <1>1, <1>6, <1>7, <1>9, <2>1, <2>2, CompleteKept
  <1>16. ASSUME NEW x \in D \ S PROVE ~o[x].added_to_compile_targets
    BY <1>1, <1>2, <1>3, <1>7, <1>12 DEF Building
  <1>17. ASSUME NEW x \in F PROVE Right(o[x], x, F, B)
    <2>1. x \in D /\ x # t /\ x \in Finished
      BY <1>2, <1>3, <1>6, <1>14 DEF Finished
    <2> QED
      BY <1>7, <1>14, <2>1 DEF Building
  <1>18. ASSUME NEW i \in DOMAIN g PROVE Handed(o[g[i].target], g[i], F, B)
    <2>1. CASE i \in 1..(n - 1)
      <3>0. i \in 1..n /\ n \in 1..n /\ i < n
        BY <1>2, <2>1
      <3>1. fs[i].target \in Active /\ Handed(objects[fs[i].target], fs[i], Finished, build_targets)
        BY <1>1, <1>2, <3>0 DEF Active, Building
      <3>2. g[i] = fs[i] /\ fs[i].target \in D
        BY <1>6, <1>9, <2>1, <3>1
      <3>3. fs[i].target # t
        <4>1. Position(fs[i].target) < Position(fs[n].target)
          BY <1>1, <1>2, <3>0 DEF Building, Ordered
        <4>2. Position(fs[n].target) \in Nat
          BY <1>1, <1>2, <1>3, <1>6 DEF Loaded
        <4> QED
          BY <1>2, <1>3, <4>1, <4>2
      <3> QED
        BY <1>7, <1>14, <3>1, <3>2, <3>3
    <2>2. CASE i = n
      <3>1. Right(objects[b], b, Finished, build_targets)
        BY <1>5 DEF Building
      <3>2. Parents(t) \ h.todo = (Parents(t) \ f.todo) \cup {b}
        BY <1>4, <1>8
      <3>3. /\ objects[b].in_roots <=> b \in Below(Roots)
            /\ objects[b].added_to_compile_targets <=> b \in Below(B)
        BY <1>14, <3>1 DEF Right
      <3>4. /\ f.todo \subseteq Parents(t) /\ Parents(t) \ f.todo \subseteq F
            /\ objects[t].in_roots <=>
                  \/ Parents(t) = {} /\ t \in Roots
                  \/ \E c \in Parents(t) \ f.todo : c \in Below(Roots)
            /\ objects[t].added_to_compile_targets <=> \E c \in Parents(t) \ f.todo : c \in Below(B)
        BY <1>3, <1>14 DEF Handed
      <3>5. h.todo \subseteq Parents(t) /\ Parents(t) \ h.todo \subseteq F
        BY <1>5, <1>8, <1>14, <3>2, <3>4
      <3>6. o[t].in_roots <=>
                  \/ Parents(t) = {} /\ t \in Roots
                  \/ \E c \in Parents(t) \ h.todo : c \in Below(Roots)
        BY <1>7, <3>2, <3>3, <3>4
      <3>7. o[t].added_to_compile_targets <=> \E c \in Parents(t) \ h.todo : c \in Below(B)
        BY <1>7, <3>2, <3>3, <3>4
      <3>8. Handed(o[t], h, F, B)
        BY <1>8, <3>5, <3>6, <3>7 DEF Handed
      <3> QED
        BY <1>8, <1>9, <2>2, <3>8
    <2> QED
      BY <1>9, <1>10, <2>1, <2>2
  <1>19. Ordered(g)
    <2>1. Ordered(fs)
      BY <1>1 DEF Building
    <2> QED
      BY <1>2, <1>9, <1>11, <2>1 DEF Ordered
  <1>20. A \subseteq S /\ S \subseteq Affected /\ B \subseteq F /\ NotTwice(B)
    BY <1>12, <1>13, <1>14 DEF Building
  <1>21. /\ ToSet(matching_targets') \subseteq ChangedTargets
         /\ ChangedTargets \subseteq S \cup ToSet(matching_targets')
    BY <1>12 DEF Building
  <1> QED
    BY <1>1, <1>15, <1>16, <1>17, <1>18, <1>19, <1>20, <1>21, BuildingNext

\* _AddBuildTargets looks at what depends on its target.
LEMMA VisitBackInv ==
    ASSUME LoadInv, AnalyzerFacts, VisitBackDep, UNCHANGED <<targetVars, graphVars>>
    PROVE  AnalyzerFacts'
  <1>1. /\ analyzing = "build targets" /\ analyzing' = analyzing /\ frames # <<>>
        /\ UNCHANGED <<roots, mapping, matching_targets, matched_search_targets, build_targets>>
    BY DEF VisitBackDep, Doing
  <1>2. Building /\ Loaded /\ stage = "loaded" /\ project.format = "analyzer"
    BY <1>1, LoadedFacts DEF AnalyzerFacts
  <1>3. PICK b \in Top.todo :
         IF objects[b].visited THEN frames' = Looked(b) /\ objects' = HandedDown(Top.target, b)
         ELSE Enter(b, FALSE)
    BY DEF VisitBackDep
  <1>4. PICK f : f = Top
    OBVIOUS
  <1>5. Handed(objects[f.target], f, Finished, build_targets)
    BY <1>1, <1>2, <1>4, BuildFrames
  <1>6. b \in Parents(Top.target)
    BY <1>3, <1>4, <1>5 DEF Handed
  <1>7. /\ b \in DOMAIN targets /\ b \in Affected
        /\ \A i \in DOMAIN frames : Position(frames[i].target) < Position(b)
    BY <1>1, <1>2, <1>6, FramesBelow
  <1>8. b \in Seen <=> objects[b].visited
    BY <1>2, <1>7 DEF Seen, Building, Complete
  <1>9. Building'
    <2>1. CASE b \in Seen
      BY <1>1, <1>2, <1>3, <1>8, <2>1, HandDownInv
    <2>2. CASE b \notin Seen
      <3>1. Enter(b, FALSE)
        BY <1>3, <1>8, <2>2
      <3>2. /\ IsList(matching_targets') /\ ToSet(matching_targets') \subseteq ChangedTargets
            /\ ChangedTargets \subseteq Seen \cup {b} \cup ToSet(matching_targets')
        BY <1>1, <1>2 DEF Building, Complete
      <3> QED
        BY <1>1, <1>2, <1>7, <2>2, <3>1, <3>2, EnterInv
    <2> QED
      BY <2>1, <2>2
  <1> QED
    BY <1>1, <1>2, <1>9, PhaseFacts

\* The frame of t is left: what depends on t is finished, so that it is known of t too
\* whether it is below a root and whether it is built.
LEMMA LeaveFacts ==
    ASSUME Building, DependsOn, NEW t \in DOMAIN targets, t \notin Finished,
           NEW f, f.target = t, f.todo = {},
           Handed(objects[t], f, Finished, build_targets)
    PROVE  /\ Parents(t) \subseteq Finished
           /\ objects[t].in_roots <=> t \in Below(Roots)
           /\ objects[t].added_to_compile_targets <=> t \in Below(build_targets)
  <1>1. Roots \subseteq DOMAIN targets /\ build_targets \subseteq DOMAIN targets
    BY AffectedFacts DEF Roots, TopTargets, Building, Finished
  <1>2. t \in Roots => Parents(t) = {}
    BY DEF Roots, TopTargets, Parents
  <1>3. /\ Parents(t) \subseteq Finished
        /\ objects[t].in_roots <=>
              \/ Parents(t) = {} /\ t \in Roots
              \/ \E b \in Parents(t) : b \in Below(Roots)
        /\ objects[t].added_to_compile_targets <=> \E b \in Parents(t) : b \in Below(build_targets)
    BY DEF Handed
  <1>4. t \in Below(Roots) <=> t \in Roots \/ \E b \in Parents(t) : b \in Below(Roots)
    BY <1>1, BelowStep
  <1>5. t \in Below(build_targets) <=>
           t \in build_targets \/ \E b \in Parents(t) : b \in Below(build_targets)
    BY <1>1, BelowStep
  <1>6. t \notin build_targets
    BY DEF Building
  <1> QED
    BY <1>2, <1>3, <1>4, <1>5, <1>6

\* What is finished is not below a target that is not.
LEMMA BuiltAbove ==
    ASSUME Building, DependsOn, NEW t \in DOMAIN targets, t \notin Finished,
           NEW x \in Finished
    PROVE  /\ x \notin NeededBy(t)
           /\ x \in Below(build_targets \cup {t}) <=> x \in Below(build_targets)
  <1>1. \A y \in Finished : Parents(y) \subseteq Finished
    BY DEF Building, Right
  <1>2. x \notin NeededBy(t)
    BY <1>1, FinishedAbove
  <1> QED
    BY <1>2 DEF Below

\* The targets to be built and the objects after AddBuildTarget.
LEMMA AddObjects ==
    ASSUME Complete, NEW t \in DOMAIN targets,
           objects' = [objects EXCEPT ![t].added_to_compile_targets = TRUE]
    PROVE  /\ DOMAIN objects' = DOMAIN targets
           /\ \A x \in DOMAIN targets : x # t => objects'[x] = objects[x]
           /\ DOMAIN objects'[t] = ObjectKeys /\ objects'[t].added_to_compile_targets
           /\ \A k \in ObjectKeys \ {"added_to_compile_targets"} : objects'[t][k] = objects[t][k]
  <1>1. DOMAIN objects = DOMAIN targets /\ DOMAIN objects[t] = ObjectKeys
    BY DEF Complete
  <1>2. /\ DOMAIN objects' = DOMAIN targets
        /\ \A x \in DOMAIN targets : x # t => objects'[x] = objects[x]
    BY <1>1
  <1>3. PICK a, e : a = objects[t] /\ e = objects'[t]
    OBVIOUS
  <1>4. e = [a EXCEPT !.added_to_compile_targets = TRUE]
    BY <1>1, <1>3
  <1>5. /\ DOMAIN e = ObjectKeys /\ e.added_to_compile_targets = TRUE
        /\ \A k \in ObjectKeys \ {"added_to_compile_targets"} : e[k] = a[k]
    BY <1>1, <1>3, <1>4 DEF ObjectKeys
  <1> QED
    BY <1>2, <1>3, <1>5

Added(t, add) ==
    IF ToBeBuilt(objects[t], add)
    THEN /\ build_targets' = build_targets \cup {t}
         /\ objects' = [objects EXCEPT ![t].added_to_compile_targets = TRUE]
    ELSE UNCHANGED <<build_targets, objects>>

\* What is then known of the target.
AddedRight(t, o, B) ==
    /\ DOMAIN o = DOMAIN targets /\ \A x \in DOMAIN targets : x # t => o[x] = objects[x]
    /\ DOMAIN o[t] = ObjectKeys
    /\ \A k \in ObjectKeys \ {"added_to_compile_targets"} : o[t][k] = objects[t][k]
    /\ build_targets \subseteq B /\ B \subseteq build_targets \cup {t} /\ NotTwice(B)
    /\ \A x \in Finished : x \in Below(B) <=> x \in Below(build_targets)
    /\ o[t].in_roots <=> t \in Below(Roots)
    /\ o[t].added_to_compile_targets <=> t \in Below(B)
    /\ t \in Below(Roots) /\ DoesTargetTypeRequireBuild(targets[t]) => t \in Below(B)
    /\ t \in Below(Roots) /\ targets[t].type = "executable" => t \in B

\* Whether the target is added or not, what is known of finished targets holds of it.
LEMMA AddedFacts ==
    ASSUME Building, DependsOn, NEW t \in DOMAIN targets, t \notin Finished,
           NEW f, f.target = t, f.todo = {},
           Handed(objects[t], f, Finished, build_targets),
           NEW add, Added(t, add), NEW o, o = objects', NEW B, B = build_targets'
    PROVE  AddedRight(t, o, B)
  <1>1. /\ objects[t].in_roots <=> t \in Below(Roots)
        /\ objects[t].added_to_compile_targets <=> t \in Below(build_targets)
    BY LeaveFacts
  <1>2. /\ Complete /\ DOMAIN objects = DOMAIN targets /\ DOMAIN objects[t] = ObjectKeys
        /\ objects[t].requires_build <=> DoesTargetTypeRequireBuild(targets[t])
        /\ objects[t].is_executable <=> targets[t].type = "executable"
    BY DEF Building, Complete, Described
  <1>3. build_targets \subseteq Finished /\ NotTwice(build_targets)
    BY DEF Building
  <1>4. ToBeBuilt(objects[t], add) <=>
          /\ objects[t].in_roots
          /\ \/ objects[t].is_executable
             \/ ~objects[t].added_to_compile_targets /\ (add \/ objects[t].requires_build)
    BY DEF ToBeBuilt
  <1>5. CASE ToBeBuilt(objects[t], add)
    <2>1. B = build_targets \cup {t} /\ objects' = [objects EXCEPT ![t].added_to_compile_targets = TRUE]
      BY <1>5 DEF Added
    <2>2. /\ DOMAIN o = DOMAIN targets /\ \A x \in DOMAIN targets : x # t => o[x] = objects[x]
          /\ DOMAIN o[t] = ObjectKeys /\ o[t].added_to_compile_targets
          /\ \A k \in ObjectKeys \ {"added_to_compile_targets"} : o[t][k] = objects[t][k]
      BY <1>2, <2>1, AddObjects
    <2>3. \A x \in Finished : x \notin NeededBy(t) /\ (x \in Below(B) <=> x \in Below(build_targets))
      BY <2>1, BuiltAbove
    <2>4. t \in Below(B)
      BY <2>1, NeededByFacts DEF Below
    <2>5. o[t].in_roots = objects[t].in_roots
      BY <2>2 DEF ObjectKeys
    <2>6. NotTwice(B)
      <3>1. ASSUME NEW b \in B, NEW x \in B, b # x, x \in NeededBy(b)
            PROVE  targets[x].type = "executable"
        <4>1. CASE b = t
          BY <1>3, <2>1, <2>3, <3>1, <4>1
        <4>2. CASE b # t /\ x = t
          <5>1. t \in Below(build_targets)
            BY <2>1, <3>1, <4>2 DEF Below
          <5> QED
            BY <1>1, <1>2, <1>4, <1>5, <4>2, <5>1
        <4>3. CASE b # t /\ x # t
          BY <1>3, <2>1, <3>1, <4>3 DEF NotTwice
        <4> QED
          BY <4>1, <4>2, <4>3
      <3> QED
        BY <3>1 DEF NotTwice
    <2> QED
      BY <1>1, <2>1, <2>2, <2>3, <2>4, <2>5, <2>6 DEF AddedRight
  <1>6. CASE ~ToBeBuilt(objects[t], add)
    <2>1. B = build_targets /\ o = objects
      BY <1>6 DEF Added
    <2>2. /\ t \in Below(Roots) /\ DoesTargetTypeRequireBuild(targets[t]) => t \in Below(B)
          /\ t \in Below(Roots) /\ targets[t].type = "executable" => t \in B
      BY <1>1, <1>2, <1>4, <1>6, <2>1
    <2> QED
      BY <1>1, <1>2, <1>3, <2>1, <2>2 DEF AddedRight
  <1> QED
    BY <1>5, <1>6

\* _AddBuildTargets is done with a target: one more is finished.
LEMMA LeaveInv ==
    ASSUME Building, Loaded, UNCHANGED <<targetVars, graphVars>>, frames # <<>>, Top.todo = {},
           NEW add, Added(Top.target, add), frames' = Front(frames),
           UNCHANGED <<roots, mapping, matched_search_targets, matching_targets>>
    PROVE  Building'
  <1>1. PICK D, o, S, A, F, g, B, fs, n, f, t :
          /\ D = DOMAIN targets /\ o = objects' /\ S = Seen' /\ A = Active' /\ F = S \ A
          /\ g = frames' /\ B = build_targets' /\ fs = frames /\ n = Len(fs)
          /\ f = Top /\ t = Top.target
    OBVIOUS
  <1>2. /\ IsList(fs) /\ fs # <<>> /\ n \in Nat \ {0} /\ DOMAIN fs = 1..n /\ f = fs[n]
        /\ Handed(objects[f.target], f, Finished, build_targets)
        /\ f.target \in Active /\ f.target \in Seen
    BY <1>1, BuildFrames
  <1>3. t = f.target /\ Handed(objects[t], f, Finished, build_targets)
    BY <1>1, <1>2
  <1>4. /\ Complete /\ Seen \subseteq D /\ Active \subseteq Seen /\ t \in D /\ DOMAIN objects = D
        /\ t \in Active /\ t \notin Finished
    <2>1. Complete /\ DOMAIN objects = D
      BY <1>1 DEF Building, Complete
    <2>2. Active \subseteq Seen
      BY DEF Building
    <2> QED
      BY <1>2, <1>3, <2>1, <2>2 DEF Seen, Finished
  <1>5. DependsOn
    BY DEF Loaded
  <1>6. AddedRight(t, o, B) /\ Parents(t) \subseteq Finished
    <2>1. t \in DOMAIN targets /\ f.target = t /\ f.todo = {} /\ Added(t, add)
      BY <1>1, <1>3, <1>4
    <2>2. AddedRight(t, o, B)
      BY <1>1, <1>3, <1>4, <1>5, <2>1, AddedFacts
    <2>3. Parents(t) \subseteq Finished
      BY <1>3, <1>4, <1>5, <2>1, LeaveFacts
    <2> QED
      BY <2>2, <2>3
  <1>7. /\ DOMAIN o = D /\ \A x \in D : x # t => o[x] = objects[x]
        /\ DOMAIN o[t] = ObjectKeys
        /\ \A k \in ObjectKeys \ {"added_to_compile_targets"} : o[t][k] = objects[t][k]
        /\ build_targets \subseteq B /\ B \subseteq build_targets \cup {t} /\ NotTwice(B)
        /\ \A x \in Finished : x \in Below(B) <=> x \in Below(build_targets)
    BY <1>1, <1>6 DEF AddedRight
  <1>8. /\ IsList(g) /\ DOMAIN g = 1..(n - 1) /\ \A i \in 1..(n - 1) : g[i] = fs[i]
    <2>1. /\ IsList(Front(fs)) /\ DOMAIN Front(fs) = 1..(Len(fs) - 1)
          /\ \A i \in 1..(Len(fs) - 1) : Front(fs)[i] = fs[i]
      BY <1>2, FrontFacts
    <2> QED
      BY <1>1, <2>1
  <1>9. \A i \in 1..n : i \in 1..(n - 1) \/ i = n
    BY <1>2
  <1>10. ASSUME NEW i \in 1..(n - 1)
         PROVE  fs[i].target \in D /\ fs[i].target # t /\ i \in 1..n
    <2>1. i \in 1..n /\ n \in 1..n /\ i < n
      BY <1>2
    <2>2. fs[i].target \in Active
      BY <1>1, <1>2, <2>1 DEF Active
    <2>3. Position(fs[i].target) < Position(fs[n].target)
      BY <1>1, <1>2, <2>1 DEF Building, Ordered
    <2>4. Position(fs[n].target) \in Nat
      BY <1>1, <1>2, <1>3, <1>4 DEF Loaded
    <2> QED
      BY <1>2, <1>3, <1>4, <2>1, <2>2, <2>3, <2>4
  <1>11. S = Seen
    <2>1. S = {x \in D : o[x].visited}
      BY <1>1, <1>7 DEF Seen
    <2>2. Seen = {x \in D : objects[x].visited}
      BY <1>4 DEF Seen
    <2>3. o[t].visited = objects[t].visited
      BY <1>7 DEF ObjectKeys
    <2> QED
      BY <1>7, <2>1, <2>2, <2>3
  <1>12. A = Active \ {t}
    <2>1. A = {g[i].target : i \in 1..(n - 1)}
      BY <1>1, <1>8 DEF Active
    <2>2. Active = {fs[i].target : i \in 1..n}
      BY <1>1, <1>2 DEF Active
    <2>3. A = {fs[i].target : i \in 1..(n - 1)}
      BY <1>8, <2>1
    <2> QED
      BY <1>2, <1>3, <1>9, <1>10, <2>2, <2>3
  <1>13. F = Finished \cup {t}
    BY <1>1, <1>4, <1>11, <1>12 DEF Finished
  <1>14. Complete'
    <2>1. \A x \in D : ObjectKept(x)
      <3>1. ObjectKept(t)
        BY <1>1, <1>7 DEF ObjectKept, ObjectKeys
      <3>2. \A x \in D : DOMAIN objects[x] = ObjectKeys
        BY <1>1, <1>4 DEF Complete
      <3>3. \A x \in D : x # t => ObjectKept(x)
        BY <1>1, <1>7, <3>2 DEF ObjectKept
      <3> QED
        BY <3>1, <3>3
    <2>2. IsList(matching_targets')
      BY <1>4 DEF Complete
    <2> QED
      BY <1>1, <1>4, <1>7, <1>8, <2>1, <2>2, CompleteKept
  <1>15. ASSUME NEW x \in D \ S PROVE ~o[x].added_to_compile_targets
    BY <1>1, <1>4, <1>7, <1>11 DEF Building
  <1>16. ASSUME NEW x \in F PROVE Right(o[x], x, F, B)
    <2>1. CASE x = t
      <3>1. Parents(t) \subseteq F
        BY <1>6, <1>13
      <3> QED
        BY <1>6, <2>1, <3>1 DEF AddedRight, Right
    <2>2. CASE x # t
      <3>1. x \in Finished /\ x \in D
        BY <1>4, <1>13, <2>2 DEF Finished
      <3>2. o[x] = objects[x] /\ Right(objects[x], x, Finished, build_targets)
        BY <1>7, <2>2, <3>1 DEF Building
      <3>3. x \in Below(B) <=> x \in Below(build_targets)
        BY <1>7, <3>1
      <3> QED
        BY <1>7, <1>13, <3>2, <3>3, RightStays
    <2> QED
      BY <2>1, <2>2
  <1>17. ASSUME NEW i \in DOMAIN g PROVE Handed(o[g[i].target], g[i], F, B)
    <2>1. i \in 1..(n - 1) /\ i \in 1..n
      BY <1>8, <1>10
    <2>2. Handed(objects[fs[i].target], fs[i], Finished, build_targets)
      BY <1>1, <1>2, <2>1 DEF Building
    <2>3. Handed(objects[fs[i].target], fs[i], F, B)
      BY <1>7, <1>13, <2>2, HandedStays
    <2> QED
      BY <1>7, <1>8, <1>10, <2>1, <2>3
  <1>18. Ordered(g)
    <2>1. Ordered(fs)
      BY <1>1 DEF Building
    <2>2. \A i \in 1..(n - 1) : i \in 1..n
      BY <1>10
    <2> QED
      BY <1>2, <1>8, <2>1, <2>2 DEF Ordered
  <1>19. A \subseteq S /\ S \subseteq Affected /\ B \subseteq F /\ NotTwice(B)
    <2>1. Seen \subseteq Affected /\ build_targets \subseteq Finished
      BY DEF Building
    <2> QED
      BY <1>4, <1>7, <1>11, <1>12, <1>13, <2>1
  <1>20. /\ ToSet(matching_targets') \subseteq ChangedTargets
         /\ ChangedTargets \subseteq S \cup ToSet(matching_targets')
    BY <1>11 DEF Building
  <1> QED
    BY <1>1, <1>14, <1>15, <1>16, <1>17, <1>18, <1>19, <1>20, BuildingNext

\* AddBuildTarget keeps the invariant.
LEMMA AddInv ==
    ASSUME LoadInv, AnalyzerFacts, AddBuildTarget, UNCHANGED <<targetVars, graphVars>>
    PROVE  AnalyzerFacts'
  <1>1. /\ analyzing = "build targets" /\ analyzing' = analyzing /\ frames # <<>> /\ Top.todo = {}
        /\ frames' = Front(frames)
        /\ UNCHANGED <<roots, mapping, matching_targets, matched_search_targets>>
    BY DEF AddBuildTarget, Doing
  <1>2. Building /\ Loaded /\ stage = "loaded" /\ project.format = "analyzer"
    BY <1>1, LoadedFacts DEF AnalyzerFacts
  <1>3. Added(Top.target, Top.add_if_no_ancestor)
    BY DEF AddBuildTarget, Added
  <1>4. Building'
    BY <1>1, <1>2, <1>3, LeaveInv
  <1> QED
    BY <1>1, <1>2, <1>4, PhaseFacts

\* When nothing is left, the affected targets have all been visited: what is changed has
\* been, and all that depends on it.
LEMMA EndAnalysisInv ==
    ASSUME LoadInv, AnalyzerFacts, EndAnalysis, UNCHANGED <<targetVars, graphVars>>
    PROVE  AnalyzerFacts'
  <1>1. /\ analyzing = "build targets" /\ analyzing' = "done" /\ frames = <<>>
        /\ matching_targets = <<>>
        /\ UNCHANGED <<mapping, matched_search_targets, build_targets>>
    BY DEF EndAnalysis
  <1>2. Building /\ Loaded /\ stage = "loaded" /\ project.format = "analyzer"
    BY <1>1, LoadedFacts DEF AnalyzerFacts
  <1>3. Finished = Seen /\ ChangedTargets \subseteq Finished
    <2>1. DOMAIN <<>> = {} /\ ToSet(<<>>) = {}
      BY ToSetOfEmpty
    <2>2. Active = {}
      BY <1>1, <2>1 DEF Active
    <2>3. Finished = Seen
      BY <2>2 DEF Finished
    <2>4. ChangedTargets \subseteq Seen
      BY <1>1, <1>2, <2>1 DEF Building
    <2> QED
      BY <2>3, <2>4
  <1>4. \A t \in Finished : Right(objects[t], t, Finished, build_targets)
    BY <1>2 DEF Building
  <1>5. \A t \in Finished : Parents(t) \subseteq Finished
    BY <1>4 DEF Right
  <1>6. Affected \subseteq Finished
    <2>1. SUFFICES ASSUME NEW t \in Affected PROVE t \in Finished
      OBVIOUS
    <2>2. t \in DOMAIN targets
      BY DEF Affected
    <2>3. PICK x \in ChangedTargets : x \in NeededBy(t)
      BY DEF Affected
    <2> QED
      BY <1>2, <1>3, <1>5, <2>2, <2>3, FinishedAbove DEF Loaded
  <1>7. Covers
    <2>1. \A t \in ChangedTargets \cap Below(Roots) :
             DoesTargetTypeRequireBuild(targets[t]) => t \in Below(build_targets)
      BY <1>3, <1>4 DEF Right
    <2>2. \A t \in Affected \cap Below(Roots) :
             targets[t].type = "executable" => t \in build_targets
      BY <1>4, <1>6 DEF Right
    <2>3. build_targets \subseteq Affected
      BY <1>2 DEF Building, Finished
    <2> QED
      BY <1>2, <2>1, <2>2, <2>3 DEF Covers, Building
  <1>8. Covers'
    <2>1. /\ targets' = targets /\ Affected' = Affected /\ ChangedTargets' = ChangedTargets
          /\ Roots' = Roots /\ \A t : NeededBy(t)' = NeededBy(t)
      BY GraphIsFixed
    <2>2. Named' = Named
      BY <1>1 DEF Named
    <2>3. Below(build_targets)' = Below(build_targets) /\ Below(Roots)' = Below(Roots)
      BY <1>1, <2>1 DEF Below
    <2>4. NotTwice(build_targets)'
      BY <1>1, <1>7, <2>1 DEF Covers, NotTwice
    <2> QED
      BY <1>1, <1>7, <2>1, <2>2, <2>3, <2>4 DEF Covers, DoesTargetTypeRequireBuild
  <1> QED
    BY <1>1, <1>2, <1>8, PhaseFacts

-----------------------------------------------------------------------------
(***************************************************************************)
(* The theorems.                                                           *)
(***************************************************************************)
\* A step that changes nothing.
LEMMA AnalyzerStutters ==
    ASSUME AnalyzerFacts, UNCHANGED <<targetVars, graphVars, analyzerVars>>
    PROVE  AnalyzerFacts'
  <1>1. UNCHANGED <<targetVars, graphVars>>
    OBVIOUS
  <1>2. /\ analyzing' = analyzing /\ objects' = objects /\ targets_to_visit' = targets_to_visit
        /\ matching_targets' = matching_targets /\ roots' = roots
        /\ build_file_targets' = build_file_targets /\ mapping' = mapping /\ frames' = frames
        /\ to_search' = to_search /\ matched_search_targets' = matched_search_targets
        /\ build_targets' = build_targets
    BY DEF analyzerVars
  <1>3. /\ targets' = targets /\ project' = project /\ stage' = stage
        /\ NeedsGraph' = NeedsGraph /\ ChangedTargets' = ChangedTargets /\ Roots' = Roots
        /\ Affected' = Affected
        /\ \A t : NeededBy(t)' = NeededBy(t) /\ Parents(t)' = Parents(t)
        /\ \A t : Position(t)' = Position(t)
    BY <1>1, GraphIsFixed
  <1>4. Seen' = Seen /\ Named' = Named /\ Active' = Active
    BY <1>2 DEF Seen, Named, Active
  <1>5. Finished' = Finished
    BY <1>4 DEF Finished
  <1>6. Below(build_targets)' = Below(build_targets) /\ Below(Roots)' = Below(Roots)
    BY <1>2, <1>3 DEF Below
  <1>7. \A t : Described(t)' <=> Described(t)
    BY <1>2, <1>3 DEF Described, DoesTargetTypeRequireBuild
  <1>8. analyzing = "idle" => AnalyzerInit'
    BY <1>2 DEF AnalyzerFacts, AnalyzerInit
  <1>9. Generating => Generating'
    <2>1. \A t : Generated(t) => Generated(t)'
      BY <1>2, <1>3, <1>4, <1>7 DEF Generated
    <2> QED
      BY <1>2, <1>3, <1>4, <2>1 DEF Generating
  <1>10. Complete => Complete'
    BY <1>2, <1>3, <1>4, <1>7 DEF Complete
  <1>11. Searching => Searching'
    <2>1. \A t : StatusIsTrue(t) => StatusIsTrue(t)'
      BY <1>2, <1>3 DEF StatusIsTrue, Matched
    <2>2. (\A i \in DOMAIN frames : LookedFor(frames[i]))
            => (\A i \in DOMAIN frames : LookedFor(frames[i]))'
      BY <1>2, <1>3 DEF LookedFor
    <2> QED
      BY <1>2, <1>3, <1>4, <1>10, <2>1, <2>2 DEF Searching
  <1>12. Building => Building'
    <2>1. SUFFICES ASSUME Building PROVE Building'
      OBVIOUS
    <2>2. PICK o, S, A, F, g, B : /\ o = objects' /\ S = Seen' /\ A = Active' /\ F = S \ A
                                  /\ g = frames' /\ B = build_targets'
      OBVIOUS
    <2>3. /\ o = objects /\ S = Seen /\ A = Active /\ F = Finished /\ g = frames
          /\ B = build_targets
      BY <1>2, <1>4, <2>2 DEF Finished
    <2>4. /\ ToSet(matching_targets') \subseteq ChangedTargets
          /\ ChangedTargets \subseteq S \cup ToSet(matching_targets')
      BY <1>2, <2>1, <2>3 DEF Building
    <2>5. /\ \A x \in DOMAIN targets \ S : ~o[x].added_to_compile_targets
          /\ \A x \in F : Right(o[x], x, F, B)
          /\ \A i \in DOMAIN g : Handed(o[g[i].target], g[i], F, B)
          /\ Ordered(g) /\ A \subseteq S /\ S \subseteq Affected /\ B \subseteq F /\ NotTwice(B)
      BY <2>1, <2>3 DEF Building
    <2>6. Complete'
      BY <1>10, <2>1 DEF Building
    <2> QED
      BY <1>1, <1>2, <2>1, <2>2, <2>4, <2>5, <2>6, BuildingNext
  <1>13. Covers => Covers'
    <2>1. NotTwice(build_targets) => NotTwice(build_targets)'
      BY <1>2, <1>3 DEF NotTwice
    <2> QED
      BY <1>2, <1>3, <1>4, <1>6, <2>1 DEF Covers, DoesTargetTypeRequireBuild
  <1> QED
    BY <1>2, <1>3, <1>8, <1>9, <1>11, <1>12, <1>13 DEF AnalyzerFacts

\* The analyzer starts when Load is through.
LEMMA NoLoadAfter ==
    ASSUME stage = "loaded", LoadNext
    PROVE  FALSE
  <1>1. ~BuildTargetsDict
    BY DEF BuildTargetsDict
  <1>2. ~QualifyDependencies
    BY DEF QualifyDependencies
  <1>3. ~RemoveSelfDependencies
    BY DEF RemoveSelfDependencies
  <1>4. ~ExpandWildcardDependencies
    BY DEF ExpandWildcardDependencies
  <1>5. ~RemoveLinkDependenciesFromNoneTargets
    BY DEF RemoveLinkDependenciesFromNoneTargets
  <1>6. ~FilterDependencies
    BY DEF FilterDependencies
  <1>7. ~VerifyNoGYPFileCircularDependencies
    BY DEF VerifyNoGYPFileCircularDependencies
  <1>8. ~BuildDependencyList
    BY DEF BuildDependencyList
  <1>9. ~FlattenToList
    BY DEF FlattenToList
  <1>10. ~EndFlatten
    BY DEF EndFlatten
  <1>11. ~PruneUnwantedTargets
    BY DEF PruneUnwantedTargets
  <1>12. ~VerifyNoCollidingTargets
    BY DEF VerifyNoCollidingTargets
  <1>13. ~AdjustStaticLibraryDependencies
    BY DEF AdjustStaticLibraryDependencies
  <1>14. ~Validate
    BY DEF Validate
  <1>15. ASSUME NEW k, NEW next, k \in {"all", "direct", "link"} PROVE ~DoDependentSettings(k, next)
    BY <1>15 DEF DoDependentSettings
  <1> QED
    BY <1>1, <1>2, <1>3, <1>4, <1>5, <1>6, <1>7, <1>8, <1>9, <1>10, <1>11, <1>12, <1>13, <1>14, <1>15 DEF LoadNext

\* The answer of the analyzer, in the words of the property.
LEMMA CoversFacts ==
    ASSUME DependsOn, Covers
    PROVE  AnalysisCoversChanges
  <1>1. PICK wanted : wanted = UNION {NeededBy(r) : r \in {x \in TopTargets : x[1] \in project.build_files}}
    OBVIOUS
  <1>2. wanted = Below(Roots)
    <2>1. Roots \subseteq DOMAIN targets
      BY DEF Roots, TopTargets
    <2>2. \A r \in Roots : NeededBy(r) \subseteq DOMAIN targets
      BY <2>1, NeededByFacts
    <2>3. wanted = UNION {NeededBy(r) : r \in Roots}
      BY <1>1 DEF Roots
    <2> QED
      BY <2>2, <2>3 DEF Below
  <1>3. PICK affected : affected = {t \in DOMAIN targets : NeededBy(t) \cap ChangedTargets # {}}
    OBVIOUS
  <1>4. affected = Affected
    BY <1>3 DEF Affected
  <1>5. /\ matched_search_targets = {mapping[n] : n \in DOMAIN mapping} \cap affected
        /\ \A t \in ChangedTargets \cap wanted :
                   DoesTargetTypeRequireBuild(targets[t]) =>
                       \E b \in build_targets : t \in NeededBy(b)
        /\ \A t \in affected \cap wanted : targets[t].type = "executable" => t \in build_targets
        /\ build_targets \subseteq affected
        /\ \A b, t \in build_targets :
                   b # t /\ t \in NeededBy(b) => targets[t].type = "executable"
    BY <1>2, <1>4 DEF Covers, Named, Below, NotTwice
  <1> QED
    BY <1>1, <1>3, <1>5 DEF AnalysisCoversChanges

AnalyzerInv == LoadInv /\ AnalyzerFacts

\* Every step of the analyzer keeps the invariant.
LEMMA AnalyzerStep ==
    ASSUME AnalyzerInv, AnalyzerNext, UNCHANGED <<targetVars, graphVars>>
    PROVE  AnalyzerFacts'
  <1>1. LoadInv /\ AnalyzerFacts
    BY DEF AnalyzerInv
  <1>2. CASE StartAnalysis
    BY <1>1, <1>2, StartAnalysisInv
  <1>3. CASE VisitTarget
    BY <1>1, <1>3, VisitTargetInv
  <1>4. CASE EndGenerateTargets
    BY <1>1, <1>4, EndGenerateInv
  <1>5. CASE SearchTarget
    BY <1>1, <1>5, SearchTargetInv
  <1>6. CASE DoesTargetDependOn
    BY <1>1, <1>6, DependOnInv
  <1>7. CASE NoDependencyMatches
    BY <1>1, <1>7, NoDependencyInv
  <1>8. CASE EndSearch
    BY <1>1, <1>8, EndSearchInv
  <1>9. CASE GetBuildTargets
    BY <1>1, <1>9, GetBuildInv
  <1>10. CASE VisitBackDep
    BY <1>1, <1>10, VisitBackInv
  <1>11. CASE AddBuildTarget
    BY <1>1, <1>11, AddInv
  <1>12. CASE EndAnalysis
    BY <1>1, <1>12, EndAnalysisInv
  <1> QED
    BY <1>2, <1>3, <1>4, <1>5, <1>6, <1>7, <1>8, <1>9, <1>10, <1>11, <1>12 DEF AnalyzerNext

\* What holds between the steps of Load and of the analyzer, whatever order the walks
\* through the sets of targets take.
THEOREM AnalyzerInvariant == AnalyzerSpec => []AnalyzerInv
  <1>1. LoadInit /\ AnalyzerInit => AnalyzerInv
    <2>1. SUFFICES ASSUME LoadInit, AnalyzerInit PROVE AnalyzerInv
      OBVIOUS
    <2>2. LoadInv
      BY <2>1, LoadInitInv
    <2>3. AnalyzerFacts
      BY <2>1 DEF AnalyzerFacts, AnalyzerInit
    <2> QED
      BY <2>2, <2>3 DEF AnalyzerInv
  <1>2. AnalyzerInv /\ [\/ LoadNext /\ UNCHANGED analyzerVars
                        \/ AnalyzerNext /\ UNCHANGED <<targetVars, graphVars>>]_<<targetVars, graphVars, analyzerVars>>
          => AnalyzerInv'
    <2>1. SUFFICES ASSUME AnalyzerInv,
                          \/ LoadNext /\ UNCHANGED analyzerVars
                          \/ AnalyzerNext /\ UNCHANGED <<targetVars, graphVars>>
                          \/ UNCHANGED <<targetVars, graphVars, analyzerVars>>
                   PROVE  AnalyzerInv'
      OBVIOUS
    <2>2. LoadInv /\ AnalyzerFacts
      BY <2>1 DEF AnalyzerInv
    <2>3. LoadInv'
      <3>1. LoadNext \/ UNCHANGED <<targetVars, graphVars>>
        BY <2>1
      <3> QED
        BY <2>2, <3>1, LoadStep
    <2>4. AnalyzerFacts'
      <3>1. CASE LoadNext /\ UNCHANGED analyzerVars
        <4>1. analyzing = "idle" /\ AnalyzerInit
          BY <2>2, <3>1, NoLoadAfter DEF AnalyzerFacts
        <4>2. AnalyzerInit' /\ analyzing' = "idle"
          BY <3>1, <4>1 DEF AnalyzerInit, analyzerVars
        <4> QED
          BY <4>2 DEF AnalyzerFacts
      <3>2. CASE AnalyzerNext /\ UNCHANGED <<targetVars, graphVars>>
        BY <2>1, <3>2, AnalyzerStep
      <3>3. CASE UNCHANGED <<targetVars, graphVars, analyzerVars>>
        BY <2>2, <3>3, AnalyzerStutters
      <3> QED
        BY <2>1, <3>1, <3>2, <3>3
    <2> QED
      BY <2>3, <2>4 DEF AnalyzerInv
  <1> QED
    BY <1>1, <1>2, PTL DEF AnalyzerSpec

\* GenerateOutput of the analyzer: the answer is right for every project.
THEOREM AnalyzerCoversChanges == AnalyzerSpec => []AnalysisCoversChanges
  <1>1. AnalyzerInv => AnalysisCoversChanges
    <2>1. SUFFICES ASSUME AnalyzerInv, analyzing = "done" PROVE AnalysisCoversChanges
      BY DEF AnalysisCoversChanges
    <2>2. Covers /\ DependsOn
      <3>1. LoadInv /\ Covers /\ stage = "loaded" /\ project.format = "analyzer"
        BY <2>1 DEF AnalyzerInv, AnalyzerFacts
      <3> QED
        BY <3>1, LoadedFacts DEF Loaded
    <2> QED
      BY <2>2, CoversFacts
  <1> QED
    BY <1>1, AnalyzerInvariant, PTL
=============================================================================
