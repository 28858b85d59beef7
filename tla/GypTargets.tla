----------------------------- MODULE GypTargets -----------------------------
(***************************************************************************)
(* The target half of Load in gyp's input.py: from the targets of the      *)
(* loaded build files to the list and the dictionaries that the generators *)
(* get.  A qualified target is <<build file, name, toolset>>, a dependency *)
(* as written has "" for a part that is left out and "*" for a wildcard.   *)
(* Of a target dictionary only what these stages read or change is kept.   *)
(***************************************************************************)
EXTENDS DependencyGraph, TLC

CONSTANTS Projects,     \* what gyp may be run on
          Dir           \* Dir[f]: the directory of build file f

VARIABLES project,      \* the build files with their targets, and the options
          targets,      \* targets[t]: the dictionary of qualified target t
          stage,        \* the next step of Load
          failure       \* the error Load ended with, "" for none

targetVars == <<project, targets, stage, failure>>

LinkableTypes == {"executable", "shared_library", "loadable_module"}
ValidTypes == LinkableTypes \cup {"static_library", "none"}

\* What the loaded build files hold: dictionaries with the keys that are looked up,
\* which are lists where gyp takes them for lists.
IsList(l) == Len(l) \in Nat /\ l = [i \in 1..Len(l) |-> l[i]]
WrittenKeys ==
    {"name", "type", "toolsets", "dependencies", "dependencies_original", "exports", "excluded",
     "exports_excluded", "patterns", "hard_dependency", "dependencies_traverse",
     "sharedlib_linksettings", "flags", "settings", "rules"}
IsTargetDict(d) ==
    /\ WrittenKeys \subseteq DOMAIN d
    /\ \A k \in {"toolsets", "dependencies", "exports", "excluded", "exports_excluded", "flags"} :
           IsList(d[k])
    /\ {"all", "direct", "link"} \subseteq DOMAIN d.settings
    /\ \A k \in {"all", "direct", "link"} :
           /\ {"flags", "link"} \subseteq DOMAIN d.settings[k]
           /\ IsList(d.settings[k].flags) /\ IsList(d.settings[k].link)

ASSUME ProjectsAssumption ==
    \A p \in Projects :
        /\ IsFiniteSet(DOMAIN p.files)
        /\ \A f \in DOMAIN p.files :
               IsList(p.files[f]) /\ \A i \in DOMAIN p.files[f] : IsTargetDict(p.files[f][i])

Files == DOMAIN project.files
BuildFile(t) == t[1]

\* The dictionary d with a value for key.
With(d, key, value) == [k \in DOMAIN d \cup {key} |-> IF k = key THEN value ELSE d[k]]

\* A fold over a list, from its first element on.
Folded(Op(_, _), base, l) ==
    LET upTo[i \in 0..Len(l)] == IF i = 0 THEN base ELSE Op(upTo[i - 1], l[i])
    IN  upTo[Len(l)]

Fail(what) == /\ stage' = "failed" /\ failure' = what
              /\ UNCHANGED <<project, targets>> /\ UNCHANGED graphVars
Proceed(to) == stage' = to /\ UNCHANGED <<project, failure>>

-----------------------------------------------------------------------------
\* ProcessToolsetsInDict: a target with several toolsets is copied for each.
ProcessToolsets(d) ==
    LET toolsets == IF project.multiple_toolsets THEN d.toolsets ELSE <<"target">>
    IN  IF toolsets = <<>> THEN <<>>
        ELSE [i \in 1..Len(toolsets) |->
                With(d, "toolset", toolsets[(i % Len(toolsets)) + 1])]

TargetsOf(f) == Folded(LAMBDA l, d : l \o ProcessToolsets(d), <<>>, project.files[f])

QualifiedTarget(f, d) == <<f, d.name, d.toolset>>

AllTargets ==
    UNION {{QualifiedTarget(f, TargetsOf(f)[i]) : i \in DOMAIN TargetsOf(f)} : f \in Files}

\* Two targets of one build file with the same name and toolset.
DuplicateTarget ==
    \E f \in Files : \E i, j \in DOMAIN TargetsOf(f) :
        i # j /\ QualifiedTarget(f, TargetsOf(f)[i]) = QualifiedTarget(f, TargetsOf(f)[j])

TargetDict(t) ==
    TargetsOf(t[1])[CHOOSE i \in DOMAIN TargetsOf(t[1]) :
                        QualifiedTarget(t[1], TargetsOf(t[1])[i]) = t]

BuildTargetsDict ==
    /\ stage = "dict"
    /\ IF DuplicateTarget THEN Fail("duplicate target")
       ELSE /\ targets' = [t \in AllTargets |-> TargetDict(t)]
            /\ Proceed("qualify")
            /\ UNCHANGED graphVars

\* ResolveTarget and QualifiedTarget.  A written build file stands for the file
\* that its relative path leads to.
Qualified(t, dep) ==
    <<IF dep[1] = "" THEN t[1] ELSE dep[1],
      dep[2],
      IF dep[3] = "" \/ ~project.multiple_toolsets THEN t[3] ELSE dep[3]>>
QualifiedList(t, l) == [i \in DOMAIN l |-> Qualified(t, l[i])]

\* A list other than dependencies may only name what is also in dependencies.
NotInDependencies ==
    \E t \in DOMAIN targets :
        ~(ToSet(QualifiedList(t, targets[t].excluded))
            \cup ToSet(QualifiedList(t, targets[t].exports))
            \cup ToSet(QualifiedList(t, targets[t].exports_excluded))
            \subseteq ToSet(QualifiedList(t, targets[t].dependencies)))

\* "dependencies/" and "export_dependent_settings/" are qualified as well: their
\* items are lists of an action and a pattern, which ResolveTarget cannot split.
HasPatterns == \E t \in DOMAIN targets : targets[t].patterns

QualifyDependencies ==
    /\ stage = "qualify"
    /\ IF NotInDependencies \/ HasPatterns THEN Fail("not in dependencies")
       ELSE /\ targets' = [t \in DOMAIN targets |->
                 [targets[t] EXCEPT !.dependencies = QualifiedList(t, @),
                                    !.excluded = QualifiedList(t, @),
                                    !.exports_excluded = QualifiedList(t, @),
                                    !.exports = QualifiedList(t, @)]]
            /\ Proceed("self")
            /\ UNCHANGED graphVars

\* The dependency sections of every target are replaced by what Change makes of
\* each, a function of the target and the list.
ChangeSections(Change(_, _)) ==
    targets' = [t \in DOMAIN targets |->
                  [targets[t] EXCEPT !.dependencies = Change(t, @),
                                     !.exports = Change(t, @)]]

RemoveSelfDependencies ==
    /\ stage = "self"
    /\ ChangeSections(LAMBDA t, l :
           IF targets[t].prune_self_dependency THEN Filter(l, t) ELSE l)
    /\ Proceed("wildcards")
    /\ UNCHANGED graphVars

IsWildcard(dep) == dep[2] = "*" \/ dep[3] = "*"

\* The targets a wildcard stands for, in the order of their build file.
Expanded(dep) ==
    LET fits(d) == /\ ~d.suppress_wildcard
                   /\ dep[2] \in {"*", d.name}
                   /\ dep[3] \in {"*", d.toolset}
        found == Select(TargetsOf(dep[1]), {d \in ToSet(TargetsOf(dep[1])) : fits(d)})
    IN  [i \in DOMAIN found |-> QualifiedTarget(dep[1], found[i])]

\* A target cannot depend on all the targets of its own build file, nor of one that
\* has not been loaded.
WrongWildcard ==
    \E t \in DOMAIN targets :
        \E dep \in ToSet(targets[t].dependencies) \cup ToSet(targets[t].exports) :
            IsWildcard(dep) /\ (dep[1] = BuildFile(t) \/ dep[1] \notin Files)

ExpandWildcardDependencies ==
    /\ stage = "wildcards"
    /\ IF WrongWildcard THEN Fail("wrong wildcard")
       ELSE /\ ChangeSections(LAMBDA t, l :
                   Folded(LAMBDA out, dep :
                            out \o (IF IsWildcard(dep) THEN Expanded(dep) ELSE <<dep>>),
                          <<>>, l))
            /\ Proceed("links")
            /\ UNCHANGED graphVars

\* A target of type none does not depend on what is only there to be linked.
\* The loop looks up every dependency, also of a target that does not exist.
RemoveLinkDependenciesFromNoneTargets ==
    /\ stage = "links"
    /\ LET none == {t \in DOMAIN targets : targets[t].type = "none"}
           missing == \E t \in none :
                        ~(ToSet(targets[t].dependencies) \cup ToSet(targets[t].exports)
                            \subseteq DOMAIN targets)
       IN  IF missing THEN Fail("dependency not found")
           ELSE /\ ChangeSections(LAMBDA t, l :
                       IF t \notin none THEN l
                       ELSE Select(l, {dep \in ToSet(l) : ~targets[dep].link_dependency}))
                /\ Proceed("filters")
                /\ UNCHANGED graphVars

\* The exclusion lists of the dependency sections, then RemoveDuplicateDependencies.
\* There are no patterns: QualifyDependencies has failed on them.
FilterDependencies ==
    /\ stage = "filters"
    /\ targets' = [t \in DOMAIN targets |->
         [targets[t] EXCEPT !.dependencies = Unify(Kept(@, targets[t].excluded, <<>>)),
                            !.exports = Unify(Kept(@, targets[t].exports_excluded, <<>>))]]
    /\ Proceed(IF project.circular_check THEN "files" ELSE "graph")
    /\ UNCHANGED graphVars

-----------------------------------------------------------------------------
\* VerifyNoGYPFileCircularDependencies: a build file may refer to itself.
FileGraph ==
    [f \in {BuildFile(t) : t \in DOMAIN targets} |->
        {BuildFile(dep) : dep \in UNION {ToSet(targets[t].dependencies) :
                                    t \in {u \in DOMAIN targets : BuildFile(u) = f}}} \ {f}]

VerifyNoGYPFileCircularDependencies ==
    /\ stage = "files"
    /\ IF \E f \in DOMAIN FileGraph : ~(FileGraph[f] \subseteq DOMAIN FileGraph)
       THEN Fail("build file not found")
       ELSE /\ StartFlatten(FileGraph)
            /\ Proceed("flatten files")
            /\ UNCHANGED targets

\* The paths FindCycles takes from the root along the dependents, last node first:
\* every step leads to a node that is not on the path.
NextNodes(g, path) ==
    IF path = <<>> THEN {n \in DOMAIN g : g[n] = {}} ELSE Dependents(g, path[1])
Paths(g) ==
    LET paths[k \in 0..Cardinality(DOMAIN g)] ==
            IF k = 0 THEN {<<>>}
            ELSE UNION {{<<n>> \o path : n \in NextNodes(g, path) \ ToSet(path)} :
                          path \in paths[k - 1]}
    IN  UNION {paths[k] : k \in 0..Cardinality(DOMAIN g)}

\* Mutation: the node that closes the cycle is left out.
FindCyclesOpen(g) ==
    UNION {{SubSeq(path, 1, CHOOSE i \in DOMAIN path : path[i] = n) :
              n \in NextNodes(g, path) \cap ToSet(path)} : path \in Paths(g)}

\* FindCycles: every time a path comes back to one of its nodes, a cycle.
FindCycles(g) ==
    UNION {{<<n>> \o SubSeq(path, 1, CHOOSE i \in DOMAIN path : path[i] = n) :
              n \in NextNodes(g, path) \cap ToSet(path)} : path \in Paths(g)}

\* BuildDependencyList.
BuildDependencyList ==
    /\ stage = "graph"
    /\ IF \E t \in DOMAIN targets : ~(ToSet(targets[t].dependencies) \subseteq DOMAIN targets)
       THEN Fail("dependency not found")
       ELSE /\ StartFlatten([t \in DOMAIN targets |-> ToSet(targets[t].dependencies)])
            \* The nodes keep the dependencies in order.
            /\ targets' = [t \in DOMAIN targets |->
                             With(targets[t], "node", targets[t].dependencies)]
            /\ Proceed("flatten targets")

FlattenToList ==
    /\ stage \in {"flatten files", "flatten targets"}
    /\ PopZero
    /\ UNCHANGED targetVars

EndFlatten ==
    /\ stage \in {"flatten files", "flatten targets"}
    /\ in_degree_zeros = {}
    /\ IF Circular THEN Fail(IF stage = "flatten files" THEN "circular files" ELSE "circular")
       ELSE /\ Proceed(IF stage = "flatten files" THEN "graph" ELSE "prune")
            /\ UNCHANGED <<graphVars, targets>>

-----------------------------------------------------------------------------
\* The recursive walks over the nodes.  The targets of todo are looked at in turn.
\* One that a walk may enter, which are those in the domain of next, and has not
\* found before is found, and next is what next says of it, then the rest of todo.
Walk(begin, list, next) ==
    LET walk[i \in 0..Cardinality(DOMAIN next)] ==
            IF i = 0 THEN [found |-> begin, todo |-> list]
            ELSE LET w == walk[i - 1]
                     left == Select(w.todo, DOMAIN next \ ToSet(w.found))
                 IN  IF left = <<>> THEN w
                     ELSE [found |-> Append(w.found, Head(left)),
                           todo |-> next[Head(left)] \o Tail(left)]
    IN  walk[Cardinality(DOMAIN next)].found

DeepDependencies(t) ==
    Walk(<<>>, targets[t].node, [u \in DOMAIN targets |-> targets[u].node])

\* Mutation: what dependencies export is not followed.
DirectDependencies(t) == targets[t].node

\* What a dependency exports goes in right behind it, and is looked at in its turn.
\* The loop comes to grief when it looks at one that is not a target.
DirectAndImportedDependencies(t) ==
    LET list[i \in 0..Cardinality(DOMAIN targets)] ==
            IF i = 0 THEN targets[t].node
            ELSE LET l == list[i - 1]
                 IN  IF i > Len(l) \/ l[i] \notin DOMAIN targets THEN l
                     ELSE LET exports == targets[l[i]].exports
                          IN  SubSeq(l, 1, i) \o Select(exports, ToSet(exports) \ ToSet(l))
                                \o SubSeq(l, i + 1, Len(l))
    IN  list[Cardinality(DOMAIN targets)]

\* _LinkDependenciesInternal: what is linked into a linkable target.  Programs and
\* modules are not, what is linked into a shared library stays there.
LinkDependencies(t, shared) ==
    LET entered == {u \in DOMAIN targets :
                      /\ targets[u].type \notin {"executable", "loadable_module"}
                      /\ targets[u].type = "shared_library" => shared}
        ends(u) == \/ targets[u].type \in LinkableTypes
                   \/ targets[u].type = "none" /\ ~targets[u].dependencies_traverse
    IN  IF targets[t].type \notin LinkableTypes THEN <<>>
        ELSE Walk(<<t>>, targets[t].node,
                  [u \in entered |-> IF ends(u) THEN <<>> ELSE targets[u].node])

DependenciesForLinkSettings(t) == LinkDependencies(t, targets[t].sharedlib_linksettings)
DependenciesToLinkAgainst(t) == LinkDependencies(t, TRUE)

-----------------------------------------------------------------------------
\* PruneUnwantedTargets: with --root-target only these and what they need stay.
Wanted ==
    LET roots == {t \in DOMAIN targets : t[2] \in project.root_targets}
    IN  roots \cup UNION {ToSet(DeepDependencies(t)) : t \in roots}

PruneUnwantedTargets ==
    /\ stage = "prune"
    /\ IF project.root_targets = {} THEN UNCHANGED <<targets, graphVars>> /\ Proceed("colliding")
       ELSE IF \E name \in project.root_targets : \A t \in DOMAIN targets : t[2] # name
       THEN Fail("root target not found")
       ELSE /\ targets' = [t \in Wanted |-> targets[t]]
            /\ PruneList(Wanted)
            /\ Proceed("colliding")

VerifyNoCollidingTargets ==
    /\ stage = "colliding"
    /\ IF \E t, u \in DOMAIN targets :
            t # u /\ Dir[t[1]] = Dir[u[1]] /\ t[2] = u[2] /\ t[3] = u[3]
       THEN Fail("colliding targets")
       ELSE /\ Proceed("all")
            /\ UNCHANGED <<targets, graphVars>>

\* DoDependentSettings: the settings of each dependency are merged into the
\* target, and then no target keeps them.  Settings for all or for direct
\* dependents may hold link_settings, which go to the target's own.
Merged(to, fro) == MergeListsAppend(to, fro, ToSet(fro))

DependenciesFor(key, t) ==
    CASE key = "all" -> DeepDependencies(t)
      [] key = "direct" -> DirectAndImportedDependencies(t)
      [] key = "link" -> DependenciesForLinkSettings(t)

NoSettings == [flags |-> <<>>, link |-> <<>>]

MergeSettings(d, s, key) ==
    [d EXCEPT !.flags = Merged(@, s.flags),
              !.settings.link.flags = IF key = "link" THEN @ ELSE Merged(@, s.link)]

\* A setting may be exported of a dependency that the filters have removed, and that
\* need not be a target any more.
ExportNotFound ==
    \E t \in DOMAIN targets :
        ~(ToSet(DirectAndImportedDependencies(t)) \subseteq DOMAIN targets)

DoDependentSettings(key, next) ==
    /\ stage = key
    /\ IF key = "direct" /\ ExportNotFound THEN Fail("export not found")
       ELSE /\ targets' = [t \in DOMAIN targets |->
                 [Folded(LAMBDA d, dep : MergeSettings(d, targets[dep].settings[key], key),
                         targets[t], DependenciesFor(key, t))
                     EXCEPT !.settings[key] = NoSettings]]
            /\ Proceed(next)
            /\ UNCHANGED graphVars

-----------------------------------------------------------------------------
\* AdjustStaticLibraryDependencies.  A static library keeps, of its direct and
\* imported dependencies, the hard static libraries and its direct dependencies
\* of other types.
StaticDependencies(t) ==
    Select(DirectAndImportedDependencies(t),
        {dep \in DOMAIN targets : IF targets[dep].type = "static_library"
                                  THEN targets[dep].hard_dependency
                                  ELSE dep \in ToSet(targets[t].dependencies)})

\* Mutation: the target itself is not taken out.
LinkableDependenciesWithSelf(t) ==
    Unify(targets[t].dependencies \o DependenciesToLinkAgainst(t))

\* A linkable target gets everything it links, sorted from dependents to
\* dependencies when the generator wants that.
LinkableDependencies(t) ==
    LET all == Unify(targets[t].dependencies \o Filter(DependenciesToLinkAgainst(t), t))
    IN  IF project.sorted_dependencies
        THEN Select(Reverse(flat_list), ToSet(all))
        ELSE all

AdjustedDependencies(t) ==
    CASE targets[t].type = "static_library" -> StaticDependencies(t)
      [] targets[t].type \in LinkableTypes -> LinkableDependencies(t)
      [] OTHER -> targets[t].dependencies

AdjustStaticLibraryDependencies ==
    /\ stage = "adjust"
    /\ targets' = IF ~project.adjust_static_libraries THEN targets
                  ELSE [t \in DOMAIN targets |->
                          [targets[t] EXCEPT
                             !.dependencies = AdjustedDependencies(t),
                             !.dependencies_original =
                                 IF targets[t].type = "static_library"
                                 THEN targets[t].dependencies ELSE @]]
    /\ Proceed("validate")
    /\ UNCHANGED graphVars

-----------------------------------------------------------------------------
\* ValidateTargetType, ValidateSourcesInTarget, ValidateRulesInTarget and
\* ValidateActionsInTarget.  A source ends with its stem and its extension.
CompiledExtensions == {"c", "cc", "cpp", "m", "s"}

InvalidSources(d) ==
    /\ project.duplicate_basename_check
    /\ d.type \in {"static_library", "shared_library"}
    /\ \E i, j \in DOMAIN d.sources :
           /\ i # j
           /\ Last(d.sources[i]) \in CompiledExtensions /\ Last(d.sources[j]) \in CompiledExtensions
           /\ Last(Front(d.sources[i])) = Last(Front(d.sources[j]))

InvalidRules(d) ==
    \E i, j \in DOMAIN d.rules :
        i # j /\ (d.rules[i].rule_name = d.rules[j].rule_name
                    \/ d.rules[i].extension = d.rules[j].extension)

InvalidActions(d) == \E i \in DOMAIN d.actions : d.actions[i].action_name = ""

\* A rule applies to the sources with its extension, on the Mac also to the resources
\* (generator_extra_sources_for_rules).
RuleCandidates(d) ==
    d.sources \o (IF project.flavor = "mac" THEN d.mac_bundle_resources ELSE <<>>)
WithRuleSources(d) ==
    [d EXCEPT !.rules = [i \in DOMAIN d.rules |->
        With(d.rules[i], "rule_sources",
             SelectSeq(RuleCandidates(d), LAMBDA s : Last(s) = d.rules[i].extension))]]

Validate ==
    /\ stage = "validate"
    /\ IF \E t \in DOMAIN targets :
            LET d == targets[t]
            IN  \/ d.type \notin ValidTypes
                \/ d.standalone_static_library /\ d.type # "static_library"
                \/ InvalidSources(d) \/ InvalidRules(d) \/ InvalidActions(d)
       THEN Fail("invalid target")
       ELSE /\ targets' = [t \in DOMAIN targets |-> WithRuleSources(targets[t])]
            /\ Proceed("loaded")
            /\ UNCHANGED graphVars

-----------------------------------------------------------------------------
LoadInit ==
    /\ project \in Projects
    /\ targets = [t \in {} |-> <<>>]
    /\ stage = "dict"
    /\ failure = ""
    /\ nodes = [t \in {} |-> {}] /\ in_degree_zeros = {} /\ flat_list = <<>>

LoadNext ==
    \/ BuildTargetsDict
    \/ QualifyDependencies
    \/ RemoveSelfDependencies
    \/ ExpandWildcardDependencies
    \/ RemoveLinkDependenciesFromNoneTargets
    \/ FilterDependencies
    \/ VerifyNoGYPFileCircularDependencies
    \/ BuildDependencyList
    \/ FlattenToList
    \/ EndFlatten
    \/ PruneUnwantedTargets
    \/ VerifyNoCollidingTargets
    \/ DoDependentSettings("all", "direct")
    \/ DoDependentSettings("direct", "link")
    \/ DoDependentSettings("link", "adjust")
    \/ AdjustStaticLibraryDependencies
    \/ Validate

LoadSpec == LoadInit /\ [][LoadNext]_<<targetVars, graphVars>>

-----------------------------------------------------------------------------
\* The smallest set that holds base and with every t the set Step[t].
Closure(base, Step) ==
    LET closed == {S \in SUBSET DOMAIN Step :
                      base \subseteq S /\ \A t \in S : Step[t] \subseteq S}
    IN  {t \in DOMAIN Step : \A S \in closed : t \in S}

\* The dependencies of the targets that were not pruned.
Graph == [t \in DOMAIN targets |-> nodes[t]]

Flags(t) == ToSet(targets[t].flags)
Original(t) == CHOOSE d \in ToSet(TargetsOf(t[1])) : QualifiedTarget(t[1], d) = t
LinkFlags(t) == ToSet(Original(t).settings.link.flags)

\* A list that FlattenToList leaves too short means a cycle, and nothing else does:
\* EndFlatten stops gyp exactly when the targets, or the files, depend on themselves.
ShortListMeansCycle ==
    stage \in {"flatten files", "flatten targets"} => ShortMeansCycle

\* What the settings of one kind of all the targets of S hold.
AllFlags(S) == UNION {ToSet(Original(u).settings.all.flags) : u \in S}
AllLink(S) == UNION {ToSet(Original(u).settings.all.link) : u \in S}
DirectFlags(S) == UNION {ToSet(Original(u).settings.direct.flags) : u \in S}
DirectLink(S) == UNION {ToSet(Original(u).settings.direct.link) : u \in S}

\* Everything a target depends on; its dependencies and what they export step by step.
Deep(t) == Closure(Graph[t], Graph)
ExportsOf == [u \in DOMAIN targets |-> ToSet(targets[u].exports)]
Imported(t) == Closure(Graph[t], ExportsOf)

\* What is linked into a target that is linked: linking ends at what is linked itself.
Ends(u) == \/ targets[u].type \in LinkableTypes
           \/ targets[u].type = "none" /\ ~targets[u].dependencies_traverse
Through == [u \in DOMAIN targets |-> IF Ends(u) THEN {} ELSE Graph[u]]
LinkSources(t, shared) ==
    {t} \cup {u \in Closure(Graph[t], Through) :
                \/ targets[u].type \notin LinkableTypes
                \/ shared /\ targets[u].type = "shared_library"}
\* The link settings a target passes on.
LinkOf(u) == LinkFlags(u) \cup AllLink(Deep(u)) \cup DirectLink(Imported(u))

\* What a target is due: its own flags; of everything it depends on, however far,
\* the settings for all dependents; of its dependencies, and of what they export
\* step by step, those for direct dependents; and if it is linked, the link
\* settings of what is linked into it.
Due(t) ==
    ToSet(Original(t).flags) \cup AllFlags(Deep(t)) \cup DirectFlags(Imported(t))
    \cup (IF targets[t].type \in LinkableTypes
          THEN UNION {LinkOf(u) : u \in LinkSources(t, targets[t].sharedlib_linksettings)}
          ELSE {})

\* DoDependentSettings: when the settings have been published every target has
\* exactly the flags that are due to it, also where a setting reaches it along
\* several ways or through the settings of another kind.
SettingsReachTheirTargets ==
    stage = "adjust" => \A t \in DOMAIN targets : Flags(t) = Due(t)

\* QualifyDependencies refuses exports that are no dependencies, but the filters come
\* after it and may remove the dependency and leave the export.
ExportsAreDependencies ==
    \A t \in DOMAIN targets : ToSet(targets[t].exports) \subseteq Graph[t]

\* AdjustStaticLibraryDependencies changes the dependencies but no target comes to
\* depend on one that is listed after it: the generators go through the list and
\* pass over a dependency they have not met yet without a word.  It may happen only
\* where the filters have removed a dependency that is exported.
AdjustedDependenciesComeEarlier ==
    stage \in {"validate", "loaded"} /\ (project.adjust_static_libraries => ExportsAreDependencies) =>
        \A i \in DOMAIN flat_list :
            ToSet(targets[flat_list[i]].dependencies) \subseteq
                {flat_list[j] : j \in 1..(i - 1)}

\* A linkable target depends on every static library that is linked into it,
\* through others or not, and when the list is sorted no library stands before
\* one that needs it.
LinksAreComplete ==
    stage \in {"validate", "loaded"} /\ project.adjust_static_libraries =>
        \A t \in DOMAIN targets : targets[t].type \in LinkableTypes =>
            LET static == [u \in DOMAIN Graph |->
                             IF u = t \/ targets[u].type = "static_library" THEN Graph[u] ELSE {}]
                needed == {u \in Closure(Graph[t], static) : targets[u].type = "static_library"}
                deps == targets[t].dependencies
            IN  /\ needed \subseteq ToSet(deps)
                /\ project.sorted_dependencies =>
                     \A i, j \in DOMAIN deps : deps[i] \in Graph[deps[j]] => j < i

\* A static library keeps every hard static library among its dependencies and what
\* they export, step by step: AdjustStaticLibraryDependencies removes the libraries
\* between them, and the order of the build is in these alone.
HardStaticDependenciesStay ==
    stage \in {"validate", "loaded"} /\ project.adjust_static_libraries =>
        \A t \in DOMAIN targets : targets[t].type = "static_library" =>
            \A u \in Imported(t) :
                targets[u].hard_dependency /\ targets[u].type = "static_library"
                    => u \in ToSet(targets[t].dependencies)

\* The comment in AdjustStaticLibraryDependencies: a non-hard dependency can be
\* removed, but a hard dependency that it exports must be added to the target to
\* keep the order.  The comment says so of a hard target of any type; the loop
\* removes one that is no static library and no direct dependency.
HardDependenciesStay ==
    stage \in {"validate", "loaded"} /\ project.adjust_static_libraries =>
        \A t \in DOMAIN targets : targets[t].type = "static_library" =>
            \A u \in Imported(t) :
                targets[u].hard_dependency => u \in ToSet(targets[t].dependencies)

\* VerifyNoGYPFileCircularDependencies reports cycles of the file graph only.
ReportedCyclesAreCycles ==
    failure = "circular files" =>
        \A c \in FindCycles(nodes) :
            c[1] = c[Len(c)] /\ \A i \in 1..(Len(c) - 1) : c[i + 1] \in nodes[c[i]]

\* PruneUnwantedTargets leaves no target without one it depends on.
PruningKeepsDependencies ==
    stage \in {"colliding", "loaded"} =>
        \A t \in DOMAIN targets : ToSet(targets[t].dependencies) \subseteq DOMAIN targets

\* Dependencies on themselves are found and reported: a list that comes out short
\* means a cycle, and what FindCycles prints are cycles.
CyclesAreFound == ShortListMeansCycle /\ ReportedCyclesAreCycles

\* What pruning and AdjustStaticLibraryDependencies do to the dependencies is safe for
\* the generators: every dependency is there and comes earlier, everything that is
\* linked is there, and hard static libraries stay.
AdjustedDependenciesAreSafe ==
    /\ PruningKeepsDependencies
    /\ AdjustedDependenciesComeEarlier
    /\ LinksAreComplete
    /\ HardStaticDependenciesStay
=============================================================================
