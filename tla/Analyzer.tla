------------------------------ MODULE Analyzer ------------------------------
(***************************************************************************)
(* gyp's analyzer generator: given files that have changed and the names   *)
(* of targets, it finds which of these targets depend on the files, and    *)
(* which targets have to be built.  The walks through the graph are        *)
(* recursive and go through sets, in any order: a frame of the recursion   *)
(* has the target and those it still has to look at.                       *)
(***************************************************************************)
EXTENDS GypTargets

VARIABLES analyzing,            \* what GenerateOutput is doing
          objects,              \* objects[t]: the Target object of t
          targets_to_visit,     \* the stack of _GenerateTargets
          matching_targets,     \* in the order in which they were found
          roots,
          build_file_targets,
          mapping,              \* a target for each of the given names
          frames,               \* the recursion, innermost last
          to_search,            \* the targets still to be searched
          matched_search_targets,
          build_targets

analyzerVars == <<analyzing, objects, targets_to_visit, matching_targets, roots,
                  build_file_targets, mapping, frames, to_search, matched_search_targets,
                  build_targets>>

\* generator_wants_static_library_dependencies_adjusted is False: the dependencies are
\* as written.
ASSUME AnalyzerAssumption ==
    \A p \in Projects : p.format = "analyzer" => ~p.adjust_static_libraries

Config == project.config

-----------------------------------------------------------------------------
(***************************************************************************)
(* The files of a target, relative to the top of the source tree.          *)
(***************************************************************************)
\* The directory of a build file as a path, and split: the empty path has one part.
BasePath(f) == IF Dir[f] = "" THEN <<>> ELSE <<Dir[f]>>
BasePathComponents(f) == <<Dir[f]>>

\* _ResolveParent: the empty path if it leaves the source tree.
ResolveParent(path, components) ==
    LET depth == CHOOSE n \in 0..Len(path) :
                    (\A i \in 1..n : path[i] = "..") /\ path[n + 1] # ".."
    IN  IF depth > Len(components) THEN <<>>
        ELSE SubSeq(components, 1, Len(components) - depth) \o SubSeq(path, depth + 1, Len(path))

\* _AddSources: paths that start with a variable, expanded or not, are left out.
AddSources(sources, f) ==
    {IF path[1] = ".." THEN ResolveParent(path, BasePathComponents(f)) ELSE BasePath(f) \o path :
       path \in {p \in ToSet(sources) : p[1] \notin {"$", "!!!"}}} \ {<<>>}

ExtractSources(f, d) ==
    AddSources(d.sources, f)
    \cup UNION {AddSources(d.actions[i].inputs, f) : i \in DOMAIN d.actions}
    \cup UNION {AddSources(d.rules[i].inputs, f) : i \in DOMAIN d.rules}

WasBuildFileModified(f) ==
    \/ BasePath(f) \o <<f, "gyp">> \in Config.files
    \/ \E inc \in project.included_files[f] : BasePath(f) \o inc \in Config.files

Matches(t) ==
    WasBuildFileModified(t[1]) \/ ExtractSources(t[1], targets[t]) \cap Config.files # {}

DoesTargetTypeRequireBuild(d) == d.type # "none" \/ d.actions # <<>> \/ d.rules # <<>>

-----------------------------------------------------------------------------
NewTarget ==
    [deps |-> {}, back_deps |-> {}, match_status |-> "TBD", visited |-> FALSE,
     requires_build |-> FALSE, is_executable |-> FALSE, in_roots |-> FALSE,
     added_to_compile_targets |-> FALSE]
GetOrCreateTargetByName(t) == IF t \in DOMAIN objects THEN objects[t] ELSE NewTarget

AnalyzerInit ==
    /\ analyzing = "idle" /\ objects = [t \in {} |-> NewTarget] /\ targets_to_visit = <<>>
    /\ matching_targets = <<>> /\ roots = {} /\ build_file_targets = {} /\ mapping = <<>>
    /\ frames = <<>> /\ to_search = {} /\ matched_search_targets = {} /\ build_targets = {}

\* GenerateOutput up to the first walk: a config that cannot be used is an error, and
\* when a file that every build file includes has changed, everything has.
StartAnalysis ==
    /\ stage = "loaded" /\ project.format = "analyzer" /\ analyzing = "idle"
    /\ analyzing' = CASE Config.files = {} -> "error"
                      [] Config.files \cap project.options_includes # {} -> "all changed"
                      [] OTHER -> "generate targets"
    /\ targets_to_visit' = flat_list
    /\ UNCHANGED <<objects, matching_targets, roots, build_file_targets, mapping, frames,
                   to_search, matched_search_targets, build_targets>>

\* One round of the loop of _GenerateTargets.  A target that is visited before any
\* that depends on it is a root until one of these comes along.
Visited(t, d) ==
    [x \in DOMAIN objects \cup {t} \cup ToSet(d.dependencies) |->
        CASE x = t ->
               [GetOrCreateTargetByName(t) EXCEPT
                    !.visited = TRUE,
                    !.requires_build = DoesTargetTypeRequireBuild(d),
                    !.is_executable = d.type = "executable",
                    !.match_status = IF Matches(t) THEN "MATCHES" ELSE @,
                    !.deps = ToSet(d.dependencies)]
          [] x # t /\ x \in ToSet(d.dependencies) ->
               [GetOrCreateTargetByName(x) EXCEPT !.back_deps = @ \cup {t}]
          [] OTHER -> objects[x]]

VisitTarget ==
    /\ analyzing = "generate targets" /\ targets_to_visit # <<>>
    /\ \E t \in {Last(targets_to_visit)} :
         IF t \in DOMAIN objects /\ objects[t].visited
         THEN /\ targets_to_visit' = Front(targets_to_visit)
              /\ UNCHANGED <<objects, matching_targets, roots, build_file_targets>>
         ELSE /\ targets_to_visit' = Front(targets_to_visit) \o targets[t].dependencies
              /\ objects' = Visited(t, targets[t])
              /\ roots' = (IF t \in DOMAIN objects THEN roots ELSE roots \cup {t})
                              \ (DOMAIN objects \cap ToSet(targets[t].dependencies))
              /\ build_file_targets' = IF t[1] \in project.build_files
                                       THEN build_file_targets \cup {t} ELSE build_file_targets
              /\ matching_targets' = IF Matches(t) THEN Append(matching_targets, t)
                                     ELSE matching_targets
    /\ UNCHANGED <<analyzing, mapping, frames, to_search, matched_search_targets, build_targets>>

\* _GetUnqualifiedToTargetMapping: some target for each name that there is.
NamesFound == {n \in Config.targets : \E t \in DOMAIN objects : t[2] = n}
EndGenerateTargets ==
    /\ analyzing = "generate targets" /\ targets_to_visit = <<>>
    /\ roots' = roots \cap build_file_targets
    /\ \E m \in [NamesFound -> DOMAIN objects] :
           /\ \A n \in NamesFound : m[n][2] = n
           /\ mapping' = m
           /\ to_search' = IF matching_targets = <<>> THEN {} ELSE {m[n] : n \in NamesFound}
    /\ analyzing' = IF matching_targets = <<>> THEN "done" ELSE "search"
    /\ UNCHANGED <<objects, targets_to_visit, matching_targets, build_file_targets, frames,
                   matched_search_targets, build_targets>>

-----------------------------------------------------------------------------
Frame(t, add, todo) == [target |-> t, add_if_no_ancestor |-> add, todo |-> todo]
Top == Last(frames)
Doing(what) == analyzing = what /\ UNCHANGED <<analyzing, targets_to_visit, roots, build_file_targets, mapping>>
Looked(x) == [frames EXCEPT ![Len(frames)].todo = @ \ {x}]

\* _GetTargetsDependingOn: the next of the given targets.
Matched(t) == objects[t].match_status \in {"MATCHES", "MATCHES_BY_DEPENDENCY"}
SearchTarget ==
    /\ Doing("search") /\ frames = <<>>
    /\ \E t \in to_search :
         IF objects[t].match_status = "TBD"
         THEN /\ frames' = <<Frame(t, FALSE, objects[t].deps)>>
              /\ UNCHANGED <<to_search, matched_search_targets>>
         ELSE /\ to_search' = to_search \ {t}
              /\ matched_search_targets' = IF Matched(t) THEN matched_search_targets \cup {t}
                                           ELSE matched_search_targets
              /\ UNCHANGED frames
    /\ UNCHANGED <<objects, matching_targets, build_targets>>

\* _DoesTargetDependOn: look at a dependency, first asking the same of it if nobody has.
DoesTargetDependOn ==
    /\ Doing("search") /\ frames # <<>> /\ Top.todo # {}
    /\ \E dep \in Top.todo :
         CASE objects[dep].match_status = "TBD" ->
                frames' = Append(frames, Frame(dep, FALSE, objects[dep].deps)) /\ UNCHANGED objects
           [] objects[dep].match_status = "DOESNT_MATCH" ->
                frames' = Looked(dep) /\ UNCHANGED objects
           [] OTHER ->
                /\ frames' = Front(frames)
                /\ objects' = [objects EXCEPT ![Top.target].match_status = "MATCHES_BY_DEPENDENCY"]
    /\ UNCHANGED <<matching_targets, to_search, matched_search_targets, build_targets>>
NoDependencyMatches ==
    /\ Doing("search") /\ frames # <<>> /\ Top.todo = {}
    /\ frames' = Front(frames)
    /\ objects' = [objects EXCEPT ![Top.target].match_status = "DOESNT_MATCH"]
    /\ UNCHANGED <<matching_targets, to_search, matched_search_targets, build_targets>>

\* Mutation: the visited flags are not reset.
VisitedKept == objects

\* The visited flags are used again.
ResetVisited == [t \in DOMAIN objects |-> [objects[t] EXCEPT !.visited = FALSE]]
EndSearch ==
    /\ analyzing = "search" /\ frames = <<>> /\ to_search = {}
    /\ analyzing' = "build targets"
    /\ objects' = ResetVisited
    /\ UNCHANGED <<targets_to_visit, matching_targets, roots, build_file_targets, mapping, frames,
                   to_search, matched_search_targets, build_targets>>

-----------------------------------------------------------------------------
\* _AddBuildTargets is called for a target, if that has not happened yet.
Enter(t, add) ==
    /\ frames' = Append(frames, Frame(t, add, objects[t].back_deps))
    /\ objects' = [objects EXCEPT ![t].visited = TRUE,
                                  ![t].in_roots = objects[t].back_deps = {} /\ t \in roots]
GetBuildTargets ==
    /\ Doing("build targets") /\ frames = <<>> /\ matching_targets # <<>>
    /\ matching_targets' = Tail(matching_targets)
    /\ IF objects[Head(matching_targets)].visited THEN UNCHANGED <<frames, objects>>
       ELSE Enter(Head(matching_targets), TRUE)
    /\ UNCHANGED <<to_search, matched_search_targets, build_targets>>

\* What depends on a target goes first, and hands down whether it is built.
HandedDown(t, b) ==
    [objects EXCEPT
        ![t].added_to_compile_targets = @ \/ objects[b].added_to_compile_targets,
        ![t].in_roots = @ \/ objects[b].in_roots]
VisitBackDep ==
    /\ Doing("build targets") /\ frames # <<>> /\ Top.todo # {}
    /\ \E b \in Top.todo :
         IF objects[b].visited THEN frames' = Looked(b) /\ objects' = HandedDown(Top.target, b)
         ELSE Enter(b, FALSE)
    /\ UNCHANGED <<matching_targets, to_search, matched_search_targets, build_targets>>

ToBeBuilt(o, add) ==
    /\ o.in_roots
    /\ o.is_executable \/ (~o.added_to_compile_targets /\ (add \/ o.requires_build))
AddBuildTarget ==
    /\ Doing("build targets") /\ frames # <<>> /\ Top.todo = {}
    /\ IF ToBeBuilt(objects[Top.target], Top.add_if_no_ancestor)
       THEN /\ build_targets' = build_targets \cup {Top.target}
            /\ objects' = [objects EXCEPT ![Top.target].added_to_compile_targets = TRUE]
       ELSE UNCHANGED <<build_targets, objects>>
    /\ frames' = Front(frames)
    /\ UNCHANGED <<matching_targets, to_search, matched_search_targets>>

EndAnalysis ==
    /\ analyzing = "build targets" /\ frames = <<>> /\ matching_targets = <<>>
    /\ analyzing' = "done"
    /\ UNCHANGED <<objects, targets_to_visit, matching_targets, roots, build_file_targets, mapping,
                   frames, to_search, matched_search_targets, build_targets>>

AnalyzerNext ==
    \/ StartAnalysis
    \/ VisitTarget
    \/ EndGenerateTargets
    \/ SearchTarget
    \/ DoesTargetDependOn
    \/ NoDependencyMatches
    \/ EndSearch
    \/ GetBuildTargets
    \/ VisitBackDep
    \/ AddBuildTarget
    \/ EndAnalysis

\* Load, and then the analyzer.
AnalyzerSpec ==
    /\ LoadInit /\ AnalyzerInit
    /\ [][\/ LoadNext /\ UNCHANGED analyzerVars
          \/ AnalyzerNext /\ UNCHANGED <<targetVars, graphVars>>]_<<targetVars, graphVars, analyzerVars>>

-----------------------------------------------------------------------------
NeedsGraph == [t \in DOMAIN targets |-> ToSet(targets[t].dependencies)]
NeededBy(t) == {t} \cup Closure(NeedsGraph[t], NeedsGraph)
ChangedTargets == {t \in DOMAIN targets : Matches(t)}
\* The targets on which none depends.
TopTargets == {t \in DOMAIN targets : \A x \in DOMAIN targets : t \notin NeedsGraph[x]}

\* The answer of the analyzer is right, in whatever order it walks through the graph:
\* the given targets that it reports are those that need a changed one; building what
\* it says builds every changed target that needs building and is below a target of
\* the given build files, and every program among what needs one; and nothing is said
\* to be built that needs no changed target, nor, unless it is a program, what is
\* built for another one anyway.
AnalysisCoversChanges ==
    analyzing = "done" =>
        LET wanted == UNION {NeededBy(r) : r \in {x \in TopTargets : x[1] \in project.build_files}}
            affected == {t \in DOMAIN targets : NeededBy(t) \cap ChangedTargets # {}}
        IN  /\ matched_search_targets = {mapping[n] : n \in DOMAIN mapping} \cap affected
            /\ \A t \in ChangedTargets \cap wanted :
                   DoesTargetTypeRequireBuild(targets[t]) =>
                       \E b \in build_targets : t \in NeededBy(b)
            /\ \A t \in affected \cap wanted : targets[t].type = "executable" => t \in build_targets
            /\ build_targets \subseteq affected
            /\ \A b, t \in build_targets :
                   b # t /\ t \in NeededBy(b) => targets[t].type = "executable"
=============================================================================
