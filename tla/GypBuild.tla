------------------------------ MODULE GypBuild ------------------------------
(***************************************************************************)
(* gyp from the loaded build files to the finished build: Load prepares    *)
(* the targets, a generator writes the steps, and the build system, which  *)
(* is not part of gyp, runs them in any order they allow.  Then a source   *)
(* is edited and the build is run again.  The analyzer writes no build.    *)
(***************************************************************************)
EXTENDS BuildSteps, Analyzer

Ninja == INSTANCE NinjaGenerator
Make == INSTANCE MakeGenerator
Android == INSTANCE AndroidGenerator
CMake == INSTANCE CMakeGenerator
Msvs == INSTANCE MsvsGenerator
Xcode == INSTANCE XcodeGenerator

VARIABLES build,        \* what the generator wrote
          phase,        \* of the build system
          disk,         \* the files that have been made
          ran,          \* the steps that the current build has run
          edit,         \* the edited source, and whether it changes an interface
          changed,      \* the files that are newer than what was made of them
          fresh         \* the files whose contents come from the edit

buildVars == <<build, phase, disk, ran, edit, changed, fresh>>
vars == <<targetVars, graphVars, buildVars, analyzerVars>>

-----------------------------------------------------------------------------
Produced(steps) == UNION {s.outs : s \in steps}

\* The headers a compiler reads for a source, through other headers too.
RECURSIVE Included(_, _)
Included(next, seen) ==
    LET all == seen \cup next
        more == UNION {IF f \in DOMAIN project.includes THEN project.includes[f] ELSE {} :
                         f \in next} \ all
    IN  IF more = {} THEN all ELSE Included(more, all)
CompileRules == {"cc", "cxx", "cc_s", "objc", "rc"}
Headers(s) == IF s.rule \in CompileRules THEN Included(s.ins, {}) \ s.ins ELSE {}

\* The files a step really reads: what it is given, the headers, and for an action
\* the programs among the dependencies of its target, which it may run.
Tools(b, s) ==
    IF s.rule \notin {"action", "rule"} THEN {}
    ELSE UNION {b.product[x] : x \in {y \in ToSet(b.dicts[s.target].dependencies) :
                                        y \in DOMAIN b.dicts /\ b.dicts[y].type = "executable"}}
Reads(b, s) == s.ins \cup Headers(s) \cup Tools(b, s)

\* What the build system knows of a step: its inputs and the headers it reported.
Known(b, s) == s.ins \cup (IF s.rule \in b.depfile THEN Headers(s) ELSE {})

Producers(b, files) == {s \in b.steps : s.outs \cap files # {}}

RECURSIVE NeededFor(_, _, _)
NeededFor(b, next, seen) ==
    LET more == UNION {Producers(b, s.ins \cup s.order) : s \in next} \ seen
    IN  IF more = {} THEN seen ELSE NeededFor(b, more, seen \cup more)
NeededSteps(b) == LET last == Producers(b, {b.goal}) IN NeededFor(b, last, last)

-----------------------------------------------------------------------------
Written ==
    CASE project.format = "ninja" -> Ninja!GenerateOutputForConfig
      [] project.format = "make" -> Make!GenerateOutput
      [] project.format = "android" -> Android!GenerateOutput
      [] project.format = "cmake" -> CMake!GenerateOutputForConfig
      [] project.format \in {"msvs", "msvs-ninja"} -> Msvs!GenerateOutput
      [] project.format \in {"xcode", "xcode-ninja"} -> Xcode!GenerateOutput

\* GenerateOutput of the generator.
Generate ==
    /\ stage = "loaded" /\ phase = "generate" /\ project.format \notin {"none", "analyzer"}
    /\ \E w \in {Written} :
         IF w.error # "" THEN phase' = "failed" /\ UNCHANGED build
         ELSE \E b \in {[w EXCEPT !.steps = NeededSteps(w)]} :
                /\ build' = [before |-> [s \in b.steps |-> NeededFor(b, {s}, {})
                                              \cup Producers(b, Known(b, s))]] @@ b
                /\ phase' = "build"
    /\ UNCHANGED <<targetVars, graphVars, analyzerVars, disk, ran, edit, changed, fresh>>

\* A clean build runs a step when everything it waits for has been made.
RunStep ==
    /\ phase = "build"
    /\ \E s \in build.steps \ ran :
           /\ Producers(build, s.ins \cup s.order) \subseteq ran
           /\ ran' = ran \cup {s}
           /\ disk' = disk \cup s.outs
    /\ UNCHANGED <<targetVars, graphVars, analyzerVars, build, phase, edit, changed, fresh>>

\* A source is edited when the build is finished.
EditSource ==
    /\ phase = "build" /\ ran = build.steps
    /\ \E f \in project.edits, interface \in BOOLEAN :
           /\ edit' = [file |-> f, interface |-> interface]
           /\ changed' = {f} /\ fresh' = {f}
    /\ phase' = "rebuild"
    /\ ran' = {}
    /\ UNCHANGED <<targetVars, graphVars, analyzerVars, build, disk>>

Dirty(s) == Known(build, s) \cap changed # {}

\* The contents that come out of a step.  The table of contents of a library only
\* changes with its interface.
FreshOuts(s) ==
    IF Reads(build, s) \cap fresh = {} THEN {}
    ELSE {o \in s.outs : o[Len(o)] # "TOC" \/ edit.interface}

\* The next build runs the steps one of whose inputs is newer, each after the ones
\* before it.  Some rules leave an output alone that would not change.
RerunStep ==
    /\ phase = "rebuild"
    /\ \E s \in build.steps \ ran :
           /\ Dirty(s)
           /\ \A u \in build.before[s] : Dirty(u) => u \in ran
           /\ ran' = ran \cup {s}
           /\ fresh' = fresh \cup FreshOuts(s)
           /\ changed' = changed \cup (IF s.rule \in build.restat THEN FreshOuts(s) ELSE s.outs)
    /\ UNCHANGED <<targetVars, graphVars, analyzerVars, build, phase, disk, edit>>

Rebuilt == phase = "rebuild" /\ \A s \in build.steps : Dirty(s) => s \in ran

-----------------------------------------------------------------------------
NoBuild == [steps |-> {}, dicts |-> [t \in {} |-> NoFile], product |-> [t \in {} |-> {}],
            goal |-> NoFile, restat |-> {}, depfile |-> {}, error |-> "", before |-> {}]

Init ==
    /\ LoadInit /\ AnalyzerInit
    /\ build = NoBuild /\ phase = "generate" /\ disk = {} /\ ran = {}
    /\ edit = [file |-> NoFile, interface |-> FALSE] /\ changed = {} /\ fresh = {}

Next ==
    \/ LoadNext /\ UNCHANGED <<buildVars, analyzerVars>>
    \/ AnalyzerNext /\ UNCHANGED <<targetVars, graphVars, buildVars>>
    \/ Generate
    \/ RunStep
    \/ EditSource
    \/ RerunStep

Spec == Init /\ [][Next]_vars

-----------------------------------------------------------------------------
\* No file is made by two steps: ninja and make refuse such a build, or worse, run
\* both.
OneProducer ==
    \A s, u \in build.steps : s # u => s.outs \cap u.outs = {}

\* Every file that a step waits for is a source or is made by some step, and no
\* step waits for itself, so that the build comes to its end.
EverythingCanBeMade ==
    phase \in {"build", "rebuild"} =>
        /\ \A s \in build.steps :
               s.ins \cup s.order \subseteq project.sources_on_disk \cup Produced(build.steps)
        /\ phase = "build" /\ ran # build.steps =>
               \E s \in build.steps \ ran : Producers(build, s.ins \cup s.order) \subseteq ran

\* Whatever the order, a step finds every file that it reads: the headers that
\* actions of its own and of other targets generate, the objects, the libraries, and
\* the programs that its target depends on.
ReadsFilesThatExist ==
    [][\A s \in ran' \ ran :
          Reads(build, s) \cap Produced(build.steps) \subseteq disk
          /\ Reads(build, s) \subseteq project.sources_on_disk \cup Produced(build.steps)]_vars

\* The product of a target stands for all of its steps: when the build of
\* everything is finished, every output of every action has been made.
FinishedBuildIsComplete ==
    phase = "build" /\ ran = build.steps =>
        \A t \in DOMAIN build.dicts :
            BuildFile(t) \in project.build_files =>
                UnionOver(build.dicts[t].actions, LAMBDA a : ToSet(a.outputs)) \subseteq disk
                /\ build.product[t] \subseteq disk

\* What the edit really reaches: outputs of actions and rules, and the sources that
\* include any of it.
RECURSIVE Reached(_)
Reached(files) ==
    LET made == UNION {UNION {ToSet(a.outputs) :
                                a \in {x \in ToSet(targets[t].actions) :
                                         ToSet(x.inputs) \cap files # {}}} :
                         t \in DOMAIN targets}
                \cup UNION {UNION {UNION {RuleOutputs(r, s) : s \in
                                      {x \in ToSet(r.rule_sources) :
                                         x \in files \/ ToSet(r.inputs) \cap files # {}}} :
                                r \in ToSet(targets[t].rules)} : t \in DOMAIN targets}
        including == {f \in DOMAIN project.includes : project.includes[f] \cap files # {}}
        all == files \cup made \cup including
    IN  IF all = files THEN all ELSE Reached(all)

\* The static libraries whose objects go into a target, itself included.
LinkedInto(t) ==
    {t} \cup Closure(Graph[t], [u \in DOMAIN Graph |->
                IF targets[u].type = "static_library" THEN Graph[u] ELSE {}])

\* A rebuild after an edit leaves nothing behind: a program or a library contains the
\* edit when one of the sources that go into it is reached by it.
RebuildIsAsGoodAsClean ==
    Rebuilt =>
        LET reached == Reached({edit.file})
        IN  \A t \in DOMAIN build.dicts \cap DOMAIN targets :
              /\ targets[t].type \in LinkableTypes
              /\ \E u \in LinkedInto(t) :
                     /\ targets[u].type = "static_library" \/ u = t
                     /\ \E s \in ToSet(targets[u].sources) \cup ExtraSources(targets[u]) :
                             s \in reached /\ Compilable(s)
              => build.product[t] \cap disk \subseteq fresh
=============================================================================
