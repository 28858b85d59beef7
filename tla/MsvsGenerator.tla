---------------------------- MODULE MsvsGenerator ----------------------------
(***************************************************************************)
(* gyp's msvs generator: one Visual Studio project for each target and a   *)
(* solution for each build file.  What Visual Studio does with them is     *)
(* external: a project is built when those it depends on are finished, and *)
(* within a project the custom steps come first, then the rules, MIDL, the *)
(* compilers and the linker.  Layout, settings and the text of commands    *)
(* are left out.                                                           *)
(***************************************************************************)
EXTENDS MSVSUtil

Ninja == INSTANCE NinjaGenerator

\* version.UsesVcxproj(): Visual Studio 2010 and later.
UsesVcxproj == project.msvs_version = "2010"

GypFile(t) == <<t[1], "gyp">>

-----------------------------------------------------------------------------
\* actions_to_add: the actions attached to each input file, as a list.
NoActions == [f \in {} |-> NoFile]

\* _AddActionStep: an action goes to its first input.
AddActionStep(actions, inputs, outputs) ==
    LET first == inputs[1]
        old == IF first \in DOMAIN actions THEN actions[first] ELSE <<>>
    IN  (first :> Append(old, [inputs |-> ToSet(inputs), outputs |-> outputs])) @@ actions

\* _AddActions: an action without inputs is attached to the gyp file.
AddActions(t, d, actions) ==
    Folded(LAMBDA acc, a :
             AddActionStep(acc, IF a.inputs = <<>> THEN <<GypFile(t)>> ELSE a.inputs,
                           ToSet(a.outputs)),
           actions, d.actions)

\* _AddCopies and _GetCopies.
AddCopies(d, actions) ==
    Folded(LAMBDA acc, c :
             Folded(LAMBDA acc2, f : AddActionStep(acc2, <<f>>, {CopyOf(c, f)}), acc, c.files),
           actions, d.copies)

\* _RuleInputsAndOutputs.
RuleInputs(rule, source) == {source} \cup ToSet(rule.inputs)

RulesNative(d) == SelectSeq(d.rules, LAMBDA r : ~r.msvs_external_rule)
RulesExternal(d) == SelectSeq(d.rules, LAMBDA r : r.msvs_external_rule)

\* _GenerateExternalRules: a makefile runs the external rules of a target, and one
\* action, attached to the makefile, runs make.
RulesMakefile(t) == <<t[2] \o "_rules", "mk">>
GenerateExternalRules(t, d) ==
    LET rules == RulesExternal(d)
        inputs == Folded(LAMBDA l, r : l \o r.rule_sources \o r.inputs, <<>>, rules)
        outputs == UnionOver(rules, LAMBDA r :
                       UnionOver(r.rule_sources, LAMBDA s : RuleOutputs(r, s)))
    IN  IF rules = <<>> THEN NoActions
        ELSE AddActionStep(NoActions, <<RulesMakefile(t)>> \o inputs, outputs)

-----------------------------------------------------------------------------
\* A project lists its sources, and those among them that Visual Studio must not build.
\* _PrepareListOfSources: the inputs of actions are listed, but not built.
PrepareListOfSources(t, d) ==
    LET inputs == UnionOver(d.actions, LAMBDA a : ToSet(a.inputs))
    IN  [sources |-> ToSet(d.sources) \cup {GypFile(t)} \cup inputs
             \cup UnionOver(d.actions, LAMBDA a :
                      IF a.process_outputs_as_sources THEN ToSet(a.outputs) ELSE {})
             \cup UnionOver(d.copies, LAMBDA c : ToSet(c.files)),
         excluded |-> inputs]

\* _AdjustSourcesForRules: a source that triggers a rule is built, the other inputs of
\* the rule are listed only.
AdjustForTrigger(l, rule, source) ==
    LET excluded == l.excluded \ {source}
        inputs == RuleInputs(rule, source) \ {source}
    IN  IF rule.process_outputs_as_sources
        THEN [sources |-> l.sources \cup inputs \cup RuleOutputs(rule, source),
              excluded |-> excluded \cup inputs]
        ELSE [l EXCEPT !.excluded = excluded]
AdjustSourcesForRules(d, l) ==
    Folded(LAMBDA acc, rule :
             Folded(LAMBDA acc2, s : AdjustForTrigger(acc2, rule, s), acc, rule.rule_sources),
           l, d.rules)

\* _IdlFilesHandledNonNatively.
ExcludedIdl(d, sources) ==
    IF \E i \in DOMAIN d.rules : d.rules[i].extension = "idl" /\ d.rules[i].msvs_external_rule
    THEN {s \in sources : Extension(s) = "idl"} ELSE {}

\* What _GenerateMSBuildProject and _GenerateMSVSProject collect before they write:
\* the actions come last, and their first inputs are built after all.
Finished(d, sources, excluded, actions, idl) ==
    [sources |-> sources, actions |-> actions,
     \* _FilterActionsFromExcluded; the precompiled source is built, too.
     excluded |-> (excluded \ (DOMAIN actions \cup Given(d.pch_source))) \cup idl,
     \* A .vcproj file excludes the .idl file and what is attached to it.
     idle |-> IF UsesVcxproj THEN {} ELSE idl]
WithActions(t, d, sources, excluded) ==
    Finished(d, sources, excluded, AddCopies(d, AddActions(t, d, GenerateExternalRules(t, d))),
             ExcludedIdl(d, sources))
WithExcluded(t, d, listed) ==
    WithActions(t, d, listed.sources \cup listed.excluded
                          \cup (IF RulesExternal(d) = <<>> THEN {} ELSE {RulesMakefile(t)}),
                listed.excluded)
Collected(t, d) == WithExcluded(t, d, AdjustSourcesForRules(d, PrepareListOfSources(t, d)))

-----------------------------------------------------------------------------
\* _MapFileToMsBuildSourceType: the tool that gets a source which no rule takes.
MsvsTool(d, s) ==
    LET ext == Extension(s)
    IN  CASE \E i \in DOMAIN RulesNative(d) : RulesNative(d)[i].extension = ext -> "rule"
          [] ext \in CppExtensions -> "cxx"
          [] ext = "c" -> "cc"
          [] ext = "rc" -> "rc"
          [] ext = "idl" -> "midl"
          [] OTHER -> "none"

\* The sources that a tool gets: not excluded, and without a step of their own.
SourcesFor(d, c, tool) ==
    {s \in c.sources \ (c.excluded \cup DOMAIN c.actions) : MsvsTool(d, s) = tool}

\* _HandlePreCompiledHeaders and _AddSources2: only sources in the language of the
\* precompiled source use its header.
PchFile(t) == <<t[2], "pch">>
UsesPch(d, s) ==
    /\ d.pch_source # NoFile /\ s # d.pch_source /\ Compilable(s)
    /\ (Extension(s) = "c") = (Extension(d.pch_source) = "c")

\* Objects go to the intermediate directory of the project, before 2010 whatever the
\* directory of the source.
MsvsObject(t, s) ==
    <<"obj", Dir[t[1]], t[2]>>
    \o WithExtension(IF UsesVcxproj THEN s ELSE Basename(s),
                     IF Extension(s) = "rc" THEN "res" ELSE "obj")

\* _GetOutputFilePathAndTool.
OutputFile(t, d) ==
    CASE d.type = "executable" -> <<t[2], "exe">>
      [] d.type \in {"shared_library", "loadable_module"} -> <<t[2], "dll">>
      [] d.type = "static_library" /\ d.standalone_static_library -> <<t[2], "lib">>
      [] d.type = "static_library" /\ ~d.standalone_static_library -> <<"lib", t[2], "lib">>
      [] OTHER -> NoFile

\* What a program links of a project that it refers to.  The import library of a
\* loadable module is ignored.
ImportLibrary(t) == <<t[2], "dll", "lib">>
LinkedLibrary(t, d) ==
    CASE d.type = "static_library" -> {OutputFile(t, d)}
      [] d.type = "shared_library" -> {ImportLibrary(t)}
      [] OTHER -> {}

\* _GetModuleDefinition.
DefFiles(d) ==
    IF d.type \in LinkableTypes THEN {s \in ToSet(d.sources) : Extension(s) = "def"} ELSE {}

-----------------------------------------------------------------------------
\* When the project of a target is finished.
Built(t) == <<t[1], t[2], "vcproj">>

\* The steps of a project, tool by tool.  _AddAccumulatedActionsToMSVS: the actions of
\* one file become one step with the inputs and the outputs of all of them.
Accumulated(actions) ==
    [inputs |-> UnionOver(actions, LAMBDA a : a.inputs),
     outputs |-> UnionOver(actions, LAMBDA a : a.outputs)]
AddCustomBuildTool(t, action) == Step("action", t, action.outputs, action.inputs, {})
CustomSteps(t, c) ==
    {AddCustomBuildTool(t, Accumulated(c.actions[f])) : f \in DOMAIN c.actions \ c.idle}

\* The .rules file of the native rules, or the .props and .targets files: Visual Studio
\* applies a rule to each source with its extension.
CustomBuildRule(t, r, s) == Step("rule", t, RuleOutputs(r, s), RuleInputs(r, s), {})
RuleSteps(t, d, c) ==
    UnionOver(RulesNative(d), LAMBDA r :
        {CustomBuildRule(t, r, s) :
           s \in {x \in SourcesFor(d, c, "rule") : Extension(x) = r.extension}})

MidlSteps(t, d, c) ==
    {Step("midl", t, {WithExtension(s, "h")}, {s}, {}) : s \in SourcesFor(d, c, "midl")}

CompileSteps(t, d, c) ==
    UNION {{Step(tool, t, {MsvsObject(t, s)} \cup (IF s = d.pch_source THEN {PchFile(t)} ELSE {}),
                 {s} \cup (IF UsesPch(d, s) THEN {PchFile(t)} ELSE {}), {}) :
              s \in SourcesFor(d, c, tool)} : tool \in {"cc", "cxx", "rc"}}

\* The linker gets the objects, those that a native rule makes too, and the libraries
\* of the projects that _GetMSBuildProjectReferences lists.
LinkStep(dicts, t, d, objects) ==
    LET libraries == IF d.type = "static_library" THEN {}
                     ELSE UNION {LinkedLibrary(x, dicts[x]) : x \in ToSet(d.dependencies)}
        outs == {OutputFile(t, d)} \cup (IF d.type = "shared_library" THEN {ImportLibrary(t)} ELSE {})
    IN  IF d.type = "none" THEN {}
        ELSE {Step("link", t, outs, objects \cup libraries \cup DefFiles(d), {})}

\* Each tool is run after the ones before it.
InOrder(tools) ==
    UNION {{[s EXCEPT !.order = UNION {UNION {u.outs : u \in tools[j]} : j \in 1..(i - 1)}] :
              s \in tools[i]} : i \in DOMAIN tools}

\* _GenerateProject: the steps of the project of a target.
ProjectSteps(t, deps, steps) ==
    {[s EXCEPT !.order = @ \cup deps] : s \in steps}
    \cup {Step("project", t, {Built(t)}, {}, deps \cup UNION {s.outs : s \in steps})}
LinkedSteps(dicts, t, d, tools) ==
    LET objects == {o \in UNION {UNION {s.outs : s \in tools[i]} : i \in DOMAIN tools} :
                      Extension(o) \in {"obj", "res"}}
    IN  ProjectSteps(t, {Built(x) : x \in ToSet(d.dependencies)},
                     InOrder(Append(tools, LinkStep(dicts, t, d, objects))))
ProjectOf(dicts, t, d, c) ==
    LinkedSteps(dicts, t, d, <<CustomSteps(t, c), RuleSteps(t, d, c), MidlSteps(t, d, c),
                               CompileSteps(t, d, c)>>)
GenerateProject(dicts, t) == ProjectOf(dicts, t, dicts[t], Collected(t, dicts[t]))

-----------------------------------------------------------------------------
\* _ValidateSourcesForMSVSProject: before 2010 two sources of a library may not have
\* the same name.
DuplicateBasenames(d) ==
    /\ ~UsesVcxproj
    /\ d.type \in {"static_library", "shared_library"}
    /\ \E s, u \in {x \in ToSet(d.sources) : Compilable(x)} :
           s # u /\ s[Len(s) - 1] = u[Len(u) - 1]

\* _GatherSolutionFolders: the projects of a solution by their place in its tree of
\* folders.  Folders at the top that hold nothing but one folder are left out, and
\* a project that is alone in a folder of its name takes the folder's place.
ProjectPlaces(ts) == [path \in {<<Dir[t[1]], t[2] \o ".vcproj">> : t \in ts} |->
                        CHOOSE t \in ts : path = <<Dir[t[1]], t[2] \o ".vcproj">>]
GatherSolutionFolders(ts) ==
    LET root == ProjectPlaces(ts)
        folders == {path[1] : path \in DOMAIN root}
        single(folder) ==
            {path \in DOMAIN root : path[1] = folder} = {<<folder, folder \o ".vcproj">>}
        place(path) ==
            CASE Cardinality(folders) = 1 -> <<path[2]>>
              [] Cardinality(folders) # 1 /\ single(path[1]) -> <<path[1]>>
              [] OTHER -> path
    IN  [p \in {place(path) : path \in DOMAIN root} |->
            root[CHOOSE path \in DOMAIN root : place(path) = p]]

\* MSVSSolution.Write lists all the projects in the tree.
Solution(f) == <<f, "sln">>
WriteSolution(all, f) ==
    LET places == GatherSolutionFolders(
                      DeepDependencyTargets(all.dicts, BuildFileTargets(all.list, f)))
    IN  Step("solution", <<>>, {Solution(f)}, {}, {Built(places[p]) : p \in DOMAIN places})

\* _InitNinjaFlavor: with the flavor ninja a project only calls ninja for its target,
\* and does not wait for other projects.
NinjaProject(t) == Step("project", t, {Built(t)}, {}, {<<t[2]>>})

\* GenerateOutput.
ProjectError(dicts) ==
    CASE \E t \in DOMAIN dicts : t[3] # "target" -> "multiple toolsets"
      [] \E t \in DOMAIN dicts : Cardinality(DefFiles(dicts[t])) > 1 -> "multiple .def files"
      [] \E t \in DOMAIN dicts : DuplicateBasenames(dicts[t]) -> "duplicate basenames"
      [] OTHER -> ""
WithSolutions(all, steps, product) ==
    [steps |-> steps \cup {WriteSolution(all, f) : f \in Files}
               \cup {Step("all", <<>>, {<<"all", "sln">>}, {}, {Solution(f) : f \in Files})},
     error |-> ProjectError(all.dicts),
     dicts |-> all.dicts,
     product |-> product,
     goal |-> <<"all", "sln">>,
     restat |-> {},
     depfile |-> {"cc", "cxx", "rc", "midl"}]
ProjectsOutput(all) ==
    WithSolutions(all, UNION {GenerateProject(all.dicts, t) : t \in DOMAIN all.dicts},
                  [t \in DOMAIN all.dicts |-> Given(OutputFile(t, all.dicts[t]))])
NinjaOutput(all, ninja) ==
    WithSolutions(all, ninja.steps \cup {NinjaProject(t) : t \in DOMAIN all.dicts}, ninja.product)
GenerateOutput ==
    IF project.format = "msvs-ninja"
    THEN NinjaOutput(InsertLargePdbShims(ShardTargets), Ninja!GenerateOutputForConfig)
    ELSE ProjectsOutput(InsertLargePdbShims(ShardTargets))
=============================================================================
