---------------------------- MODULE XcodeGenerator ----------------------------
(***************************************************************************)
(* gyp's xcode generator: an Xcode project for each build file, with its   *)
(* tree of groups, its targets and their build phases.  What Xcode does    *)
(* with a project is external: it builds a target when those that the      *)
(* target depends on are finished, one phase after the other.  Settings,   *)
(* the text of scripts and what Xcode only displays are left out.          *)
(***************************************************************************)
EXTENDS BuildSteps

Ninja == INSTANCE NinjaGenerator

-----------------------------------------------------------------------------
(***************************************************************************)
(* The groups of a project.  An element has a path relative to its parent; *)
(* it is identified by the path it was created for.  The groups and files  *)
(* of the sources are below the group Source, which has no path.           *)
(***************************************************************************)
MainGroup == <<>>
SourceGroup == <<"Source">>
Element(kind, path, parent) == [kind |-> kind, path |-> path, parent |-> parent]

\* The directories of translations, with the extension .lproj.
LprojDirs == {"en.lproj", "fr.lproj"}
Dirs(path) == SubSeq(path, 1, Len(path) - 2)
IsVariant(path) == Dirs(path) # <<>> /\ Last(Dirs(path)) \in LprojDirs

\* The group in which a file is, and the group of its variants.
GroupDirs(path) == IF IsVariant(path) THEN Front(Dirs(path)) ELSE Dirs(path)
GroupOf(path) == SourceGroup \o GroupDirs(path)
VariantGroup(path) == GroupOf(path) \o Basename(path)

\* PBXGroup.AddOrGetFileByPath: the groups on the way to a file, and the file, or a
\* group of variants with the file in it.
AddOrGetFileByPath(path, tree) ==
    LET dirs == GroupDirs(path)
        groups == [id \in {SourceGroup \o SubSeq(dirs, 1, i) : i \in 1..Len(dirs)} |->
                      Element("group", <<Last(id)>>, Front(id))]
        file == (SourceGroup \o path) :>
                    IF IsVariant(path)
                    THEN Element("file", <<Last(Dirs(path))>> \o Basename(path), VariantGroup(path))
                    ELSE Element("file", Basename(path), GroupOf(path))
        variants == IF IsVariant(path)
                    THEN VariantGroup(path) :> Element("variant", <<>>, GroupOf(path))
                    ELSE <<>>
    IN  tree @@ groups @@ variants @@ file

ChildrenOf(tree, g) == {id \in DOMAIN tree : tree[id].parent = g}
GroupsIn(tree, g) == {id \in ChildrenOf(tree, g) : tree[id].kind = "group"}

\* PBXGroup.TakeOverOnlyChild: a group whose only child is a group becomes that group,
\* with both paths.
Reparented(tree, g, child) ==
    [id \in DOMAIN tree \ {child} |->
        CASE id = g -> [tree[g] EXCEPT !.path = @ \o tree[child].path]
          [] tree[id].parent = child -> [tree[id] EXCEPT !.parent = g]
          [] OTHER -> tree[id]]
RECURSIVE TakeOverOnlyChild(_, _)
TakeOverOnlyChild(tree, g) ==
    LET groups == GroupsIn(tree, g)
    IN  IF Cardinality(groups) = 1 /\ groups = ChildrenOf(tree, g)
        THEN TakeOverOnlyChild(Reparented(tree, g, CHOOSE c \in groups : TRUE), g)
        ELSE FoldSet(LAMBDA c, t : TakeOverOnlyChild(t, c), tree, groups)

\* XCHierarchicalElement.FullPath.
RECURSIVE FullPath(_, _)
FullPath(tree, id) ==
    IF id = MainGroup THEN <<>> ELSE FullPath(tree, tree[id].parent) \o tree[id].path

\* The files of a build phase: of a group of variants all of them.
FilesOf(tree, path) ==
    IF IsVariant(path) THEN {FullPath(tree, id) : id \in ChildrenOf(tree, VariantGroup(path))}
    ELSE {FullPath(tree, SourceGroup \o path)}

-----------------------------------------------------------------------------
(***************************************************************************)
(* What GenerateOutput finds in a target.                                  *)
(***************************************************************************)
OutputsFor(rule, source) ==
    [i \in DOMAIN rule.outputs |-> WithExtension(source, rule.outputs[i])]
RuleOutputsAll(rule) == Folded(LAMBDA l, s : l \o OutputsFor(rule, s), <<>>, rule.rule_sources)
RuleExtensions(d) == {d.rules[i].extension : i \in DOMAIN d.rules}
NotForRules(d, l) == SelectSeq(l, LAMBDA s : Extension(s) \notin RuleExtensions(d))

\* The files that AddSourceToTarget and AddResourceToTarget get, in their order.
Sources(d) ==
    Folded(LAMBDA l, a : IF a.process_outputs_as_sources THEN l \o a.outputs ELSE l, <<>>, d.actions)
    \o Folded(LAMBDA l, r : IF r.process_outputs_as_sources THEN l \o RuleOutputsAll(r) ELSE l,
              <<>>, d.rules)
    \o NotForRules(d, d.sources)
\* A resource that a rule takes is replaced by what the rule makes of it.
FromResource(d, rule) ==
    Folded(LAMBDA l, s : IF \/ rule.process_outputs_as_mac_bundle_resources
                            \/ (d.mac_bundle /\ s \in ToSet(d.mac_bundle_resources))
                         THEN l \o OutputsFor(rule, s) ELSE l, <<>>, rule.rule_sources)
Resources(d) ==
    Folded(LAMBDA l, a : IF a.process_outputs_as_mac_bundle_resources THEN l \o a.outputs ELSE l,
           <<>>, d.actions)
    \o Folded(LAMBDA l, r : l \o FromResource(d, r), <<>>, d.rules)
    \o (IF d.mac_bundle THEN NotForRules(d, d.mac_bundle_resources) ELSE <<>>)

\* AddSourceToTarget: what is compiled, and what is linked as it is.
LibraryExtensions == {"a", "dylib", "o"}
SourcesPhase(d) == IF d.type = "none" THEN <<>> ELSE SelectSeq(Sources(d), Compilable)
FrameworksPhase(d) ==
    IF d.type = "none" THEN <<>>
    ELSE SelectSeq(Sources(d), LAMBDA s : Extension(s) \in LibraryExtensions)

\* The destinations of copies; each is one phase.
Destinations(d) == Unify([i \in DOMAIN d.copies |-> d.copies[i].destination])
CopiedTo(d, dest) ==
    Folded(LAMBDA l, c : IF c.destination = dest THEN l \o c.files ELSE l, <<>>, d.copies)

\* Every file that GenerateOutput names is put into the tree of the project.
FilesNamed(d) ==
    ToSet(Sources(d)) \cup ToSet(Resources(d)) \cup ToSet(d.sources)
    \cup (IF d.mac_bundle THEN ToSet(d.mac_bundle_resources) ELSE {})
    \cup UnionOver(d.rules, LAMBDA r : ToSet(RuleOutputsAll(r)) \cup ToSet(r.inputs))
    \cup UnionOver(d.copies, LAMBDA c : ToSet(c.files))
    \cup UnionOver(d.actions, LAMBDA a : ToSet(a.inputs) \cup ToSet(a.outputs))
\* and the tree is simplified in the end.
GroupTree(dicts, f) ==
    TakeOverOnlyChild(
        FoldSet(AddOrGetFileByPath, SourceGroup :> Element("group", <<>>, MainGroup),
                UNION {FilesNamed(dicts[t]) : t \in {x \in DOMAIN dicts : BuildFile(x) = f}}),
        SourceGroup)

-----------------------------------------------------------------------------
(***************************************************************************)
(* The targets of a project: a class, a name, the targets they depend on,  *)
(* and phases in their order.  A phase has a class, a name and steps.      *)
(***************************************************************************)
Phase(class, name, steps) == [class |-> class, name |-> name, steps |-> steps]
XCTarget(class, f, name, deps, phases) ==
    [class |-> class, id |-> <<f, name>>, deps |-> deps, phases |-> phases]
Native == "PBXNativeTarget"
Aggregate == "PBXAggregateTarget"

MainTarget(t) == <<t[1], t[2]>>
SupportTarget(t) == <<t[1], t[2] \o " Support">>
RunTarget(t) == <<t[1], "Run " \o t[2]>>

\* A target that builds something leaves its actions and rules to another one.
HasSupport(d) == d.type # "none" /\ (d.actions # <<>> \/ d.rules # <<>>)

\* Scripts for actions, and one for each rule that has outputs, which runs make.
ActionPhases(t, d) ==
    [i \in DOMAIN d.actions |->
        Phase("PBXShellScriptBuildPhase", "Action " \o d.actions[i].action_name,
              {Step("action", t, ToSet(d.actions[i].outputs), ToSet(d.actions[i].inputs), {})})]
RulePhases(t, d) ==
    LET made == SelectSeq(d.rules, LAMBDA r : RuleOutputsAll(r) # <<>>)
    IN  [i \in DOMAIN made |->
            Phase("PBXShellScriptBuildPhase", "Rule " \o made[i].rule_name,
                  {Step("rule", t, RuleOutputs(made[i], s), {s} \cup ToSet(made[i].inputs), {}) :
                     s \in ToSet(made[i].rule_sources)})]

\* Each copy phase is inserted in front of the ones before it.
CopyPhases(t, d, tree) ==
    LET phase(dest) ==
            Phase("PBXCopyFilesBuildPhase",
                  Folded(LAMBDA name, dir : name \o "/" \o dir, "Copy to ", dest),
                  {Step("copy", t, {dest \o Basename(f)}, FilesOf(tree, f), {}) :
                     f \in ToSet(CopiedTo(d, dest))})
    IN  Reverse([i \in DOMAIN Destinations(d) |-> phase(Destinations(d)[i])])

\* Xcode puts resources into the bundle, compiled where needed.
ResourcePhase(t, d, tree) ==
    Phase("PBXResourcesBuildPhase", "Resources",
          {Step("resource", t, {BundlePath(t, CompiledResource(f))}, {f}, {}) :
             f \in UnionOver(Resources(d), LAMBDA r : FilesOf(tree, r))})

\* The object of a source, compiled with the prefix header of its target.
XcodeObject(t, s) == <<t[2], "build">> \o WithExtension(s, "o")
CompilePhase(t, d, tree) ==
    Phase("PBXSourcesBuildPhase", "Sources",
          {Step(IF Language(Extension(s)) = "cc" THEN "cxx" ELSE "cc", t, {XcodeObject(t, s)},
                FilesOf(tree, s) \cup Given(d.prefix_header), {}) : s \in ToSet(SourcesPhase(d))})

\* PBXNativeTarget.AddDependency: static and shared libraries are linked, loadable
\* modules are not, and a static library links nothing.
LinkedWith(dicts, d) ==
    IF d.type = "static_library" THEN {}
    ELSE {x \in ToSet(d.dependencies) : dicts[x].type \in {"static_library", "shared_library"}}
\* Xcode makes a product if there is something to link, and the list of properties of
\* a bundle.
LinkPhase(dicts, t, d) ==
    Phase("PBXFrameworksBuildPhase", "Frameworks",
          {Step("link", t, {ExecutablePath(t, d)},
                {XcodeObject(t, s) : s \in ToSet(SourcesPhase(d))} \cup ToSet(FrameworksPhase(d))
                \cup {ExecutablePath(x, dicts[x]) : x \in LinkedWith(dicts, d)}, {})}
          \cup (IF IsMacBundle(d) /\ d.info_plist # NoFile
                THEN {Step("infoplist", t, {BundlePath(t, <<"Info", "plist">>)}, {d.info_plist}, {})}
                ELSE {}))

\* XCTarget.AddDependency: of a target in another project there is a proxy.
AddDependency(d) == {MainTarget(x) : x \in ToSet(d.dependencies)}

\* The phases of a target that builds something.  The phase of the resources is only
\* there if there are any, in front of the compilers and the linker.
NativePhases(dicts, t, d, tree) ==
    CopyPhases(t, d, tree)
    \o (IF Resources(d) = <<>> THEN <<>> ELSE <<ResourcePhase(t, d, tree)>>)
    \o <<CompilePhase(t, d, tree), LinkPhase(dicts, t, d)>>

\* The targets made for one: itself, the one for its actions and rules, and one that
\* runs it.  The latter is only added by Finalize1.
TargetFor(dicts, t, d, tree) ==
    LET deps == AddDependency(d)
        scripts == ActionPhases(t, d) \o RulePhases(t, d)
    IN  IF d.type = "none"
        THEN {XCTarget(Aggregate, t[1], t[2], deps, scripts \o CopyPhases(t, d, tree))}
        ELSE {XCTarget(Native, t[1], t[2],
                       deps \cup (IF HasSupport(d) THEN {SupportTarget(t)} ELSE {}),
                       NativePhases(dicts, t, d, tree))}
             \cup (IF HasSupport(d)
                   THEN {XCTarget(Aggregate, t[1], SupportTarget(t)[2], deps, scripts)} ELSE {})
RunTargets(t, d) ==
    IF ~d.run_as THEN {}
    ELSE {XCTarget(Aggregate, t[1], RunTarget(t)[2], {MainTarget(t)},
                   <<Phase("PBXShellScriptBuildPhase", "ShellScript",
                           {Step("run", t, {RunTarget(t)}, Given(ExecutablePath(t, d)), {})})>>)}

-----------------------------------------------------------------------------
\* Finalize1: the targets of a build file in their order.
TargetsOfFile(dicts, f) ==
    SelectSeq([i \in DOMAIN project.files[f] |-> <<f, project.files[f][i].name, "target">>],
              LAMBDA t : t \in DOMAIN dicts)
\* An "All" target if there are several and none is called so, and one for all tests.
TargetsForAll(dicts, f) ==
    SelectSeq(TargetsOfFile(dicts, f), LAMBDA t : ~dicts[t].suppress_wildcard)
HasCustomAll(dicts, f) == \E t \in ToSet(TargetsOfFile(dicts, f)) : t[2] \in {"all", "All", "ALL"}
AllTarget(dicts, f) ==
    IF Len(TargetsForAll(dicts, f)) > 1 /\ ~HasCustomAll(dicts, f)
    THEN {XCTarget(Aggregate, f, "All", {MainTarget(t) : t \in ToSet(TargetsForAll(dicts, f))}, <<>>)}
    ELSE {}
RunAllTests(dicts, f) ==
    LET tests == {t \in ToSet(TargetsOfFile(dicts, f)) : dicts[t].run_as}
    IN  IF Cardinality(tests) > 1
        THEN {XCTarget(Aggregate, f, "Run All Tests", {RunTarget(t) : t \in tests}, <<>>)} ELSE {}

\* Finalize2: a target that runs the tests among what an aggregate target depends on.
DependentsTestRunner(dicts, f) ==
    LET tests(t) == {x \in ToSet(dicts[t].dependencies) : dicts[x].run_as}
    IN  {XCTarget(Aggregate, f, "Run " \o t[2] \o " Tests", {RunTarget(x) : x \in tests(t)}, <<>>) :
           t \in {x \in ToSet(TargetsOfFile(dicts, f)) :
                     /\ dicts[x].xcode_create_dependents_test_runner
                     /\ dicts[x].type = "none" /\ tests(x) # {}}}

\* The target that is built when none is named: the first.
FirstTarget(dicts, f) ==
    IF AllTarget(dicts, f) # {} THEN <<f, "All">> ELSE MainTarget(TargetsOfFile(dicts, f)[1])

XcodeProject(dicts, f, tree) ==
    UNION {TargetFor(dicts, t, dicts[t], tree) \cup RunTargets(t, dicts[t]) :
             t \in ToSet(TargetsOfFile(dicts, f))}
    \cup AllTarget(dicts, f) \cup RunAllTests(dicts, f) \cup DependentsTestRunner(dicts, f)

-----------------------------------------------------------------------------
\* XCBuildPhase.AddFile refuses a file that is in the phase already.
Twice(l) == \E i, j \in DOMAIN l : i < j /\ l[i] = l[j]
MultipleBuildFiles(d) ==
    \/ Twice(SourcesPhase(d)) \/ Twice(FrameworksPhase(d)) \/ Twice(Resources(d))
    \/ \E dest \in ToSet(Destinations(d)) : Twice(CopiedTo(d, dest))

\* ComputeIDs and EnsureNoIDCollisions: an object is identified by the classes and the
\* names on the way to it.
IdCollision(xcts) ==
    \/ \E x, y \in xcts : x # y /\ x.class = y.class /\ x.id = y.id
    \/ \E x \in xcts : \E i, j \in DOMAIN x.phases :
           i < j /\ x.phases[i].class = x.phases[j].class /\ x.phases[i].name = x.phases[j].name

\* What GenerateOutput refuses.  An aggregate target has no phase for resources.
XcodeError(dicts, list, xcts) ==
    CASE \E t \in DOMAIN dicts : t[3] # "target" -> "multiple toolsets"
      [] \E t \in DOMAIN dicts : dicts[t].type = "none" /\ dicts[t].mac_bundle -> "mac_bundle of type none"
      [] \E t \in DOMAIN dicts : dicts[t].type = "none" /\ Resources(dicts[t]) # <<>> -> "no resources phase"
      [] \E t \in DOMAIN dicts : MultipleBuildFiles(dicts[t]) -> "multiple build files"
      [] \E i \in DOMAIN list : ~(ToSet(dicts[list[i]].dependencies) \subseteq ToSet(SubSeq(list, 1, i - 1)))
            -> "unknown dependency"
      [] IdCollision(xcts) -> "duplicate ID"
      [] OTHER -> ""

-----------------------------------------------------------------------------
\* Xcode: a target is finished with its last phase; a step waits for the phases before
\* its own and for the targets that its target depends on.
Done(id) == id \o <<"xctarget">>
PhaseOuts(x, i) == UNION {s.outs : s \in x.phases[i].steps}
StepsOf(x) ==
    LET deps == {Done(id) : id \in x.deps}
    IN  UNION {{[s EXCEPT !.order = deps \cup UNION {PhaseOuts(x, j) : j \in 1..(i - 1)}] :
                  s \in x.phases[i].steps} : i \in DOMAIN x.phases}
        \cup {Step("xctarget", <<>>, {Done(x.id)}, {},
                   deps \cup UNION {PhaseOuts(x, i) : i \in DOMAIN x.phases})}

BuildAll(ids) == Step("all", <<>>, {<<"all", "xctarget">>}, {}, {Done(id) : id \in ids})

ProjectsWritten(dicts, list, xcts) ==
    [steps |-> UNION {StepsOf(x) : x \in xcts}
               \cup {BuildAll({FirstTarget(dicts, f) : f \in {t[1] : t \in DOMAIN dicts}}
                              \cup {x.id : x \in {y \in xcts : y.id[2] = "Run All Tests"}})},
     error |-> XcodeError(dicts, list, xcts),
     dicts |-> dicts,
     product |-> [t \in DOMAIN dicts |->
                    IF dicts[t].type = "none" THEN {} ELSE {ExecutablePath(t, dicts[t])}],
     goal |-> <<"all", "xctarget">>,
     restat |-> {},
     depfile |-> {"cc", "cxx"}]

-----------------------------------------------------------------------------
\* xcode_ninja.CreateWrapper: a project with only the programs, each of which calls
\* ninja for its target and depends on nothing.  The project for indexing is not built.
IsValidTargetForWrapper(d) == d.type = "executable"
WrapperSteps(t) == Step("ninja", t, {Done(MainTarget(t))}, {}, {<<t[2]>>})
WrapperWritten(dicts, valid, ninja) ==
    [ninja EXCEPT
        !.steps = @ \cup {WrapperSteps(t) : t \in valid} \cup {BuildAll({MainTarget(t) : t \in valid})},
        !.product = [t \in DOMAIN @ |-> IF t \in valid THEN @[t] ELSE {}],
        !.goal = <<"all", "xctarget">>,
        !.error = IF \E t \in valid : t[3] # "target" THEN "multiple toolsets" ELSE ""]

GenerateOutput ==
    IF project.format = "xcode-ninja"
    THEN WrapperWritten(targets, {t \in DOMAIN targets : IsValidTargetForWrapper(targets[t])},
                        Ninja!GenerateOutputForConfig)
    ELSE ProjectsWritten(targets, flat_list,
                         UNION {XcodeProject(targets, f, GroupTree(targets, f)) : f \in {t[1] : t \in DOMAIN targets}})
=============================================================================
