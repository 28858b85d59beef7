--------------------------- MODULE NinjaGenerator ---------------------------
(***************************************************************************)
(* gyp's ninja generator: the build edges that NinjaWriter writes for a    *)
(* target, and GenerateOutputForConfig, which writes them all.  The text   *)
(* of the commands, the flags and the variables are left out.              *)
(***************************************************************************)
EXTENDS MSVSUtil

\* The Target object that a writer leaves for the targets after it.
NewTarget(type) ==
    [type |-> type, preaction_stamp |-> NoFile, precompile_stamp |-> NoFile,
     actions_stamp |-> NoFile, binary |-> NoFile, bundle |-> NoFile,
     component_objs |-> {}, import_lib |-> NoFile]

Linkable(target) == target.type \in {"static_library", "shared_library"}

\* Mutation: the framework that a shared library is part of counts as the library.
UsesTocInBundle(target) ==
    project.flavor # "win" /\ target.type \in {"shared_library", "loadable_module"}

UsesToc(target) ==
    /\ project.flavor # "win" /\ target.bundle = NoFile
    /\ target.type \in {"shared_library", "loadable_module"}

FirstGiven(files) ==
    IF \E i \in DOMAIN files : files[i] # NoFile
    THEN files[CHOOSE i \in DOMAIN files :
                 files[i] # NoFile /\ \A j \in 1..(i - 1) : files[j] = NoFile]
    ELSE NoFile

FinalOutput(target) == FirstGiven(<<target.bundle, target.binary, target.actions_stamp>>)
Toc(file) == Append(file, "TOC")

PreActionInput(target) ==
    IF UsesToc(target) THEN Toc(FinalOutput(target))
    ELSE FirstGiven(<<FinalOutput(target), target.preaction_stamp>>)
\* Mutation: the actions of a dependency itself are not waited for.
PreCompileInputBefore(target) == target.precompile_stamp

PreCompileInput(target) == FirstGiven(<<target.actions_stamp, target.precompile_stamp>>)

-----------------------------------------------------------------------------
\* Mutation: the path has neither the toolset nor the target.
GypPathToOutput(t, path, qualified) == <<"obj", Dir[t[1]]>> \o path

\* GypPathToUniqueOutput: qualified outputs carry the name of the target.
GypPathToUniqueOutput(t, path, qualified) ==
    <<"obj", t[3], Dir[t[1]]>> \o (IF qualified THEN <<t[2]>> ELSE <<>>) \o path

ObjExt == IF project.flavor = "win" THEN "obj" ELSE "o"

\* ComputeOutputFileName and ComputeOutput.
Prefix(type) ==
    IF project.flavor # "win" /\ type \in {"static_library", "shared_library", "loadable_module"}
    THEN "lib" ELSE ""
Suffix(type) ==
    CASE type = "static_library" -> IF project.flavor = "win" THEN <<"lib">> ELSE <<"a">>
      [] type \in {"shared_library", "loadable_module"} ->
            (CASE project.flavor = "win" -> <<"dll">>
               [] project.flavor = "mac" -> <<"dylib">>
               [] OTHER -> <<"so">>)
      [] type = "executable" -> IF project.flavor = "win" THEN <<"exe">> ELSE <<>>
      [] OTHER -> <<"stamp">>
ComputeOutputFileName(t, d) == <<Prefix(d.type) \o t[2]>> \o Suffix(d.type)

InOutputRoot(t, d) ==
    \/ d.type \in {"executable", "loadable_module"}
    \/ d.standalone_static_library
    \/ project.flavor = "mac" /\ t[3] = "target"
    \/ project.flavor = "win" /\ t[3] = "target" /\ d.type = "shared_library"

ComputeOutput(t, d, arch) ==
    LET filename == IF arch = "" /\ project.flavor = "mac" /\ d.type # "none"
                    THEN ExecutablePath(t, d) ELSE ComputeOutputFileName(t, d)
    IN  CASE arch # "" -> <<"arch", t[3]>> \o filename \o <<arch>>
          [] arch = "" /\ InOutputRoot(t, d) -> filename
          [] arch = "" /\ ~InOutputRoot(t, d) /\ d.type = "shared_library" ->
               <<"lib", t[3]>> \o filename
          [] OTHER -> GypPathToUniqueOutput(t, filename, FALSE)

\* WriteCollapsedDependencies: one file that stands for all of a list, and the
\* stamp step that makes it if there has to be one.
Collapsed(file, steps) == [file |-> file, steps |-> steps]
WriteCollapsedDependencies(t, name, files, order) ==
    LET stamp == GypPathToUniqueOutput(t, <<name, "stamp">>, TRUE)
    IN  IF files = <<>> THEN Collapsed(NoFile, {})
        ELSE IF Len(files) > 1 \/ order # {}
             THEN Collapsed(stamp, {Step("stamp", t, {stamp}, ToSet(files), order)})
             ELSE Collapsed(files[1], {})

-----------------------------------------------------------------------------
\* WriteActions, WriteRules, WriteCopies and the implicit rule for .idl files
\* give their steps and the outputs.
WriteActions(t, d, prebuild) ==
    [steps |-> {Step("action", t, ToSet(a.outputs), ToSet(a.inputs), prebuild) :
                  a \in ToSet(d.actions)},
     outputs |-> Folded(LAMBDA l, a : l \o a.outputs, <<>>, d.actions)]

\* With many inputs and many sources the inputs are collapsed to a stamp, which
\* then waits for the prebuild, and the rules after this one no longer do.
CollapseRule(rule, prebuild) ==
    Len(rule.inputs) + Cardinality(prebuild) > 2 /\ Len(rule.rule_sources) > 2

WriteRule(t, acc, rule) ==
    LET collapse == CollapseRule(rule, acc.prebuild)
        stamp == WriteCollapsedDependencies(t, rule.rule_name, rule.inputs, acc.prebuild)
        inputs == IF collapse THEN {stamp.file} ELSE ToSet(rule.inputs)
        prebuild == IF collapse THEN {} ELSE acc.prebuild
        outputsOf(s) == [i \in DOMAIN rule.outputs |-> WithExtension(s, rule.outputs[i])]
    IN  [prebuild |-> prebuild,
         steps |-> acc.steps \cup (IF collapse THEN stamp.steps ELSE {}) \cup
                   {Step("rule", t, RuleOutputs(rule, s), {s} \cup inputs, prebuild) :
                      s \in ToSet(rule.rule_sources)},
         outputs |-> acc.outputs \o Folded(LAMBDA l, s : l \o outputsOf(s), <<>>, rule.rule_sources)]
WriteRules(t, d, prebuild) ==
    Folded(LAMBDA acc, rule : WriteRule(t, acc, rule),
           [prebuild |-> prebuild, steps |-> {}, outputs |-> <<>>], d.rules)

\* Copies into the bundle of the target are part of it.
WriteCopies(t, d, prebuild) ==
    LET copied(c) == [i \in DOMAIN c.files |-> <<CopyOf(c, c.files[i]), c.files[i]>>]
        all == Folded(LAMBDA l, c : l \o copied(c), <<>>, d.copies)
        outputs == [i \in DOMAIN all |-> all[i][1]]
    IN  [steps |-> {Step("copy", t, {p[1]}, {p[2]}, prebuild) : p \in ToSet(all)},
         outputs |-> outputs,
         bundle_depends |-> IF IsMacBundle(d)
                            THEN {f \in ToSet(outputs) : IsPrefix(BundlePath(t, <<>>), f)} ELSE {}]

HasExplicitRule(d, ext) == \E i \in DOMAIN d.rules : d.rules[i].extension = ext
HasExplicitIdlRulesOrActions(d) ==
    HasExplicitRule(d, "idl") \/ \E i \in DOMAIN d.actions : d.actions[i].explicit_idl_action
IdlOutputs(s) == {<<s[1], "h">>, <<"dlldata", "c">>, <<s[1], "_i.c">>, <<s[1], "_p.c">>}
WriteWinIdlFiles(t, d, prebuild) ==
    LET idl == IF project.flavor # "win" \/ HasExplicitIdlRulesOrActions(d) THEN <<>>
               ELSE SelectSeq(d.sources, LAMBDA s : Extension(s) = "idl")
    IN  [steps |-> {Step("idl", t, IdlOutputs(s), {s}, prebuild) : s \in ToSet(idl)},
         outputs |-> Folded(LAMBDA l, s : l \o SetToSeq(IdlOutputs(s)), <<>>, idl)]

\* The resources that a rule takes are replaced by what it makes of them.
RuledResources(d) == ToSet(d.mac_bundle_resources) \cap UnionOver(d.rules, LAMBDA r : ToSet(r.rule_sources))
MacBundleResources(d) ==
    (ToSet(d.mac_bundle_resources) \ RuledResources(d)) \cup ExtraMacBundleResources(d)
    \cup UnionOver(d.rules, LAMBDA r :
            UNION {RuleOutputs(r, s) : s \in RuledResources(d) \cap ToSet(r.rule_sources)})
\* WriteMacBundleResources and WriteMacInfoPlist: what goes into the bundle.
WriteMacBundleResources(t, resources) ==
    {Step("mac_tool", t, {BundlePath(t, CompiledResource(res))}, {res}, {}) : res \in resources}
WriteMacInfoPlist(t, d) ==
    LET intermediate == GypPathToUniqueOutput(t, d.info_plist, TRUE)
        out == BundlePath(t, <<"Info", "plist">>)
    IN  CASE d.info_plist = NoFile -> {}
          [] d.info_plist # NoFile /\ d.preprocess_info_plist ->
               {Step("preprocess_infoplist", t, {intermediate}, {d.info_plist}, {}),
                Step("copy_infoplist", t, {out}, {intermediate}, {})}
          [] OTHER -> {Step("copy_infoplist", t, {out}, {d.info_plist}, {})}

WriteActionsRulesCopies(t, d, prebuild) ==
    LET actions == WriteActions(t, d, prebuild)
        rules == WriteRules(t, d, prebuild)
        copies == WriteCopies(t, d, prebuild)
        idl == WriteWinIdlFiles(t, d, prebuild)
        stamp == WriteCollapsedDependencies(t, "actions_rules_copies",
                     actions.outputs \o rules.outputs \o copies.outputs \o idl.outputs, {})
        bundle == IF IsMacBundle(d)
                  THEN WriteMacBundleResources(t, MacBundleResources(d)) \cup WriteMacInfoPlist(t, d)
                  ELSE {}
    IN  [stamp |-> stamp.file,
         steps |-> actions.steps \cup rules.steps \cup copies.steps \cup idl.steps
                       \cup stamp.steps \cup bundle,
         bundle_depends |-> copies.bundle_depends \cup
             UNION {s.outs : s \in {x \in bundle : x.rule # "preprocess_infoplist"}}]

-----------------------------------------------------------------------------
\* WriteSourcesForArch: the compiler for a source, if there is one.
CompileCommand(d, ext) ==
    CASE ext \in CppExtensions -> "cxx"
      [] ext = "c" -> "cc"
      [] ext = "s" /\ project.flavor # "win" -> "cc_s"
      [] ext = "asm" /\ project.flavor = "win" /\ ~HasExplicitRule(d, "asm") -> "asm"
      [] ext = "m" /\ project.flavor = "mac" -> "objc"
      [] ext = "rc" /\ project.flavor = "win" -> "rc"
      [] OTHER -> "none"

ObjectOf(t, d, s, arch) ==
    LET ext == CASE CompileCommand(d, Extension(s)) = "asm" -> "_asm.obj"
                 [] CompileCommand(d, Extension(s)) = "rc" -> "res"
                 [] OTHER -> ObjExt
    IN  GypPathToUniqueOutput(t, WithExtension(s, ext), TRUE)
            \o (IF arch = "" THEN <<>> ELSE <<arch>>)

\* PrecompiledHeader of msvs_emulation: the object of the precompiled source
\* comes before those of the sources in its language.
LanguageMatchesForPch(ext, pchExt) ==
    Language(ext) = Language(pchExt) /\ Language(ext) \in {"c", "cc"}
WinPch(t, d, s) ==
    IF d.pch_source = NoFile \/ s = d.pch_source
           \/ ~LanguageMatchesForPch(Extension(s), Extension(d.pch_source))
    THEN {} ELSE {ObjectOf(t, d, d.pch_source, "")}

\* MacPrefixHeader of xcode_emulation: a gch file for each language.
Gch(t, d, lang, arch) ==
    GypPathToUniqueOutput(t, d.prefix_header \o <<lang, arch, "gch">>, TRUE)
WritePchTargets(t, d, arch) ==
    IF ~HasGch(d) THEN {}
    ELSE {Step(CompileCommand(d, lang), t, {Gch(t, d, lang, arch)}, {d.prefix_header}, {}) :
            lang \in PchLanguages}

GetObjDependencies(t, d, s, arch) ==
    CASE project.flavor = "win" -> WinPch(t, d, s)
      [] HasGch(d) /\ Language(Extension(s)) \in PchLanguages ->
            {Gch(t, d, Language(Extension(s)), arch)}
      [] OTHER -> {}

Compiled(d, sources) == {s \in sources : CompileCommand(d, Extension(s)) # "none"}

WriteSourcesForArch(t, d, sources, predepends, arch) ==
    {Step(CompileCommand(d, Extension(s)), t, {ObjectOf(t, d, s, arch)},
          {s} \cup GetObjDependencies(t, d, s, arch), predepends) : s \in Compiled(d, sources)}
    \cup WritePchTargets(t, d, arch)

Objects(t, d, sources, arch) ==
    {ObjectOf(t, d, s, arch) : s \in Compiled(d, sources)}
    \* Some actions and rules output object files.
    \cup (IF arch = "" THEN {s \in sources : Extension(s) = ObjExt} ELSE {})

Archs(d) == IF project.flavor = "mac" /\ Len(d.archs) > 1 THEN ToSet(d.archs) ELSE {""}

-----------------------------------------------------------------------------
\* WriteLinkForArch: what the target links of each dependency, and what else has
\* to be done before.
LinkInputs(d, target) ==
    CASE ~Linkable(target) -> {}
      [] Linkable(target) /\ project.flavor = "win" /\ target.component_objs # {}
            /\ d.use_library_dependency_inputs -> target.component_objs
      [] Linkable(target) /\ project.flavor = "win" /\ target.import_lib # NoFile ->
            {target.import_lib}
      [] Linkable(target) /\ UsesToc(target) -> {}
      [] OTHER -> {target.binary}

ImplicitInputs(target) ==
    (IF Linkable(target) /\ UsesToc(target) THEN {Toc(target.binary)} ELSE {})
    \cup (IF Linkable(target) /\ FinalOutput(target) = target.binary THEN {}
          ELSE {FinalOutput(target)})

\* Manifests and the .def file of a link on Windows.
WinLinkInputs(d) ==
    IF project.flavor # "win" THEN {}
    ELSE ToSet(d.manifests) \cup {s \in ToSet(d.sources) : Extension(s) = "def"}

IsSolink(d) == d.type \in {"shared_library", "loadable_module"}
LinkOutputs(t, d, output) ==
    {output} \cup
    (CASE project.flavor = "win" ->
            (IF IsSolink(d) /\ ~d.noentry THEN {Append(output, "lib")} ELSE {})
            \cup (IF d.pdb /\ (~IsSolink(d) \/ ~d.noentry) THEN {Append(output, "pdb")} ELSE {})
       [] project.flavor # "win" /\ IsSolink(d) /\ ~IsMacBundle(d) -> {Toc(output)}
       [] OTHER -> {})

LinkRule(d) == IF d.type = "executable" THEN "link"
               ELSE IF project.flavor = "mac" /\ IsMacBundle(d) THEN "solink_notoc" ELSE "solink"

WriteLinkForArch(t, d, target_outputs, objects, arch) ==
    LET deps == {target_outputs[x] : x \in ToSet(d.dependencies) \cap DOMAIN target_outputs}
        output == ComputeOutput(t, d, arch)
    IN  Step(LinkRule(d), t, LinkOutputs(t, d, output),
             objects \cup UNION {LinkInputs(d, x) \cup ImplicitInputs(x) : x \in deps}
                 \cup WinLinkInputs(d), {})

WriteLink(t, d, target_outputs, objects) ==
    IF Archs(d) = {""} THEN {WriteLinkForArch(t, d, target_outputs, objects[""], "")}
    ELSE {WriteLinkForArch(t, d, target_outputs, objects[arch], arch) : arch \in Archs(d)}
         \cup {Step("lipo", t, {ComputeOutput(t, d, "")},
                    {ComputeOutput(t, d, arch) : arch \in Archs(d)}, {})}

\* The static library branch of WriteTarget.
WriteArchive(t, d, objects, compile_deps) ==
    LET thin == project.flavor = "linux" /\ ~d.standalone_static_library
        rule == IF thin THEN "alink_thin" ELSE "alink"
        output == ComputeOutput(t, d, "")
    IN  IF Archs(d) = {""} THEN {Step(rule, t, {output}, objects[""], compile_deps)}
        ELSE {Step(rule, t, {ComputeOutput(t, d, arch)}, objects[arch], compile_deps) :
                arch \in Archs(d)}
             \cup {Step(rule, t, {output}, {ComputeOutput(t, d, arch) : arch \in Archs(d)}, {})}

\* WriteTarget: the steps of the final product, its file and the type the target
\* counts as from now on.
WriteTarget(t, d, target_outputs, objects, compile_deps) ==
    LET linksOthers == \E x \in ToSet(d.dependencies) \cap DOMAIN target_outputs :
                           Linkable(target_outputs[x])
        nothing == (\A arch \in Archs(d) : objects[arch] = {}) /\ ~linksOthers
    IN  CASE d.type = "none" \/ nothing ->
               [steps |-> {}, binary |-> compile_deps, type |-> "none", import_lib |-> NoFile]
          [] d.type = "static_library" /\ ~nothing ->
               [steps |-> WriteArchive(t, d, objects, Given(compile_deps)),
                binary |-> ComputeOutput(t, d, ""), type |-> d.type, import_lib |-> NoFile]
          [] OTHER ->
               [steps |-> WriteLink(t, d, target_outputs, objects),
                binary |-> ComputeOutput(t, d, ""), type |-> d.type,
                import_lib |-> IF project.flavor = "win" /\ IsSolink(d) /\ ~d.noentry
                               THEN Append(ComputeOutput(t, d, ""), "lib") ELSE NoFile]

WriteMacBundle(t, d, depends, empty) ==
    LET output == <<t[2], "app">> \o (IF empty THEN <<"stamp">> ELSE <<>>)
        rule == IF IsSolink(d) /\ ~empty THEN "package_framework" ELSE "stamp"
    IN  Collapsed(output, {Step(rule, t, {output}, depends, {})})

-----------------------------------------------------------------------------
\* WriteSpec: what the actions of a target and its sources wait for, the steps of the
\* actions, and then the target itself.  The result has no target when it makes nothing.
TargetOf(t, d, depends, actions, objects, linking, bundle, links) ==
    [NewTarget(d.type) EXCEPT
        !.preaction_stamp = depends.actions.file,
        !.precompile_stamp = depends.compile.file,
        !.actions_stamp = actions.stamp,
        !.component_objs = IF project.flavor = "win" /\ d.type = "static_library"
                           THEN objects[""] ELSE {},
        !.type = IF links THEN linking.type ELSE d.type,
        !.binary = IF links THEN linking.binary ELSE NoFile,
        !.import_lib = IF links THEN linking.import_lib ELSE NoFile,
        !.bundle = IF IsMacBundle(d) THEN bundle.file ELSE NoFile]

BundleOf(t, d, actions, links, binary, empty) ==
    WriteMacBundle(t, d, actions.bundle_depends \cup (IF links THEN Given(binary) ELSE {}),
                   actions.bundle_depends = {} /\ empty)

SpecWritten(t, d, depends, actions, objects, linking, bundle, links) ==
    [target |-> TargetOf(t, d, depends, actions, objects, linking, bundle, links),
     found |-> links \/ IsMacBundle(d),
     steps |-> depends.actions.steps \cup depends.compile.steps \cup actions.steps
               \cup (IF links THEN linking.steps ELSE {})
               \cup (IF IsMacBundle(d) THEN bundle.steps ELSE {})
               \cup UNION {WriteSourcesForArch(t, d, ToSet(d.sources) \cup ExtraSources(d),
                              Given(FirstGiven(<<actions.stamp, depends.compile.file>>)), arch) :
                            arch \in Archs(d)}]

LinkSpec(t, d, depends, actions, objects, linking) ==
    LET empty == \A arch \in Archs(d) : objects[arch] = {}
        links == ~empty \/ FirstGiven(<<actions.stamp, depends.actions.file>>) # NoFile
    IN  SpecWritten(t, d, depends, actions, objects, linking,
                    BundleOf(t, d, actions, links, linking.binary, empty), links)

CompileSpec(t, d, target_outputs, depends, actions, objects) ==
    LinkSpec(t, d, depends, actions, objects,
             WriteTarget(t, d, target_outputs, objects,
                         FirstGiven(<<actions.stamp, depends.actions.file>>)))

ActionsSpec(t, d, target_outputs, depends) ==
    CompileSpec(t, d, target_outputs, depends,
                WriteActionsRulesCopies(t, d, Given(depends.actions.file)),
                [arch \in Archs(d) |->
                    Objects(t, d, ToSet(d.sources) \cup ExtraSources(d), arch)])

WriteSpec(t, d, target_outputs) ==
    LET deps == SelectSeq(d.dependencies, LAMBDA x : x \in DOMAIN target_outputs)
        pre(Input(_)) == SelectSeq([i \in DOMAIN deps |-> Input(target_outputs[deps[i]])],
                                   LAMBDA f : f # NoFile)
    IN  ActionsSpec(t, d, target_outputs,
            [actions |-> WriteCollapsedDependencies(t, "actions_depends", pre(PreActionInput), {}),
             compile |-> WriteCollapsedDependencies(t, "compile_depends", pre(PreCompileInput), {})])

-----------------------------------------------------------------------------
\* On Windows the targets are sharded and shimmed first.
GeneratorTargets ==
    IF project.flavor = "win" THEN InsertLargePdbShims(ShardTargets)
    ELSE [list |-> flat_list, dicts |-> targets]

-----------------------------------------------------------------------------
\* GenerateOutputForConfig: the targets in the order of the list, then phony steps
\* for their short names, for the targets without output, and for all.
AddTarget(acc, t, written) ==
    LET final == FinalOutput(written.target)
    IN  [target_outputs |-> IF written.found THEN (t :> written.target) @@ acc.target_outputs
                            ELSE acc.target_outputs,
         steps |-> acc.steps \cup written.steps,
         short |-> IF written.found /\ <<t[2]>> # final /\ t[3] = "target"
                   THEN acc.short \cup {<<t[2], final>>} ELSE acc.short,
         empty |-> IF written.found THEN acc.empty ELSE acc.empty \cup {t[2]}]
WriteOneTarget(all, acc, t) == AddTarget(acc, t, WriteSpec(t, all.dicts[t], acc.target_outputs))

WriteAllTargets(all) ==
    Folded(LAMBDA acc, t : WriteOneTarget(all, acc, t),
           [target_outputs |-> [t \in {} |-> NoFile], steps |-> {}, short |-> {}, empty |-> {}],
           all.list)

\* Mutation: the rule for C++ has no depfile.
DepfileRulesC == {"cc"}

\* Of the rules of the master file: the compilers that report the headers they read,
DepfileRules == {"cc", "cxx", "objc"}
\* and what leaves an output alone that would not change: the commands of actions and
\* rules, and the link of a shared library with its table of contents.
RestatActions == {"action", "rule"}
RestatLinks == {"solink", "solink_notoc"}

OutputOf(all, written) ==
    LET named == {p[1] : p \in written.short}
        nonEmpty == {t[2] : t \in DOMAIN written.target_outputs}
        wanted == AllNeededTargets(all.dicts, all.list) \cap DOMAIN written.target_outputs
        phony(name, files) == Step("phony", <<>>, {<<name>>}, files, {})
    IN  [steps |-> written.steps
             \cup {phony(n, {p[2] : p \in {x \in written.short : x[1] = n}}) : n \in named}
             \cup {phony(n, {}) : n \in written.empty \ nonEmpty}
             \cup {phony("all", {FinalOutput(written.target_outputs[t]) : t \in wanted})},
         error |-> "",
         dicts |-> all.dicts,
         product |-> [t \in DOMAIN all.dicts |->
             IF t \in DOMAIN written.target_outputs
             THEN Given(FinalOutput(written.target_outputs[t])) ELSE {}],
         goal |-> <<"all">>,
         restat |-> RestatActions \cup RestatLinks,
         depfile |-> DepfileRules]
WrittenOf(all) == OutputOf(all, WriteAllTargets(all))
GenerateOutputForConfig == WrittenOf(GeneratorTargets)
=============================================================================
