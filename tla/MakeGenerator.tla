---------------------------- MODULE MakeGenerator ----------------------------
(***************************************************************************)
(* gyp's make generator: the rules that MakefileWriter writes for a        *)
(* target, and GenerateOutput, which writes them all.  The rules for one   *)
(* file are put together to one step, since make adds up the prerequisites *)
(* that several rules give a file.                                         *)
(***************************************************************************)
EXTENDS BuildSteps

\* Compilable, Linkable and Target; the command of a suffix rule.
CompileCommand(ext) ==
    CASE ext \in CppExtensions -> "cxx"
      [] ext \in {"c", "s"} -> "cc"
      [] ext = "m" /\ project.flavor = "mac" -> "objc"
      [] OTHER -> "none"
Linkable(s) == Extension(s) = "o"
Target(s) == WithExtension(s, "o")

Objectify(t, path) == <<"obj", t[3], t[2], Dir[t[1]]>> \o path
Pchify(t, path, lang) == <<"obj", t[3], t[2], "pch", lang>> \o path

ComputeOutputBasename(t, d) ==
    CASE project.flavor = "mac" /\ d.type # "none" -> ExecutablePath(t, d)
      [] project.flavor # "mac" /\ d.type = "static_library" -> <<"lib" \o t[2], "a">>
      [] project.flavor # "mac" /\ d.type \in {"shared_library", "loadable_module"} ->
            <<"lib" \o t[2], "so">>
      [] d.type = "none" -> <<t[2], "stamp">>
      [] OTHER -> <<t[2]>>

InstallImmediately(t, type) ==
    t[3] = "target" /\ project.flavor = "mac" /\ type # "none"

Builddir(path) == <<"builddir">> \o path
ComputeOutput(t, d) ==
    IF d.type = "executable" \/ InstallImmediately(t, d.type)
    THEN Builddir(ComputeOutputBasename(t, d))
    ELSE <<"obj", t[3], Dir[t[1]]>> \o ComputeOutputBasename(t, d)

\* ComputeMacBundleOutput and ComputeMacBundleBinaryOutput.
Output(t, d) == IF IsMacBundle(d) THEN <<t[2], "app">> ELSE ComputeOutput(t, d)
OutputBinary(t, d) ==
    IF IsMacBundle(d) THEN ExecutablePath(t, d) ELSE ComputeOutput(t, d)

Installable(d) ==
    d.standalone_static_library
        \/ d.type \in {"executable", "loadable_module", "shared_library"}

\* _InstallableTargetInstallPath, and the path of what is not installed.
InstallPath(t, d) ==
    CASE IsMacBundle(d) \/ ~Installable(d) -> Output(t, d)
      [] ~IsMacBundle(d) /\ d.type = "shared_library"
            /\ (project.flavor # "mac" \/ t[3] # "target") ->
            Builddir(<<"lib", t[3]>> \o ComputeOutputBasename(t, d))
      [] OTHER -> Builddir(ComputeOutputBasename(t, d))

\* ComputeDeps: a dependency that is not written yet is an error.
ComputeDeps(d, acc) ==
    LET link_deps == {acc.target_link_deps[x] :
                        x \in ToSet(d.dependencies) \cap DOMAIN acc.target_link_deps}
    IN  [deps |-> {acc.target_outputs[x] : x \in ToSet(d.dependencies)} \cup link_deps,
         link_deps |-> link_deps]

-----------------------------------------------------------------------------
\* WriteDoCmd and WriteMakeRule: the first output has the command and the others depend
\* on it and have an empty one, so that the command is run once and makes them all.
WriteDoCmd(command, t, outputs, inputs, order) == Step(command, t, outputs, inputs, order)

\* The dependencies of the target come in order only, from WriteTarget.
WriteActions(t, d, deps) ==
    {WriteDoCmd("action", t, ToSet(a.outputs), ToSet(a.inputs), deps) : a \in ToSet(d.actions)}
WriteRules(t, d, deps) ==
    UnionOver(d.rules, LAMBDA rule :
        {WriteDoCmd("rule", t, RuleOutputs(rule, s), {s} \cup ToSet(rule.inputs), deps) :
           s \in ToSet(rule.rule_sources)})
WriteCopies(t, d, deps) ==
    UnionOver(d.copies, LAMBDA c :
        {WriteDoCmd("copy", t, {CopyOf(c, f)}, {f}, deps) : f \in ToSet(c.files)})

WriteMacBundleResources(t, resources) ==
    {WriteDoCmd("mac_tool", t, {BundlePath(t, CompiledResource(res))}, {res}, {}) : res \in resources}
WriteMacInfoPlist(t, d) ==
    LET intermediate == <<"obj", t[3], t[2]>> \o Basename(d.info_plist)
        out == BundlePath(t, <<"Info", "plist">>)
    IN  IF d.info_plist = NoFile THEN {}
        ELSE IF ~d.preprocess_info_plist THEN {WriteDoCmd("mac_tool", t, {out}, {d.info_plist}, {})}
        ELSE {WriteDoCmd("infoplist", t, {intermediate}, {d.info_plist}, {}),
              WriteDoCmd("mac_tool", t, {out}, {intermediate}, {})}

\* WriteSources and the suffix rules: the objects wait for the dependencies and for
\* the outputs of actions, rules and copies, and depend on their gch file.
WriteSources(t, d, deps, sources, extra_outputs) ==
    {Step(CompileCommand(Extension(s)), t, {Objectify(t, Target(s))},
          {s} \cup (IF HasGch(d) /\ Language(Extension(s)) \in PchLanguages
                    THEN {Pchify(t, d.prefix_header, Language(Extension(s)))} ELSE {}),
          deps \cup extra_outputs) : s \in {x \in sources : Compilable(x)}}
WritePchTargets(t, d) ==
    IF ~HasGch(d) THEN {}
    ELSE {Step(CompileCommand(lang), t, {Pchify(t, d.prefix_header, lang)}, {d.prefix_header}, {}) :
            lang \in PchLanguages}

\* _ValidateSourcesForOSX.
ValidateSourcesForOSX(d, sources) ==
    project.flavor # "mac" \/ d.type # "static_library"
        \/ \A s, u \in {x \in sources : Compilable(x)} : s # u => s[Len(s) - 1] # u[Len(u) - 1]

-----------------------------------------------------------------------------
\* WriteTarget.  The binary is linked from the objects and the libraries; the stamp
\* of a target without a product depends on the dependencies.
LinkCommand(d) ==
    CASE d.type = "static_library" /\ project.flavor = "linux" /\ ~d.standalone_static_library ->
            "alink_thin"
      [] d.type = "static_library"
            /\ (project.flavor # "linux" \/ d.standalone_static_library) -> "alink"
      [] d.type = "shared_library" -> "solink"
      [] d.type = "loadable_module" -> "solink_module"
      [] d.type = "executable" -> "link"
      [] OTHER -> "touch"
\* Mutation: the product does not wait for the actions.
BinaryStepWithoutActions(t, d, deps, link_deps, extra_outputs) ==
    WriteDoCmd(LinkCommand(d), t, {OutputBinary(t, d)},
         IF d.type = "none" THEN deps ELSE link_deps, {})

BinaryStep(t, d, deps, link_deps, extra_outputs) ==
    WriteDoCmd(LinkCommand(d), t, {OutputBinary(t, d)},
         IF d.type = "none" THEN deps ELSE link_deps, extra_outputs)

\* A bundle depends on its parts, and on the actions in case it has no binary.
BundleStep(t, d, bundle_deps, extra_outputs) ==
    WriteDoCmd("mac_package_framework", t, {Output(t, d)}, bundle_deps, extra_outputs)

\* An installable target is copied to where it is installed.
InstallStep(t, d) ==
    IF Installable(d) /\ InstallPath(t, d) # Output(t, d)
    THEN {WriteDoCmd("copy", t, {InstallPath(t, d)}, {Output(t, d)}, {})} ELSE {}

\* The aliases: the name of the target, the name of the file, and all.
Aliases(t, d, part_of_all) ==
    LET file == ComputeOutputBasename(t, d)
    IN  {<<t[2], InstallPath(t, d)>>}
        \cup (IF Installable(d) /\ ~IsMacBundle(d) /\ file # <<t[2]>>
              THEN {<<file[1] \o "." \o file[2], Output(t, d)>>,
                    <<file[1] \o "." \o file[2], InstallPath(t, d)>>} ELSE {})
        \cup (IF part_of_all
              THEN {<<"all", IF Installable(d) THEN InstallPath(t, d) ELSE <<t[2]>>>>} ELSE {})

\* Write: the rules for a target, and what the targets after it need to know of it.
Write(t, d, acc, part_of_all) ==
    LET computed == ComputeDeps(d, acc)
        special == WriteActions(t, d, computed.deps) \cup WriteRules(t, d, computed.deps)
                       \cup WriteCopies(t, d, computed.deps)
        extra_outputs == UNION {s.outs : s \in special}
        sources == ToSet(d.sources) \cup ExtraSources(d)
        compiles == WriteSources(t, d, computed.deps, sources, extra_outputs)
        bundle == IF ~IsMacBundle(d) THEN {}
                  ELSE WriteMacBundleResources(t,
                           ToSet(d.mac_bundle_resources) \cup ExtraMacBundleResources(d))
                       \cup WriteMacInfoPlist(t, d)
        bundle_deps == UNION {s.outs : s \in {x \in bundle : x.rule = "mac_tool"}}
                           \cup (IF compiles # {} THEN {OutputBinary(t, d)} ELSE {})
        link_deps == UNION {s.outs : s \in compiles} \cup {s \in sources : Linkable(s)}
                         \cup computed.link_deps
    IN  [target_outputs |-> (t :> InstallPath(t, d)) @@ acc.target_outputs,
         target_link_deps |-> IF d.type \in {"static_library", "shared_library"}
                              THEN (t :> OutputBinary(t, d)) @@ acc.target_link_deps
                              ELSE acc.target_link_deps,
         steps |-> acc.steps \cup special \cup bundle \cup compiles
                   \cup (IF sources = {} THEN {} ELSE WritePchTargets(t, d))
                   \cup {BinaryStep(t, d, computed.deps, link_deps, extra_outputs)}
                   \cup (IF IsMacBundle(d) THEN {BundleStep(t, d, bundle_deps, extra_outputs)}
                         ELSE {})
                   \cup InstallStep(t, d),
         aliases |-> acc.aliases \cup Aliases(t, d, part_of_all)]

-----------------------------------------------------------------------------
\* The part of the shared header about commands: the compilers write the headers
\* that they read to a .d file, and
DepfileRules == {"cc", "cxx", "objc"}
\* make looks at the time of an output again when the command has been run.
RestatRules == {"action", "rule"}

\* GenerateOutput.
GenerateOutput ==
    LET needed == AllNeededTargets(targets, flat_list)
        written == Folded(LAMBDA acc, t : Write(t, targets[t], acc, t \in needed),
                       [target_outputs |-> [t \in {} |-> NoFile],
                        target_link_deps |-> [t \in {} |-> NoFile], steps |-> {}, aliases |-> {}],
                       flat_list)
    IN  [steps |-> written.steps \cup
             {Step("phony", <<>>, {<<name>>}, {p[2] : p \in {x \in written.aliases : x[1] = name}}, {}) :
                name \in {p[1] : p \in written.aliases}},
         error |-> IF \A t \in ToSet(flat_list) :
                        ValidateSourcesForOSX(targets[t], ToSet(targets[t].sources)
                                                              \cup ExtraSources(targets[t]))
                   THEN "" ELSE "duplicate basenames",
         dicts |-> targets,
         product |-> [t \in DOMAIN targets |-> {written.target_outputs[t]}],
         goal |-> <<"all">>,
         restat |-> RestatRules,
         depfile |-> DepfileRules]
=============================================================================
