--------------------------- MODULE CMakeGenerator ---------------------------
(***************************************************************************)
(* gyp's cmake generator: the commands WriteTarget writes for a target,    *)
(* and GenerateOutputForConfig.  CMake turns them into steps; that part is *)
(* modelled as CMake's Ninja backend does it, which is the one that the    *)
(* generator's own build runs: the steps of a CMake target wait for        *)
(* everything that the target depends on.                                  *)
(***************************************************************************)
EXTENDS BuildSteps

\* CMakeNamer: the base name of a target, or the full name if two have the same.
HostSuffix(t) == IF t[3] # "target" THEN "_" \o t[3] ELSE ""
CreateCMakeTargetBaseName(t) == t[2] \o HostSuffix(t)
CreateCMakeTargetFullName(t) == t[1] \o "_" \o t[2] \o HostSuffix(t)
Conflicting ==
    {CreateCMakeTargetBaseName(t) : t \in
       {u \in DOMAIN targets : \E v \in DOMAIN targets \ {u} :
            CreateCMakeTargetBaseName(u) = CreateCMakeTargetBaseName(v)}}
CreateCMakeTargetName(t) ==
    IF CreateCMakeTargetBaseName(t) \in Conflicting THEN CreateCMakeTargetFullName(t)
    ELSE CreateCMakeTargetBaseName(t)

\* A CMake target is a file that is made when all of the target is.
CMakeTarget(name) == <<name>>
TargetName(t) == CMakeTarget(CreateCMakeTargetName(t))
TargetNames(list) == {TargetName(x) : x \in ToSet(list)}

-----------------------------------------------------------------------------
\* WriteActions, WriteRules and WriteCopies: custom commands, and a custom target
\* for their outputs that depends on everything the target depends on.
CustomTarget(t, name, steps) ==
    [name |-> CMakeTarget(name), steps |-> steps, outs |-> UNION {s.outs : s \in steps}]
WriteActions(t, d, deps) ==
    {CustomTarget(t, CreateCMakeTargetName(t) \o "__" \o a.action_name,
         {Step("action", t, ToSet(a.outputs), ToSet(a.inputs), deps)}) : a \in ToSet(d.actions)}
WriteRules(t, d, deps) ==
    {CustomTarget(t, CreateCMakeTargetName(t) \o "__" \o rule.rule_name,
         {Step("rule", t, RuleOutputs(rule, s), {s} \cup ToSet(rule.inputs), deps) :
            s \in ToSet(rule.rule_sources)}) : rule \in ToSet(d.rules)}
\* All copies are one command.
WriteCopies(t, d, deps) ==
    LET copied == UnionOver(d.copies, LAMBDA c : ToSet(c.files))
        outputs == UnionOver(d.copies, LAMBDA c : {CopyOf(c, f) : f \in ToSet(c.files)})
    IN  IF d.copies = <<>> THEN {}
        ELSE {CustomTarget(t, CreateCMakeTargetName(t) \o "__copies",
                  IF copied = {} THEN {} ELSE {Step("copy", t, outputs, copied, deps)})}

\* The sources by language, and those that are compiled.
SourceLanguage(s) == IF Extension(s) \in CppExtensions THEN "cxx" ELSE "cc"
Sources(d) == {s \in ToSet(d.sources) \cup ExtraSources(d) : Compilable(s)}

\* The type that WriteTarget gives a target: CMake wants no executable without
\* sources.
TargetType(d) ==
    IF d.type = "executable" /\ {s \in ToSet(d.sources) : Compilable(s)} \cup ExtraSources(d) = {}
    THEN "none" ELSE d.type
IsLinkable(d) == TargetType(d) \in {"executable", "loadable_module", "shared_library"}

\* The output directory, prefix, name and extension.
TargetOutput(t, d) ==
    CASE TargetType(d) = "executable" -> <<"builddir", t[2]>>
      [] TargetType(d) = "loadable_module" -> <<"builddir", "lib" \o t[2], "so">>
      [] TargetType(d) = "shared_library" -> <<"builddir", "lib", t[3], "lib" \o t[2], "so">>
      [] OTHER -> (IF d.standalone_static_library THEN <<"builddir">>
                   ELSE <<"obj", t[3], Dir[t[1]]>>) \o <<"lib" \o t[2], "a">>
Product(t, d) == IF TargetType(d) = "none" THEN {} ELSE {TargetOutput(t, d)}

-----------------------------------------------------------------------------
\* The dependencies, by the type the dependency has in the gyp file.
LibraryDeps(d) ==
    {x \in ToSet(d.dependencies) : targets[x].type \in {"static_library", "shared_library"}}
OtherDeps(d) == ToSet(d.dependencies) \ LibraryDeps(d)
\* What add_dependencies and target_link_libraries make the target wait for.
AddDependencies(d, extra_deps) ==
    {TargetName(x) : x \in OtherDeps(d)} \cup extra_deps
        \cup (IF IsLinkable(d) THEN {} ELSE {TargetName(x) : x \in LibraryDeps(d)})
TargetLinkLibraries(d) ==
    IF IsLinkable(d) THEN UNION {Product(x, targets[x]) : x \in LibraryDeps(d)} ELSE {}

\* CMake's own steps for the sources and the product of a target.
CMakeObject(t, s) == <<"CMakeFiles", CreateCMakeTargetName(t)>> \o WithExtension(s, "o")
CMakeCompile(t, d, waits) ==
    IF TargetType(d) = "none" THEN {}
    ELSE {Step(SourceLanguage(s), t, {CMakeObject(t, s)}, {s}, waits) : s \in Sources(d)}
CMakeLink(t, d, waits) ==
    IF TargetType(d) = "none" THEN {}
    ELSE {Step(TargetType(d), t, Product(t, d),
               {CMakeObject(t, s) : s \in Sources(d)} \cup TargetLinkLibraries(d), waits)}

\* WriteTarget.
WriteTarget(t, d) ==
    LET deps == TargetNames(d.dependencies)
        extra == WriteActions(t, d, deps) \cup WriteRules(t, d, deps) \cup WriteCopies(t, d, deps)
        added == AddDependencies(d, {x.name : x \in extra})
        waits == added \cup TargetLinkLibraries(d)
    IN  UNION {x.steps : x \in extra}
        \cup {Step("phony", t, {x.name}, x.outs, deps) : x \in extra}
        \cup CMakeCompile(t, d, waits) \cup CMakeLink(t, d, waits)
        \cup {Step("phony", t, {TargetName(t)}, Product(t, d) \cup added, {})}

\* EXCLUDE_FROM_ALL: CMake's target all depends on every target that is not excluded.
ExcludeFromAll(t, all_qualified_targets) == t \notin all_qualified_targets

GenerateOutputForConfig ==
    LET all_qualified_targets == AllNeededTargets(targets, flat_list)
    IN  [steps |-> UNION {WriteTarget(t, targets[t]) : t \in ToSet(flat_list)}
             \cup {Step("phony", <<>>, {<<"all">>},
                        {TargetName(t) : t \in {x \in DOMAIN targets :
                                             ~ExcludeFromAll(x, all_qualified_targets)}}, {})},
         error |-> "",
         dicts |-> targets,
         product |-> [t \in DOMAIN targets |-> Product(t, targets[t])],
         goal |-> <<"all">>,
         restat |-> {"action", "rule"},
         depfile |-> {"cc", "cxx"}]
=============================================================================
