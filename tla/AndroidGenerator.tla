-------------------------- MODULE AndroidGenerator --------------------------
(***************************************************************************)
(* gyp's android generator: the Android.mk file that AndroidMkWriter       *)
(* writes for a target, and GenerateOutput.  The rules that compile and    *)
(* link a module are Android's own and are modelled from the variables     *)
(* that the generator sets for them.                                       *)
(***************************************************************************)
EXTENDS BuildSteps

\* ComputeAndroidModule: libraries are named with the directory and the toolset.
ComputeAndroidModule(t, type) ==
    (IF type = "shared_library" THEN "lib_" ELSE "") \o Dir[t[1]] \o "_" \o t[2]
        \o (IF t[3] = "host" THEN "_host_gyp" ELSE "_gyp")

ComputeOutputParts(t, type) ==
    CASE type = "static_library" -> <<ComputeAndroidModule(t, type), "a">>
      [] type = "shared_library" -> <<ComputeAndroidModule(t, type), "so">>
      [] type = "none" -> <<t[2], "stamp">>
      [] OTHER -> <<t[2]>>

ComputeOutput(t, type) ==
    CASE type = "executable" -> <<"shared">> \o ComputeOutputParts(t, type)
      [] type = "shared_library" -> <<"lib", t[3]>> \o ComputeOutputParts(t, type)
      [] OTHER -> <<"intermediates", ComputeAndroidModule(t, type)>> \o ComputeOutputParts(t, type)

\* ComputeDeps: the outputs of the dependencies, and the modules among them that
\* are linked.
ComputeDeps(d, acc) ==
    [deps |-> {acc.target_outputs[x] : x \in ToSet(d.dependencies)},
     link_deps |-> {acc.target_link_deps[x] :
                      x \in ToSet(d.dependencies) \cap DOMAIN acc.target_link_deps}]

-----------------------------------------------------------------------------
\* Actions, rules and copies depend on GYP_TARGET_DEPENDENCIES in full.
WriteActions(t, d, deps) ==
    {Step("action", t, ToSet(a.outputs), ToSet(a.inputs) \cup deps, {}) : a \in ToSet(d.actions)}
WriteRules(t, d, deps) ==
    UnionOver(d.rules, LAMBDA rule :
        {Step("rule", t, RuleOutputs(rule, s), {s} \cup ToSet(rule.inputs) \cup deps, {}) :
           s \in ToSet(rule.rule_sources)})
WriteCopies(t, d, deps) ==
    UnionOver(d.copies, LAMBDA c :
        {Step("copy", t, {CopyOf(c, f)}, {f} \cup deps, {}) : f \in ToSet(c.files)})

\* WriteSources.  Android compiles sources with one C++ extension only, that of the
\* first C++ source, and generated sources only in the intermediate directory: the
\* others are copied there, with the right extension.
LocalCppExtension(d) ==
    LET cpp == SelectSeq(d.sources, LAMBDA s : Extension(s) \in CppExtensions)
        extra == {s \in ExtraSources(d) : Extension(s) \in CppExtensions}
    IN  CASE cpp # <<>> -> Extension(cpp[1])
          [] cpp = <<>> /\ extra # {} -> Extension(CHOOSE s \in extra : TRUE)
          [] OTHER -> "cpp"
WrongExtension(d, s) ==
    Extension(s) \in CppExtensions /\ Extension(s) # LocalCppExtension(d)
IsCopied(d, s) == s \in ExtraSources(d) \/ WrongExtension(d, s)
LocalFile(t, d, s) ==
    IF ~IsCopied(d, s) THEN s
    ELSE <<"intermediates", ComputeAndroidModule(t, d.type)>>
             \o Basename(IF WrongExtension(d, s) THEN WithExtension(s, LocalCppExtension(d)) ELSE s)
CompiledSources(d) == {s \in ToSet(d.sources) \cup ExtraSources(d) : Compilable(s)}
WriteSources(t, d) ==
    {Step("copy", t, {LocalFile(t, d, s)}, {s}, {}) : s \in {x \in CompiledSources(d) : IsCopied(d, x)}}

-----------------------------------------------------------------------------
\* Android's rules for the sources of a module: an object depends on all of
\* LOCAL_ADDITIONAL_DEPENDENCIES.
AndroidObject(t, d, s) == <<"intermediates", ComputeAndroidModule(t, d.type), "obj">>
                              \o WithExtension(LocalFile(t, d, s), "o")
AndroidCompile(t, d, additional) ==
    {Step(IF Extension(s) \in CppExtensions THEN "cxx" ELSE "cc", t, {AndroidObject(t, d, s)},
          {LocalFile(t, d, s)} \cup additional, {}) : s \in CompiledSources(d)}
\* Android's rules for the module itself: it depends on them too.
AndroidModule(t, d, additional, libraries) ==
    Step(d.type, t, {ComputeOutput(t, d.type)},
         additional \cup libraries
             \cup (IF d.type = "none" THEN {} ELSE {AndroidObject(t, d, s) : s \in CompiledSources(d)}), {})

\* WriteTargetFlags: what is linked into an executable or a shared library.
LinkedModules(d, computed) ==
    IF d.type \in {"executable", "shared_library"} THEN computed.link_deps ELSE {}

\* WriteTarget: the aliases for the module.
Aliases(t, d, part_of_all) ==
    LET module == ComputeAndroidModule(t, d.type)
    IN  {<<module, ComputeOutput(t, d.type)>>, <<t[2], <<module>>>>}
        \cup (IF part_of_all THEN {<<"gyp_all_modules", <<module>>>>} ELSE {})

\* Write, which fails on a dependency that was not written.
Write(t, d, acc, part_of_all) ==
    IF ~(ToSet(d.dependencies) \subseteq DOMAIN acc.target_outputs)
    THEN [acc EXCEPT !.error = "dependency was not written"]
    ELSE LET computed == ComputeDeps(d, acc)
             special == WriteActions(t, d, computed.deps) \cup WriteRules(t, d, computed.deps)
                            \cup WriteCopies(t, d, computed.deps)
             additional == computed.deps \cup UNION {s.outs : s \in special}
             output == ComputeOutput(t, d.type)
             compiles == d.type # "none"
         IN  [acc EXCEPT
                !.target_outputs = (t :> output) @@ @,
                !.target_link_deps = IF d.type \in {"static_library", "shared_library"}
                                     THEN (t :> output) @@ @ ELSE @,
                !.steps = @ \cup special
                            \cup (IF compiles THEN WriteSources(t, d)
                                                       \cup AndroidCompile(t, d, additional) ELSE {})
                            \cup {AndroidModule(t, d, additional, LinkedModules(d, computed))},
                !.aliases = @ \cup Aliases(t, d, part_of_all),
                !.modules = Append(@, ComputeAndroidModule(t, d.type))]

-----------------------------------------------------------------------------
\* GenerateOutput: the modules must have different names.
WriteModule(acc, t, needed) ==
    LET part_of_all == t \in needed /\ ~targets[t].suppress_wildcard
    IN  CASE acc.error # "" -> acc
          [] acc.error = "" /\ project.limit_to_target_all /\ ~part_of_all -> acc
          [] acc.error = "" /\ ComputeAndroidModule(t, targets[t].type) \in ToSet(acc.modules) ->
               [acc EXCEPT !.error = "module names must be unique"]
          [] OTHER -> Write(t, targets[t], acc, part_of_all)

GenerateOutput ==
    LET needed == AllNeededTargets(targets, flat_list)
        written == Folded(LAMBDA acc, t : WriteModule(acc, t, needed),
                       [target_outputs |-> [t \in {} |-> NoFile],
                        target_link_deps |-> [t \in {} |-> NoFile],
                        steps |-> {}, aliases |-> {}, modules |-> <<>>, error |-> ""],
                       flat_list)
    IN  [steps |-> written.steps \cup
             {Step("phony", <<>>, {<<name>>}, {p[2] : p \in {x \in written.aliases : x[1] = name}}, {}) :
                name \in {p[1] : p \in written.aliases}},
         error |-> written.error,
         dicts |-> targets,
         product |-> [t \in DOMAIN targets |->
             IF t \in DOMAIN written.target_outputs THEN {written.target_outputs[t]} ELSE {}],
         goal |-> <<"gyp_all_modules">>,
         restat |-> {"action", "rule"},
         depfile |-> {"cc", "cxx"}]
=============================================================================
