----------------------------- MODULE BuildSteps -----------------------------
(***************************************************************************)
(* What a gyp generator writes, whatever the build system: steps that make *)
(* files from files.  A step is run when one of the files in ins is newer  *)
(* than what it makes; the files in order must only be there before it is  *)
(* run.  A file is a sequence of strings.                                  *)
(***************************************************************************)
EXTENDS GypTargets

NoFile == <<>>
Given(f) == IF f = NoFile THEN {} ELSE {f}

Step(rule, t, outs, ins, order) ==
    [rule |-> rule, target |-> t, outs |-> outs, ins |-> ins, order |-> order]

\* The extension of a path, and the path with another one: the last
\* two parts of a path are the name and the extension.
Extension(path) == path[Len(path)]
WithExtension(path, ext) == [path EXCEPT ![Len(path)] = ext]

\* The union of what F gives for the elements of a list.
UnionOver(l, F(_)) == UNION {F(l[i]) : i \in DOMAIN l}

\* The outputs of a rule for one source, and the copy of a file.
RuleOutputs(rule, source) == {WithExtension(source, ext) : ext \in ToSet(rule.outputs)}
Basename(path) == SubSeq(path, Len(path) - 1, Len(path))
CopyOf(copy, file) == copy.destination \o Basename(file)

\* The outputs of actions and rules that are also sources, or resources of a bundle.
ExtraSources(d) ==
    UnionOver(d.actions, LAMBDA a :
        IF a.process_outputs_as_sources THEN ToSet(a.outputs) ELSE {})
    \cup UnionOver(d.rules, LAMBDA rule :
        IF rule.process_outputs_as_sources
        THEN UnionOver(rule.rule_sources, LAMBDA s : RuleOutputs(rule, s)) ELSE {})
ExtraMacBundleResources(d) ==
    UnionOver(d.actions, LAMBDA a :
        IF a.process_outputs_as_mac_bundle_resources THEN ToSet(a.outputs) ELSE {})
    \cup UnionOver(d.rules, LAMBDA rule :
        IF rule.process_outputs_as_mac_bundle_resources
        THEN UnionOver(rule.rule_sources, LAMBDA s : RuleOutputs(rule, s)) ELSE {})

\* xcode_emulation: what goes into a bundle, and where.
IsMacBundle(d) == project.flavor = "mac" /\ d.mac_bundle
BundlePath(t, path) == <<t[2], "app">> \o path
\* GetExecutablePath.
ExecutablePath(t, d) ==
    CASE IsMacBundle(d) -> BundlePath(t, <<"MacOS", t[2]>>)
      [] ~IsMacBundle(d) /\ d.type = "static_library" -> <<"lib" \o t[2], "a">>
      [] ~IsMacBundle(d) /\ d.type = "shared_library" -> <<"lib" \o t[2], "dylib">>
      [] ~IsMacBundle(d) /\ d.type = "loadable_module" -> <<t[2], "so">>
      [] OTHER -> <<t[2]>>
\* GetMacBundleResources: a resource keeps its directory only if that is one of
\* translations (.lproj).
IsLproj(dir) == Len(dir) > 6 /\ SubSeq(dir, Len(dir) - 5, Len(dir)) = ".lproj"
CompiledResource(res) ==
    LET output == IF Len(res) > 2 /\ IsLproj(res[Len(res) - 2])
                  THEN SubSeq(res, Len(res) - 2, Len(res)) ELSE Basename(res)
    IN  CASE Extension(res) = "xib" -> WithExtension(output, "nib")
          [] Extension(res) = "storyboard" -> WithExtension(output, "storyboardc")
          [] OTHER -> output

\* The extensions of C++ sources, and the language of an extension.
CppExtensions == {"cc", "cpp"}
Language(ext) == IF ext \in CppExtensions THEN "cc" ELSE ext
Compilable(s) == Extension(s) \in {"c", "m", "s"} \cup CppExtensions

\* MacPrefixHeader of xcode_emulation: there is a gch file for each language.
PchLanguages == {"c", "cc", "m"}
HasGch(d) == project.flavor = "mac" /\ d.prefix_header # NoFile /\ d.precompile_prefix_header

\* gyp.common.DeepDependencyTargets: the targets and all they need, libraries that
\* are only linked too.
DeepDependencyTargets(dicts, roots) ==
    LET next == [t \in DOMAIN dicts |->
                   (ToSet(dicts[t].dependencies) \cup ToSet(dicts[t].dependencies_original))
                       \cap DOMAIN dicts]
        reached[i \in 0..Cardinality(DOMAIN dicts)] ==
            IF i = 0 THEN roots ELSE reached[i - 1] \cup UNION {next[t] : t \in reached[i - 1]}
    IN  reached[Cardinality(DOMAIN dicts)]
\* BuildFileTargets, and AllTargets: those of the build files given to gyp.
BuildFileTargets(list, f) == {t \in ToSet(list) : BuildFile(t) = f}
AllNeededTargets(dicts, list) ==
    DeepDependencyTargets(dicts, UNION {BuildFileTargets(list, f) : f \in project.build_files})
=============================================================================
