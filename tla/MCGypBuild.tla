----------------------------- MODULE MCGypBuild -----------------------------
(***************************************************************************)
(* Projects for GypBuild.  The graph projects are only loaded: they vary   *)
(* the dependencies, the types and the settings of four targets in every   *)
(* way.  The build projects are generated and built: they hold each kind   *)
(* of step on each platform.                                               *)
(***************************************************************************)
EXTENDS GypBuild

DefaultTarget ==
    [toolsets |-> <<"target">>, type |-> "none", dependencies |-> <<>>,
     dependencies_original |-> <<>>, excluded |-> <<>>, exports |-> <<>>,
     exports_excluded |-> <<>>, patterns |-> FALSE,
     hard_dependency |-> FALSE, dependencies_traverse |-> TRUE,
     sharedlib_linksettings |-> TRUE, prune_self_dependency |-> FALSE,
     link_dependency |-> FALSE, suppress_wildcard |-> FALSE,
     standalone_static_library |-> FALSE, flags |-> <<>>,
     settings |-> [all |-> NoSettings, direct |-> NoSettings, link |-> NoSettings],
     sources |-> <<>>, actions |-> <<>>, rules |-> <<>>, copies |-> <<>>,
     mac_bundle |-> FALSE, mac_bundle_resources |-> <<>>, info_plist |-> NoFile,
     preprocess_info_plist |-> FALSE, prefix_header |-> NoFile,
     precompile_prefix_header |-> FALSE, archs |-> <<>>, pch_source |-> NoFile,
     use_library_dependency_inputs |-> FALSE, manifests |-> <<>>, pdb |-> FALSE,
     noentry |-> FALSE, msvs_shard |-> 0, msvs_large_pdb |-> FALSE,
     run_as |-> FALSE, xcode_create_dependents_test_runner |-> FALSE]

DefaultProject ==
    [multiple_toolsets |-> FALSE, circular_check |-> FALSE, root_targets |-> {},
     sorted_dependencies |-> FALSE, adjust_static_libraries |-> TRUE, limit_to_target_all |-> FALSE,
     duplicate_basename_check |-> TRUE, build_files |-> {"p"}, format |-> "none",
     flavor |-> "linux", includes |-> [f \in {} |-> {}], edits |-> {},
     msvs_version |-> "2010", sources_on_disk |-> {},
     config |-> [files |-> {}, targets |-> {}], options_includes |-> {},
     included_files |-> [f \in {} |-> {}]]

Dep(n) == <<"", n, "">>
From(f, n) == <<f, n, "">>
Target(name, type, deps, rest) ==
    rest @@ [name |-> name, type |-> type, dependencies |-> [i \in DOMAIN deps |-> Dep(deps[i])]]
        @@ DefaultTarget

-----------------------------------------------------------------------------
Settings(n) == [all |-> [flags |-> <<n \o "_all">>, link |-> <<>>],
                direct |-> [flags |-> <<n \o "_direct">>, link |-> <<n \o "_dl">>],
                link |-> [flags |-> <<n \o "_link">>, link |-> <<>>]]
Exports(on, deps) == IF on THEN [i \in DOMAIN deps |-> Dep(deps[i])] ELSE <<>>

GraphProjects ==
    {[files |-> ("p" :>
        <<Target("e", te, de, <<>>),
          Target("a", ta, da, [exports |-> Exports(xa, da), settings |-> Settings("a")]),
          Target("b", tb, db, [exports |-> Exports(xb, db), settings |-> Settings("b"),
                               hard_dependency |-> tc = "static_library"]),
          Target("c", tc, dc, [settings |-> Settings("c"), hard_dependency |-> TRUE])>>)]
        @@ [sorted_dependencies |-> xa] @@ DefaultProject :
     te \in {"executable", "static_library"},
     ta \in {"static_library", "none", "shared_library"},
     tb \in {"static_library", "none"}, tc \in {"static_library", "none"},
     de \in {<<"a">>, <<"a", "c">>, <<"b", "a">>},
     da \in {<<>>, <<"b">>, <<"b", "c">>},
     db \in {<<>>, <<"c">>, <<"a">>}, dc \in {<<>>, <<"b">>},
     xa \in BOOLEAN, xb \in BOOLEAN}

-----------------------------------------------------------------------------
Action(name, ins, outs, more) ==
    [action_name |-> name, inputs |-> ins, outputs |-> outs] @@ more @@
    [process_outputs_as_sources |-> FALSE,
     process_outputs_as_mac_bundle_resources |-> FALSE, explicit_idl_action |-> FALSE]

GenH == <<"gen", "h">>
GenTarget == Target("g", "none", <<>>,
    [actions |-> <<Action("make_gen", <<<<"g", "in">>>>, <<GenH>>, <<>>)>>])

\* A generated header, a library that includes it, a program that links it.
Basic(more) ==
    [files |-> ("p" :>
        <<GenTarget,
          Target("a", "static_library", <<"g">>, [sources |-> <<<<"a", "cc">>>>]),
          Target("e", "executable", <<"a">>, [sources |-> <<<<"e", "cc">>, <<"f", "c">>>>])>>),
     includes |-> (<<"a", "cc">> :> {GenH} @@ <<"e", "cc">> :> {<<"a", "h">>}
                   @@ <<"a", "h">> :> {GenH}),
     edits |-> {<<"g", "in">>, <<"a", "cc">>, <<"a", "h">>},
     sources_on_disk |-> {<<"g", "in">>, <<"a", "cc">>, <<"a", "h">>, <<"e", "cc">>, <<"f", "c">>}]
    @@ more @@ DefaultProject

\* A rule that generates sources, with enough inputs to be collapsed, and another one
\* after it.
Rule(name, ext, ins, outs, more) ==
    [rule_name |-> name, extension |-> ext, inputs |-> ins, outputs |-> outs] @@ more @@
    [process_outputs_as_sources |-> FALSE, process_outputs_as_mac_bundle_resources |-> FALSE,
     msvs_external_rule |-> FALSE]
RuleInputs == <<<<"r1", "py">>, <<"r2", "py">>>>
RuleSources == <<<<"x", "proto">>, <<"y", "proto">>, <<"z", "proto">>>>
Rules(more) ==
    [files |-> ("p" :>
        <<GenTarget,
          Target("a", "static_library", <<"g">>,
            [standalone_static_library |-> TRUE,
             sources |-> RuleSources \o <<<<"a", "cpp">>, <<"t", "tpl">>>>,
             rules |-> <<Rule("proto", "proto", RuleInputs, <<"cc", "h">>,
                              [process_outputs_as_sources |-> TRUE]),
                         Rule("tpl", "tpl", <<>>, <<"h">>, <<>>)>>]),
          Target("e", "executable", <<"a">>, [sources |-> <<<<"e", "cc">>>>])>>),
     includes |-> (<<"a", "cpp">> :> {<<"x", "h">>, <<"t", "h">>, GenH}),
     edits |-> {<<"r1", "py">>, <<"x", "proto">>, <<"t", "tpl">>},
     sources_on_disk |-> ToSet(RuleSources) \cup ToSet(RuleInputs) \cup
                         {<<"g", "in">>, <<"a", "cpp">>, <<"t", "tpl">>, <<"e", "cc">>}]
    @@ more @@ DefaultProject

\* A program that links a shared library is run by an action; its output and a data
\* file are copied, and a library is loaded.
Tool(more) ==
    [files |-> ("p" :>
        <<Target("s", "shared_library", <<>>, [sources |-> <<<<"s", "cc">>>>]),
          Target("k", "executable", <<"s">>, [sources |-> <<<<"k", "cc">>>>]),
          Target("g", "none", <<"k">>,
            [actions |-> <<Action("make_gen", <<<<"g", "in">>>>, <<GenH, <<"gen", "dat">>>>, <<>>)>>,
             copies |-> <<[destination |-> <<"out">>, files |-> <<<<"data", "txt">>, <<"gen", "dat">>>>]>>]),
          Target("n", "loadable_module", <<"s">>, [sources |-> <<<<"n", "cc">>>>]),
          Target("e", "executable", <<"g", "n">>, [sources |-> <<<<"e", "cc">>>>])>>),
     includes |-> (<<"e", "cc">> :> {GenH}),
     edits |-> {<<"g", "in">>, <<"s", "cc">>},
     sources_on_disk |-> {<<"g", "in">>, <<"s", "cc">>, <<"k", "cc">>, <<"n", "cc">>, <<"e", "cc">>,
                          <<"data", "txt">>}]
    @@ more @@ DefaultProject

\* A library for both toolsets; the program for the host generates a header.
Cross(more) ==
    [files |-> ("p" :>
        <<Target("a", "static_library", <<>>,
            [sources |-> <<<<"a", "cc">>>>, toolsets |-> <<"target", "host">>]),
          Target("k", "executable", <<"a">>,
            [sources |-> <<<<"k", "c">>>>, toolsets |-> <<"host">>]),
          Target("e", "executable", <<"a">>,
            [sources |-> <<<<"e", "cc">>>>,
             dependencies |-> <<<<"", "k", "host">>, Dep("a")>>,
             actions |-> <<Action("make_gen", <<<<"g", "in">>>>, <<GenH>>, <<>>)>>])>>),
     multiple_toolsets |-> TRUE,
     includes |-> (<<"e", "cc">> :> {GenH}),
     edits |-> {<<"g", "in">>, <<"a", "cc">>},
     sources_on_disk |-> {<<"g", "in">>, <<"a", "cc">>, <<"k", "c">>, <<"e", "cc">>}]
    @@ more @@ DefaultProject

\* What is special to Windows: a library with every kind of source, a precompiled
\* header, a library without an entry point; shards and a large program database.
Windows(more) ==
    [files |-> ("p" :>
        <<Target("d", "shared_library", <<>>,
            [sources |-> <<<<"pch", "cc">>, <<"d", "cc">>, <<"i", "idl">>, <<"v", "rc">>,
                           <<"d", "def">>>>,
             pch_source |-> <<"pch", "cc">>, manifests |-> <<<<"d", "manifest">>>>, pdb |-> TRUE]),
          Target("r", "shared_library", <<>>, [sources |-> <<<<"r", "asm">>>>, noentry |-> TRUE]),
          Target("e", "executable", <<"d", "r">>, [sources |-> <<<<"e", "cc">>>>])>>),
     includes |-> (<<"d", "cc">> :> {<<"i", "h">>}),
     edits |-> {<<"i", "idl">>, <<"pch", "cc">>, <<"v", "rc">>},
     sources_on_disk |-> {<<"pch", "cc">>, <<"d", "cc">>, <<"i", "idl">>, <<"v", "rc">>,
                          <<"d", "def">>, <<"d", "manifest">>, <<"r", "asm">>, <<"e", "cc">>}]
    @@ more @@ DefaultProject
Shards(more) ==
    [files |-> ("p" :>
        <<Target("a", "static_library", <<>>,
            [sources |-> <<<<"a", "cc">>, <<"b", "cc">>, <<"c", "c">>>>, msvs_shard |-> 2]),
          Target("e", "executable", <<"a">>,
            [sources |-> <<<<"e", "cc">>>>, use_library_dependency_inputs |-> TRUE,
             msvs_large_pdb |-> TRUE])>>),
     edits |-> {<<"b", "cc">>},
     sources_on_disk |-> {<<"a", "cc">>, <<"b", "cc">>, <<"c", "c">>, <<"e", "cc">>, <<"large-pdb-shim", "cc">>}]
    @@ more @@ DefaultProject

\* What is special to the Mac: a framework, a bundle with resources, a list of
\* properties and a prefix header.
Mac(more) ==
    [files |-> ("p" :>
        <<Target("f", "shared_library", <<>>,
            [sources |-> <<<<"f", "m">>>>, mac_bundle |-> TRUE]),
          Target("e", "executable", <<"f">>,
            [sources |-> <<<<"e", "cc">>, <<"e2", "m">>>>, mac_bundle |-> TRUE,
             mac_bundle_resources |-> <<<<"menu", "xib">>>>, info_plist |-> <<"Info", "plist">>,
             preprocess_info_plist |-> TRUE, prefix_header |-> <<"prefix", "h">>,
             precompile_prefix_header |-> TRUE,
             copies |-> <<[destination |-> <<"e", "app", "Library">>, files |-> <<<<"data", "txt">>>>]>>,
             actions |-> <<Action("icon", <<<<"icon", "svg">>>>, <<<<"icon", "png">>>>,
                                  [process_outputs_as_mac_bundle_resources |-> TRUE])>>])>>),
     includes |-> (<<"e", "cc">> :> {<<"e", "h">>}),
     edits |-> {<<"prefix", "h">>, <<"menu", "xib">>, <<"e", "h">>, <<"data", "txt">>},
     sources_on_disk |-> {<<"f", "m">>, <<"e", "cc">>, <<"e2", "m">>, <<"e", "h">>, <<"menu", "xib">>,
                          <<"Info", "plist">>, <<"prefix", "h">>, <<"icon", "svg">>, <<"data", "txt">>}]
    @@ more @@ DefaultProject
Archs(more) ==
    [files |-> ("p" :>
        <<Target("a", "static_library", <<>>,
            [sources |-> <<<<"a", "cc">>>>, archs |-> <<"i386", "x86_64">>,
             info_plist |-> <<"Info", "plist">>, mac_bundle |-> FALSE]),
          Target("e", "executable", <<"a">>,
            [sources |-> <<<<"e", "cc">>>>, archs |-> <<"i386", "x86_64">>, mac_bundle |-> TRUE,
             info_plist |-> <<"Info", "plist">>])>>),
     edits |-> {<<"a", "cc">>},
     sources_on_disk |-> {<<"a", "cc">>, <<"e", "cc">>, <<"Info", "plist">>}]
    @@ more @@ DefaultProject

\* What is special to Visual Studio: an external rule, actions that share their first
\* input, and one that has none.
ExternalRules(more) ==
    [files |-> ("p" :>
        <<Target("a", "static_library", <<>>,
            [sources |-> <<<<"x", "proto">>, <<"i", "idl">>, <<"a", "cc">>>>,
             rules |-> <<Rule("proto", "proto", <<<<"r1", "py">>>>, <<"cc", "h">>,
                              [process_outputs_as_sources |-> TRUE]),
                         Rule("idl", "idl", <<<<"r2", "py">>>>, <<"h">>,
                              [msvs_external_rule |-> TRUE])>>,
             actions |-> <<Action("one", <<<<"g", "in">>, <<"x", "proto">>>>, <<GenH>>, <<>>),
                           Action("two", <<<<"g", "in">>>>, <<<<"two", "h">>>>, <<>>),
                           Action("version", <<>>, <<<<"version", "h">>>>, <<>>)>>]),
          Target("e", "executable", <<"a">>, [sources |-> <<<<"e", "cc">>>>])>>),
     includes |-> (<<"a", "cc">> :> {GenH, <<"two", "h">>, <<"version", "h">>, <<"i", "h">>, <<"x", "h">>}),
     edits |-> {<<"r1", "py">>, <<"i", "idl">>, <<"g", "in">>, <<"x", "proto">>},
     sources_on_disk |-> {<<"x", "proto">>, <<"i", "idl">>, <<"a", "cc">>, <<"e", "cc">>,
                          <<"r1", "py">>, <<"r2", "py">>, <<"g", "in">>,
                          <<"p", "gyp">>, <<"a_rules", "mk">>}]
    @@ more @@ DefaultProject

On(format, flavor) == [format |-> format, flavor |-> flavor]
\* What is special to Xcode: sources in directories, translations, tests that are run,
\* and a library of another build file.
Translated(dir) == <<dir, "menu", "xib">>
Tests(more) ==
    [files |->
        "p" :> <<Target("t1", "executable", <<"a">>,
                   [run_as |-> TRUE, sources |-> <<<<"src", "test", "t1", "cc">>>>]),
                 Target("t2", "executable", <<"a">>,
                   [run_as |-> TRUE, mac_bundle |-> TRUE,
                    sources |-> <<<<"src", "test", "t2", "cc">>>>,
                    mac_bundle_resources |-> <<Translated("en.lproj"), Translated("fr.lproj"),
                                               <<"i", "svg">>>>,
                    rules |-> <<Rule("icon", "svg", <<>>, <<"png">>, <<>>)>>]),
                 Target("tests", "none", <<"t1", "t2">>, [xcode_create_dependents_test_runner |-> TRUE]),
                 Target("a", "static_library", <<>>,
                   [dependencies |-> <<From("q", "b")>>,
                    sources |-> <<<<"src", "lib", "a", "cc">>, <<"src", "lib", "x", "o">>>>])>>
        @@ "q" :> <<Target("b", "static_library", <<>>,
                      [sources |-> <<<<"b", "impl", "b", "cc">>>>,
                       copies |-> <<[destination |-> <<"out">>, files |-> <<<<"b", "b", "h">>>>],
                                    [destination |-> <<"doc">>, files |-> <<<<"b", "b", "txt">>>>],
                                    [destination |-> <<"out">>, files |-> <<<<"b", "c", "h">>>>]>>])>>,
     build_files |-> {"p", "q"},
     edits |-> {Translated("fr.lproj"), <<"src", "lib", "a", "cc">>, <<"b", "impl", "b", "cc">>, <<"i", "svg">>},
     sources_on_disk |-> {<<"src", "test", "t1", "cc">>, <<"src", "test", "t2", "cc">>,
                          <<"src", "lib", "a", "cc">>, <<"src", "lib", "x", "o">>,
                          <<"b", "impl", "b", "cc">>, <<"b", "b", "h">>, <<"b", "b", "txt">>,
                          <<"b", "c", "h">>, <<"i", "svg">>,
                          Translated("en.lproj"), Translated("fr.lproj")}]
    @@ more @@ DefaultProject
\* What it refuses.
RefusedByXcode ==
    {[files |-> ("p" :> <<Target("a", "none", <<>>, <<>>), Target("e", type, <<>>, more)>>)]
     @@ On("xcode", "mac") @@ DefaultProject :
        type \in {"executable", "none"},
        more \in {[sources |-> <<<<"a", "c">>, <<"a", "c">>>>], [mac_bundle |-> TRUE],
                  [actions |-> <<Action("x", <<>>, <<<<"x", "h">>>>, <<>>),
                                 Action("x", <<>>, <<<<"y", "h">>>>, <<>>)>>],
                  [actions |-> <<Action("x", <<>>, <<<<"x", "h">>>>,
                                        [process_outputs_as_mac_bundle_resources |-> TRUE])>>]}}

Everywhere == {On("ninja", "linux"), On("ninja", "win"), On("ninja", "mac"), On("make", "linux"),
               On("make", "mac"), On("cmake", "linux")}
MsvsProjects ==
    UNION {{Basic(on), Rules(on), Tool(on), Windows(on), Shards(on), ExternalRules(on), Cross(on)} :
             on \in {[msvs_version |-> v] @@ On("msvs", "win") : v \in {"2008", "2010"}}}
    \cup {Basic(On("msvs-ninja", "win")), Tool(On("msvs-ninja", "win")), Shards(On("msvs-ninja", "win"))}
XcodeProjects ==
    UNION {{Basic(on), Rules(on), Tool(on), Mac(on), Tests(on), Cross(on)} : on \in {On("xcode", "mac")}}
    \cup UNION {{Basic(on), Tool(on), Mac(on), Cross(on)} : on \in {On("xcode-ninja", "mac")}}
    \cup RefusedByXcode
BuildProjects ==
    UNION {{Basic(on), Rules(on), Tool(on)} : on \in Everywhere}
    \cup {Basic(On("android", "linux")), Rules(On("android", "linux"))}
    \cup {Cross(on) : on \in {On("ninja", "linux"), On("make", "linux"), On("cmake", "linux"),
                              On("android", "linux")}}
    \cup {Windows(On("ninja", "win")), Shards(On("ninja", "win"))}
    \cup {Mac(on) : on \in {On("ninja", "mac"), On("make", "mac")}}
    \cup {Archs(On("ninja", "mac")), Tests(On("ninja", "mac"))}
    \cup MsvsProjects \cup XcodeProjects

-----------------------------------------------------------------------------
\* Projects that are only loaded: the other ways to write dependencies, and what is
\* refused.
Gyp(files, more) == [files |-> files] @@ more @@ DefaultProject
Plain(n) == Target(n, "none", <<>>, <<>>)
Needs(name, deps, more) == Target(name, "none", <<>>, [dependencies |-> deps] @@ more)

LoadProjects ==
    {Gyp("p" :> <<Needs("w", <<From("q", "*")>>, <<>>)>>
           @@ "q" :> <<Plain("x"), Target("y", "none", <<>>, [suppress_wildcard |-> TRUE]), Plain("z")>>, o) :
       o \in {[circular_check |-> c] : c \in BOOLEAN}}
    \cup
    {Gyp("p" :> <<Needs("a", <<From("q", "b"), From("r", "c")>>, <<>>), Plain("d")>>
           @@ "q" :> <<Plain("b"), Needs("e", <<From("p", "d")>>, <<>>)>> @@ "r" :> <<Plain("c")>>,
           [circular_check |-> c]) : c \in BOOLEAN}
    \cup
    {Gyp("p" :> <<Target("a", "static_library", <<>>, [link_dependency |-> TRUE]),
                    Needs("b", <<Dep("b"), Dep("a"), Dep("c")>>, [prune_self_dependency |-> TRUE]),
                    Plain("c"),
                    Needs("d", <<Dep("c"), Dep("b"), Dep("c")>>, [excluded |-> <<Dep("c")>>])>>,
           [root_targets |-> names]) : names \in {{}, {"c"}, {"d"}, {"z"}}}
    \cup
    {Gyp("p" :> <<Needs("a", <<dep>>, <<>>), Target("e", "executable", <<>>, more)>>, <<>>) :
       dep \in {Dep("a"), Dep("z"), From("p", "*"), From("q", "*"), Dep("e")},
       more \in {<<>>, [dependencies |-> <<Dep("z")>>], [exports |-> <<Dep("a")>>],
                 [name |-> "a", toolsets |-> <<>>], [name |-> "a"], [type |-> "bundle"],
                 [type |-> "shared_library", sources |-> <<<<"a", "cc">>, <<"a", "c">>>>],
                 [standalone_static_library |-> TRUE], [actions |-> <<Action("", <<>>, <<>>, <<>>)>>],
                 [rules |-> <<Rule("r", "x", <<>>, <<>>, <<>>), Rule("s", "x", <<>>, <<>>, <<>>)>>]}}
    \cup
    {Gyp("p" :> <<Plain("a")>> @@ f :> <<Plain("a")>>, <<>>) : f \in {"q", "p2"}}
    \cup
    \* An export that is excluded again, and patterns.
    {Gyp("p" :> <<Target("a", "static_library", <<"c">>,
                      [exports |-> <<Dep("c")>>, exports_excluded |-> <<Dep(n)>>, patterns |-> re]),
                    Target("b", "static_library", <<"a">>, <<>>),
                    Target("c", "static_library", <<>>,
                      [hard_dependency |-> TRUE, settings |-> Settings("c")])>>, <<>>) :
       n \in {"c", "z"}, re \in BOOLEAN}
    \cup
    \* What is exported is no dependency any more, or is no target at all.
    {Gyp("p" :> <<Target("a", "static_library", <<n>>,
                      [exports |-> <<Dep(n)>>, excluded |-> <<Dep(n)>>]),
                    Target("b", "static_library", <<"a">>, <<>>),
                    Target("c", "static_library", <<"b">>, [hard_dependency |-> TRUE])>>, <<>>) :
       n \in {"c", "z"}}

\* Files that have changed, for the analyzer: a program and its test in one build
\* file, a library and what generates its header in another one, which is not
\* always given to gyp, and a program at the top of the tree.
Analyzed(built, more) ==
    [files |->
        "p" :> <<Target("e", "executable", <<"n">>,
                   [sources |-> <<<<"e", "cc">>, <<"..", "q", "a", "h">>>>]),
                 Target("n", "none", <<>>,
                   [dependencies |-> <<From("q", "a"), From("q", "g")>>, sources |-> <<<<"n", "txt">>>>]),
                 Target("t", "executable", <<"e">>,
                   [dependencies |-> <<Dep("e"), From("q", "a")>>, sources |-> <<<<"t", "cc">>>>])>>
        @@ "q" :> <<Target("a", "static_library", <<"g">>,
                      [sources |-> <<<<"a", "cc">>, <<"$", "gen", "cc">>>>]),
                    Target("g", "none", <<>>,
                      [actions |-> <<Action("make_gen", <<<<"g", "in">>, <<"..", "..", "usr", "h">>>>,
                                            <<GenH>>, <<>>)>>]),
                    Target("b", "shared_library", <<"a">>,
                      [sources |-> <<<<"x", "in">>>>,
                       rules |-> <<Rule("r", "in", <<<<"r", "py">>>>, <<"cc">>, <<>>)>>])>>
        @@ "top" :> <<Target("e", "executable", <<>>,
                        [dependencies |-> <<From("q", "b")>>, sources |-> <<<<"e", "cc">>>>])>>,
     included_files |-> "p" :> {} @@ "q" :> {<<"q", "gypi">>} @@ "top" :> {},
     options_includes |-> {<<"common", "gypi">>},
     format |-> "analyzer", adjust_static_libraries |-> FALSE, build_files |-> built]
    @@ more @@ DefaultProject
ChangedFiles == {{}, {<<"p", "e", "cc">>}, {<<"p", "n", "txt">>}, {<<"q", "a", "h">>}, {<<"q", "a", "cc">>},
                 {<<"q", "g", "in">>}, {<<"q", "r", "py">>}, {<<"q", "x", "in">>}, {<<"q", "q", "gypi">>},
                 {<<"q", "q", "gyp">>}, {<<"e", "cc">>}, {<<"common", "gypi">>}, {<<"other", "txt">>},
                 {<<"p", "n", "txt">>, <<"q", "g", "in">>, <<"p", "t", "cc">>}}
AnalyzerProjects ==
    {Analyzed(built, [config |-> [files |-> changed_files, targets |-> {"e", "n", "b", "z"}]]) :
       built \in {{"p"}, {"top"}, {"p", "q", "top"}}, changed_files \in ChangedFiles}

AllProjects == GraphProjects \cup LoadProjects \cup BuildProjects \cup AnalyzerProjects
Directories == [f \in {"p", "q", "r"} |-> f] @@ "p2" :> "p" @@ "top" :> ""
=============================================================================
