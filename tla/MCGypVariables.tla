--------------------------- MODULE MCGypVariables ---------------------------
(***************************************************************************)
(* A target with two dictionaries in it, one of which has variables of its *)
(* own, variables with defaults, a list variable, a command, conditions in *)
(* both phases, list policies and filters, and three configurations.       *)
(***************************************************************************)
EXTENDS GypVariables

Bases == {"type", "sources", "defines", "flags", "x", "y", "opt", "lst", "abstract",
          "inherit_from", "product_name", "configurations", "s1", "s2", "variables",
          "c1", "c2", "e1", "self", "z", "target_conditions", "sources_excluded",
          "default_configuration", "Base", "Debug", "Default", "Release"}
Ops == {"", "+", "=", "!", "/", "%", "?"}
AllKeys == {b \o o : b \in Bases, o \in Ops}
OpOfKey == [k \in AllKeys |-> LET bo == CHOOSE bo \in Bases \X Ops : k = bo[1] \o bo[2] IN bo[2]]
BaseOfKey == [k \in AllKeys |-> LET bo == CHOOSE bo \in Bases \X Ops : k = bo[1] \o bo[2] IN bo[1]]

T(v) == <<Text(v)>>
Dict(strs, lists, conds) == [strs |-> strs, lists |-> lists, conds |-> conds]
Cond(ph, var, val, then, else) ==
    [ph |-> ph, var |-> var, val |-> val, then |-> then, else |-> else]

Globals1 == "os" :> T("win") @@ "opt" :> T("0")

Tree(libType, condVal, s1Lists, late, inheritance) ==
    <<>> :> Dict("type" :> <<Ref(0, "x")>> @@ "product_name" :> <<Ref(1, "y"), Text("p"), Command(0, "cmd")>>,
                 "sources" :> <<T("a"), T("b"), T("c"), <<Ref(0, "x")>>>>
                 @@ "sources!" :> <<T("b"), T("c")>>
                 @@ "sources/" :> <<Regex(1, {"c", "d"}), Regex(0, {"d"})>>
                 @@ "defines" :> <<T("-f"), <<ListRef(0, "lst")>>>>,
                 <<Cond(0, "os", <<Text(condVal)>>, "c1", "e1")>>
                 \o late)
    @@ <<"variables">> :> Dict("x" :> T(libType) @@ "y%" :> T("y0") @@ "opt%" :> T("1"),
                               "lst" :> <<T("m"), <<Ref(0, "x"), Command(0, "cmd")>>>>, <<>>)
    @@ <<"c1">> :> Dict(NoFun, "sources+" :> <<T("d"), T("a")>> @@ "defines" :> <<T("-f")>>, <<>>)
    @@ <<"c1", "variables">> :> Dict("y" :> T("y1"), NoFun, <<>>)
    @@ <<"e1">> :> Dict("product_name" :> T("q"), "sources=" :> <<T("c")>>, <<>>)
    @@ <<"s1">> :> Dict("flags" :> <<Ref(1, "_type"), Ref(0, "opt")>>, s1Lists, <<>>)
    @@ <<"s1", "variables">> :> Dict("x" :> T("inner"), IF "lst" \in DOMAIN s1Lists /\ s1Lists["lst"] = <<<<Ref(0, "self")>>>> THEN "self" :> <<<<Text("a"), Ref(0, "self")>>>> ELSE NoFun, <<>>)
    @@ <<"configurations">> :> EmptyDict
    @@ <<"configurations", "Base">> :>
          Dict("abstract" :> T("1") @@ "opt" :> T("base"), "defines" :> <<T("bd")>>, <<>>)
    @@ <<"configurations", "Debug">> :>
          Dict("flags" :> <<Ref(2, "_opt"), Command(2, "cmd")>>,
               "inherit_from" :> <<T("Base")>>, <<>>)
    @@ <<"configurations", "Release">> :>
          Dict("opt" :> T("rel"), "inherit_from" :> inheritance @@ "defines=" :> <<T("rd")>>, <<>>)
    @@ (IF late = <<>> THEN NoFun
        ELSE <<"c2">> :> Dict("opt" :> <<Ref(1, "_type")>>, "defines" :> <<<<Ref(1, "_opt")>>>>, <<>>))

NoLate == <<>>
OneLate == <<Cond(1, "_type", <<Ref(0, "x")>>, "c2", "")>>

OwnList == "lst" :> <<T("own"), <<Ref(0, "x")>>>>
OuterList == "lst" :> <<<<ListRef(0, "_sources")>>>>

\* A change of the dictionary at a path of the target.
Plain == Tree("static", "win", NoFun, NoLate, <<T("Base")>>)
AddStrs(p, strs) == [Plain EXCEPT ![p].strs = strs @@ @]
AddLists(p, lists) == [Plain EXCEPT ![p].lists = lists @@ @]
Abstracts == [Plain EXCEPT ![ConfigPath("Debug")].strs = ("abstract" :> T("1")) @@ @,
                           ![ConfigPath("Release")].strs = ("abstract" :> T("1")) @@ @]

\* Inputs that end in an exception, and their neighbours that do not.
EdgeInputs ==
    {\* a parent that does not exist; no concrete configuration, with and without a default
     Tree("static", "win", NoFun, NoLate, <<T("Gone")>>), Abstracts,
     [Abstracts EXCEPT ![<<>>].strs = ("default_configuration" :> T("Debug")) @@ @],
     AddStrs(ConfigPath("Base"), "abstract" :> T("0")),
     \* strings and lists over what they must not replace, and a list that may
     AddStrs(ConfigPath("Debug"), "s1" :> T("v")),
     AddStrs(ConfigPath("Release"), "defines" :> T("v")),
     AddLists(ConfigPath("Debug"), "opt" :> <<T("v")>>),
     AddLists(ConfigPath("Debug"), "opt=" :> <<T("v")>>),
     AddLists(ConfigPath("Debug"), "s1=" :> <<T("v")>>),
     AddLists(ConfigPath("Debug"), "opt+" :> <<T("v")>>),
     AddLists(ConfigPath("Debug"), "opt?" :> <<T("v")>> @@ "lst?" :> <<T("v")>>),
     AddLists(ConfigPath("Release"), "defines+" :> <<T("v")>>),
     \* filters that fail
     AddLists(<<>>, "sources_excluded" :> <<>>),
     AddLists(<<>>, "sources/" :> <<Regex(2, {"a"})>>),
     AddLists(<<>>, "product_name!" :> <<T("a")>>),
     AddLists(<<>>, "x!" :> <<T("a")>>),
     AddStrs(<<"s1">>, "x!" :> T("a")),
     \* a command that fails, and strings that are split into words
     AddLists(<<"s1">>, "lst" :> <<<<Command(0, "bad")>>>>),
     AddLists(<<"s1">>, "lst" :> <<T("a"), <<ListCommand(1, "cmd")>>, <<ListRef(1, "_flags")>>>>),
     AddLists(<<"s1">>, "lst" :> <<T("a"), <<Text("a"), Space, Ref(1, "y")>>, T("b")>>
                        @@ "defines" :> <<<<ListRef(2, "_opt")>>>>)}

SafeInputs ==
    {Tree(lt, cv, sl, late, inh) :
        lt \in {"static"}, cv \in {"win", "mac"}, sl \in {NoFun, OwnList},
        late \in {NoLate, OneLate}, inh \in {<<T("Base")>>, <<T("Debug"), T("Base")>>}}
    \cup \* a variable that is not defined, and one defined by itself
    {Tree("static", "win", "lst" :> <<<<Ref(0, n)>>>>, NoLate, <<>>) : n \in {"z", "self"}}
    \cup EdgeInputs

\* A dictionary whose list takes up a list of the target around it.
SharedListInputs == {Tree("static", "win", OuterList, NoLate, <<>>)}

ConfigKeep == {"type", "sources", "configurations", "variables", "product_name",
               "sources_excluded", "default_configuration"}
NotInConfig == {"type", "configurations", "sources"}
Dashes == {"-f"}
BadCommands == {"bad"}
ConfigurationNames == <<"Base", "Debug", "Default", "Release">>
=============================================================================
