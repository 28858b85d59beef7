---------------------------- MODULE GypVariables ----------------------------
(***************************************************************************)
(* How gyp evaluates the dictionary of a target (input.py): early          *)
(* variables and conditions, late variables and target conditions, the     *)
(* configurations, the list filters, and the last variables.  The work on  *)
(* a dictionary is a stack of calls of ProcessVariablesAndConditionsInDict;*)
(* its loops over dictionaries visit the keys in any order.                *)
(***************************************************************************)
EXTENDS GypDicts

CONSTANTS Inputs,       \* the target dictionaries considered
          FailingCommands, \* commands that fail, or that gyp does not know
          GlobalVars,   \* variables from the command line: name to string
          MaxExpansion  \* the depth at which Python gives up a recursion

VARIABLES tree,         \* the dictionary of the target
          calls,        \* the calls under way, the innermost last
          stage,        \* what Load does with the target
          failed,       \* an exception ends gyp
          cache,        \* cached_command_results: command to output
          runs          \* how often a command was run

vars == <<tree, calls, stage, failed, cache, runs>>

Phase == CASE stage = "early" -> 0 [] stage = "late" -> 1 [] OTHER -> 2

-----------------------------------------------------------------------------
(***************************************************************************)
(* Expansion of a string in an environment env.  A variable's value is a   *)
(* string, or the place of a list: the Python list itself is shared.       *)
(* Expansion may run commands and rewrites the lists it passes, so it      *)
(* takes and returns the state st = [tree, cache, runs, failed].           *)
(***************************************************************************)
StrValue(s) == [t |-> "str", s |-> s, p |-> <<>>, key |-> ""]
ListAt(p, key) == [t |-> "list", s |-> <<>>, p |-> p, key |-> key]

Fails(st) == [st EXCEPT !.failed = TRUE]

Space == Text(" ")
Quote == Text("\"")
\* EncodePOSIXShellArgument: an item that is empty or has a character special to
\* a shell, as those of a reference are, is quoted.
Encoded(item) ==
    IF item = <<>> \/ \E i \in DOMAIN item : item[i] = Space \/ item[i].k # "text"
    THEN <<Quote>> \o item \o <<Quote>> ELSE item
\* EncodePOSIXShellList: the items as the words of one string.
Words(l) ==
    LET joined[i \in 0..Len(l)] ==
            IF i = 0 THEN <<>>
            ELSE joined[i - 1] \o (IF i = 1 THEN <<>> ELSE <<Space>>) \o Encoded(l[i])
    IN  joined[Len(l)]

\* shlex.split: the words between the spaces that are not quoted, without quotes.
ShellSplit(s) ==
    LET quotes(i) == {j \in 1..i : s[j] = Quote}
        breaks == {i \in DOMAIN s : s[i] = Space /\ Cardinality(quotes(i)) % 2 = 0}
        starts == {i \in DOMAIN s \ breaks : i = 1 \/ i - 1 \in breaks}
        end(i) == Max({j \in i..Len(s) : (i..j) \cap breaks = {}})
        word(i) == SelectSeq(SubSeq(s, i, end(i)), LAMBDA c : c # Quote)
        order == SetToSortSeq(starts, <)
    IN  [n \in DOMAIN order |-> word(order[n])]

\* A command runs the first time its cache key is met; a failure is an error, and
\* nothing is cached.
RunCommand(part, st) ==
    IF part.v \in DOMAIN st.cache
    THEN [t |-> "str", v |-> st.cache[part.v], st |-> st]
    ELSE IF part.v \in FailingCommands THEN [t |-> "str", v |-> <<>>, st |-> Fails(st)]
    ELSE LET n == st.runs + 1
             out == <<Text(part.v), Space, Text(ToString(n))>>
         IN  [t |-> "str", v |-> out,
              st |-> [st EXCEPT !.cache = @ @@ (part.v :> out), !.runs = n]]

RECURSIVE ExpandVariables(_, _, _, _, _)
RECURSIVE ReplaceMatches(_, _, _, _, _, _)
RECURSIVE ReplacedMatch(_, _, _, _, _, _)
RECURSIVE ExpandedAgain(_, _, _, _, _)
RECURSIVE ProcessVariablesAndConditionsInList(_, _, _, _, _, _, _)
RECURSIVE ExpandedItem(_, _, _, _, _, _, _)

TakenList(value, st) ==
    [t |-> "list", v |-> st.tree[value.p].lists[value.key], st |-> st]

\* What a match is replaced by: a variable that is a list is expanded where it
\* is, then taken.
Replacement(part, ph, env, st, fuel) ==
    IF part.k = "cmd" THEN RunCommand(part, st)
    ELSE IF part.v \notin DOMAIN env
    THEN IF part.v \in DOMAIN KeyOp /\ KeyOp[part.v] \in {"!", "/"}
         THEN [t |-> "list", v |-> <<>>, st |-> st]
         ELSE [t |-> "str", v |-> <<>>, st |-> Fails(st)]
    ELSE IF env[part.v].t = "str" THEN [t |-> "str", v |-> env[part.v].s, st |-> st]
    ELSE TakenList(env[part.v], ProcessVariablesAndConditionsInList(
                       env[part.v].p, env[part.v].key, 1, ph, env, st, fuel))

Matches(part, ph) == part.k \in {"ref", "cmd"} /\ part.ph = ph

\* The loop over the matches, from right to left.
ReplaceMatches(s, i, ph, env, st, fuel) ==
    IF i = 0 \/ st.failed THEN [t |-> "str", v |-> s, st |-> st]
    ELSE IF ~Matches(s[i], ph) THEN ReplaceMatches(s, i - 1, ph, env, st, fuel)
    ELSE ReplacedMatch(s, i, Replacement(s[i], ph, env, st, fuel), ph, env, fuel)

AsText(r) == IF r.t = "list" THEN Words(r.v) ELSE r.v
AsList(r) == IF r.t = "list" THEN r.v ELSE ShellSplit(r.v)

\* A "@" match that is the whole string makes it a list.
ReplacedMatch(s, i, r, ph, env, fuel) ==
    IF s[i].at /\ Len(s) = 1
    THEN [t |-> "list", v |-> AsList(r), st |-> r.st]
    ELSE ReplaceMatches(SubSeq(s, 1, i - 1) \o AsText(r) \o SubSeq(s, i + 1, Len(s)),
                        i - 1, ph, env, r.st, fuel)

\* ExpandVariables: replace, and look again until nothing changes.
ExpandVariables(s, ph, env, st, fuel) ==
    IF st.failed \/ \A i \in DOMAIN s : ~Matches(s[i], ph)
    THEN [t |-> "str", v |-> s, st |-> st]
    ELSE IF fuel = 0 THEN [t |-> "str", v |-> s, st |-> Fails(st)]
    ELSE ExpandedAgain(s, ReplaceMatches(s, Len(s), ph, env, st, fuel - 1), ph, env, fuel - 1)

WithItem(done, e) == [t |-> "list", v |-> Append(done.v, e.v), st |-> e.st]

\* A string that changed is looked at again, of a list every item is.
ExpandedAgain(s, r, ph, env, fuel) ==
    IF r.t = "str"
    THEN IF r.v = s THEN r ELSE ExpandVariables(r.v, ph, env, r.st, fuel)
    ELSE LET items[i \in 0..Len(r.v)] ==
                 IF i = 0 THEN [r EXCEPT !.v = <<>>]
                 ELSE WithItem(items[i - 1],
                               ExpandVariables(r.v[i], ph, env, items[i - 1].st, fuel))
         IN  items[Len(r.v)]

\* The list at p is expanded in place from index i on; a list takes the place of
\* the item that expanded to it and is not looked at again.
ProcessVariablesAndConditionsInList(p, key, i, ph, env, st, fuel) ==
    IF st.failed \/ i > Len(st.tree[p].lists[key]) THEN st
    ELSE ExpandedItem(p, key, i, ph, env, fuel,
                      ExpandVariables(st.tree[p].lists[key][i], ph, env, st, fuel))

Items(e) == IF e.t = "list" THEN e.v ELSE <<e.v>>
ExpandedItem(p, key, i, ph, env, fuel, e) ==
    ProcessVariablesAndConditionsInList(p, key, i + Len(Items(e)), ph, env,
        [e.st EXCEPT !.tree[p].lists[key] =
            SubSeq(@, 1, i - 1) \o Items(e) \o SubSeq(@, i + 1, Len(@))], fuel)

-----------------------------------------------------------------------------
(***************************************************************************)
(* The environment of a dictionary.                                        *)
(***************************************************************************)
\* The entries of the dictionary at p as values.
Entries(t, p) ==
    [k \in DOMAIN Content(t, p).strs |-> StrValue(t[p].strs[k])]
    @@ [k \in DOMAIN Content(t, p).lists |-> ListAt(p, k)]

\* Strings and lists of the dictionary become variables with a "_" in front.
LoadAutomaticVariablesFromDict(env, t, p) ==
    LET entries == Entries(t, p)
    IN  [x \in {"_" \o k : k \in DOMAIN entries} |->
            entries[CHOOSE k \in DOMAIN entries : x = "_" \o k]] @@ env

VariablesOf(p) == Append(p, "variables")
IsVariablesDict(p) == p # <<>> /\ Last(p) = "variables"

\* The entries of its "variables" dictionary; one with a "%" is only a default.
LoadVariablesFromVariablesDict(env, t, p) ==
    LET entries == Entries(t, VariablesOf(p))
        own == {k \in DOMAIN entries : KeyOp[k] # "%"}
        defaults == {KeyBase[k] : k \in {x \in DOMAIN entries :
                        KeyOp[x] = "%" /\ KeyBase[x] \notin DOMAIN env \cup own}}
        default(n) == IF IsVariablesDict(p) /\ n \in DOMAIN Entries(t, p)
                      THEN Entries(t, p)[n] ELSE entries[n \o "%"]
    IN  [k \in own |-> entries[k]] @@ [n \in defaults |-> default(n)] @@ env

\* variables_in.copy() with both loaded.
Scope(env, t, p) ==
    LoadVariablesFromVariablesDict(LoadAutomaticVariablesFromDict(env, t, p), t, p)

-----------------------------------------------------------------------------
(***************************************************************************)
(* ProcessVariablesAndConditionsInDict.                                    *)
(***************************************************************************)
Call(p, env) ==
    [path |-> p, varsIn |-> env, env |-> env, step |-> "enter", todo |-> {}, cond |-> 1]

Top == Last(calls)
Here == Top.path
SetTop(c) == [calls EXCEPT ![Len(calls)] = c]
State == [tree |-> tree, cache |-> cache, runs |-> runs, failed |-> failed]
Apply(st) ==
    /\ tree' = st.tree /\ cache' = st.cache /\ runs' = st.runs
    /\ failed' = st.failed

Running == calls # <<>> /\ ~failed

\* Automatic variables, and the variables dictionary with all its entries known.
Enter ==
    /\ Running /\ Top.step = "enter"
    /\ LET auto == LoadAutomaticVariablesFromDict(Top.varsIn, tree, Here)
           raw == Entries(tree, VariablesOf(Here)) @@ auto
       IN  IF VariablesOf(Here) \in DOMAIN tree
           THEN calls' = Append(SetTop([Top EXCEPT !.step = "vars", !.env = raw]),
                                Call(VariablesOf(Here), raw))
           ELSE calls' = SetTop([Top EXCEPT !.step = "vars", !.env = auto])
    /\ UNCHANGED <<tree, stage, failed, cache, runs>>

LoadVariables ==
    /\ Running /\ Top.step = "vars"
    /\ calls' = SetTop([Top EXCEPT !.step = "strs", !.todo = DOMAIN tree[Here].strs,
                           !.env = LoadVariablesFromVariablesDict(@, tree, Here)])
    /\ UNCHANGED <<tree, stage, failed, cache, runs>>

\* The loop over the strings; one must not become a list.
ExpandString ==
    /\ Running /\ Top.step = "strs"
    /\ \E k \in Top.todo :
          /\ \E e \in {ExpandVariables(tree[Here].strs[k], Phase, Top.env, State, MaxExpansion)} :
                Apply(IF e.t = "str" THEN [e.st EXCEPT !.tree[Here].strs[k] = e.v]
                      ELSE Fails(e.st))
          /\ calls' = SetTop([Top EXCEPT !.todo = @ \ {k}])
    /\ UNCHANGED stage

\* The automatics are reloaded before the conditions are looked at.
StartConditions ==
    /\ Running /\ Top.step = "strs" /\ Top.todo = {}
    /\ calls' = SetTop([Top EXCEPT !.step = "conds", !.cond = 1,
                                   !.env = Scope(Top.varsIn, tree, Here)])
    /\ UNCHANGED <<tree, stage, failed, cache, runs>>

\* conditions in the early phase, target_conditions in the late one.
Conditions(t, q) == SelectSeq(t[q].conds, LAMBDA c : c.ph = Phase)

\* A condition compares a variable with a string.  EvalCondition names the
\* dictionary to use, "" for none; an unknown name is an error.
EvalSingleCondition(c, env, e) ==
    IF c.var \notin DOMAIN env \/ e.t # "str" \/ e.st.failed
    THEN [use |-> "", st |-> Fails(e.st)]
    ELSE [use |-> IF env[c.var].t = "str" /\ env[c.var].s = e.v
                  THEN c.then ELSE c.else, st |-> e.st]
EvalCondition(c, env, st) ==
    EvalSingleCondition(c, env, ExpandVariables(c.val, Phase, env, st, MaxExpansion))

\* ProcessConditionsInDict: the dictionary a condition chooses is processed,
\* then merged.
EvaluateCondition ==
    /\ Running /\ Top.step = "conds" /\ Top.cond <= Len(Conditions(tree, Here))
    /\ \E r \in {EvalCondition(Conditions(tree, Here)[Top.cond], Top.env, State)} :
           /\ Apply(r.st)
           /\ calls' = IF r.use = "" THEN SetTop([Top EXCEPT !.cond = @ + 1])
                       ELSE Append(SetTop([Top EXCEPT !.step = "merge", !.todo = {r.use}]),
                                   Call(Append(Here, r.use), Top.env))
    /\ UNCHANGED stage

MergeCondition ==
    /\ Running /\ Top.step = "merge"
    /\ LET used == Append(Here, CHOOSE u \in Top.todo : TRUE)
       IN  IF MergeFails(tree, Here, used)
           THEN failed' = TRUE /\ UNCHANGED tree
           ELSE /\ tree' = Without(MergeDicts(tree, Here, used), used)
                /\ UNCHANGED failed
    /\ calls' = SetTop([Top EXCEPT !.step = "conds", !.cond = @ + 1])
    /\ UNCHANGED <<stage, cache, runs>>

\* Mutation: the conditions section stays.
DropConditionsLater(t, q) ==
    LET gone == UNION {{c.then, c.else} : c \in ToSet(Conditions(t, q))}
    IN  [x \in {y \in DOMAIN t : ~\E g \in gone : IsPrefix(Append(q, g), y)} |-> t[x]]

\* The conditions section and what it did not choose are gone.
DropConditions(t, q) ==
    LET gone == UNION {{c.then, c.else} : c \in ToSet(Conditions(t, q))}
        kept == [x \in {y \in DOMAIN t : ~\E g \in gone : IsPrefix(Append(q, g), y)} |-> t[x]]
    IN  [kept EXCEPT ![q].conds = SelectSeq(@, LAMBDA c : c.ph # Phase)]

\* The conditions that wait for the late phase are a list like any other, of
\* strings and dictionaries.
ConditionsLeft(d) == IF d.conds = <<>> THEN {} ELSE {"target_conditions"}

WithValue(q, i, e) ==
    [e.st EXCEPT !.tree[q].conds[i].val = e.v, !.failed = @ \/ e.t # "str"]
ExpandConditions(q, env, st0) ==
    LET after[i \in 0..Len(st0.tree[q].conds)] ==
            IF i = 0 THEN st0
            ELSE WithValue(q, i, ExpandVariables(after[i - 1].tree[q].conds[i].val, Phase,
                                                 env, after[i - 1], MaxExpansion))
    IN  after[Len(st0.tree[q].conds)]

StartChildren ==
    /\ Running /\ Top.step = "conds" /\ Top.cond > Len(Conditions(tree, Here))
    /\ tree' = DropConditions(tree, Here)
    /\ calls' = SetTop([Top EXCEPT !.step = "children",
                           !.env = Scope(Top.varsIn, tree', Here),
                           !.todo = (Children(tree', Here) \ {"variables"})
                                    \cup DOMAIN tree'[Here].lists
                                    \cup ConditionsLeft(tree'[Here])])
    /\ UNCHANGED <<stage, failed, cache, runs>>

\* The loop over lists and dictionaries.
ProcessChild ==
    /\ Running /\ Top.step = "children"
    /\ \E k \in Top.todo :
          IF k \in DOMAIN tree[Here].lists
          THEN /\ Apply(ProcessVariablesAndConditionsInList(Here, k, 1, Phase, Top.env,
                                                            State, MaxExpansion))
               /\ calls' = SetTop([Top EXCEPT !.todo = @ \ {k}])
          ELSE IF k = "target_conditions"
          THEN /\ Apply(ExpandConditions(Here, Top.env, State))
               /\ calls' = SetTop([Top EXCEPT !.todo = @ \ {k}])
          ELSE /\ calls' = Append(SetTop([Top EXCEPT !.todo = @ \ {k}]),
                                  Call(Append(Here, k), Top.env))
               /\ UNCHANGED <<tree, failed, cache, runs>>
    /\ UNCHANGED stage

Return ==
    /\ Running /\ Top.step = "children" /\ Top.todo = {}
    /\ calls' = Front(calls)
    /\ UNCHANGED <<tree, stage, failed, cache, runs>>

-----------------------------------------------------------------------------
(***************************************************************************)
(* The stages of Load for a target.                                        *)
(***************************************************************************)
Globals == [n \in DOMAIN GlobalVars |-> StrValue(GlobalVars[n])]

Idle == calls = <<>> /\ ~failed

LatePhase ==
    /\ Idle /\ stage = "early"
    /\ stage' = "late" /\ calls' = <<Call(<<>>, Globals)>>
    /\ UNCHANGED <<tree, failed, cache, runs>>

ConfigurationStage ==
    /\ Idle /\ stage = "late"
    /\ stage' = "configurations"
    /\ \E s \in {SetUpConfigurations(tree)} :
          /\ tree' = s.tree
          /\ failed' = (s.failed \/ InvalidConfiguration(s.tree))
    /\ UNCHANGED <<calls, cache, runs>>

FilterStage ==
    /\ Idle /\ stage = "configurations"
    /\ stage' = "filtered"
    /\ tree' = ProcessListFilters(tree)
    /\ failed' = FiltersFail(tree)
    /\ UNCHANGED <<calls, cache, runs>>

LateLatePhase ==
    /\ Idle /\ stage = "filtered"
    /\ stage' = "latelate" /\ calls' = <<Call(<<>>, Globals)>>
    /\ UNCHANGED <<tree, failed, cache, runs>>

Finish ==
    /\ Idle /\ stage = "latelate"
    /\ stage' = "done"
    /\ UNCHANGED <<tree, calls, failed, cache, runs>>

Init ==
    /\ tree \in Inputs
    /\ calls = <<Call(<<>>, Globals)>>
    /\ stage = "early" /\ failed = FALSE
    /\ cache = NoFun /\ runs = 0

Process ==
    Enter \/ LoadVariables \/ ExpandString \/ StartConditions \/ EvaluateCondition
    \/ MergeCondition \/ StartChildren \/ ProcessChild \/ Return

Next ==
    Process \/ LatePhase \/ ConfigurationStage \/ FilterStage \/ LateLatePhase \/ Finish

Spec == Init /\ [][Next]_vars

-----------------------------------------------------------------------------
(***************************************************************************)
(* Properties.                                                             *)
(***************************************************************************)
StringsIn(d) == Range(d.strs) \cup UNION {ToSet(l) : l \in Range(d.lists)}
                \cup {c.val : c \in ToSet(d.conds)}
AllStrings == UNION {StringsIn(tree[q]) : q \in DOMAIN tree}

\* The dictionary stays a tree, and calls are for dictionaries that are in it.
TypeOK ==
    /\ \A q \in DOMAIN tree : q = <<>> \/ Front(q) \in DOMAIN tree
    /\ \A i \in DOMAIN calls : calls[i].path \in DOMAIN tree
    /\ failed \in BOOLEAN
    /\ stage \in {"early", "late", "configurations", "filtered", "latelate", "done"}

\* After a phase nothing of its kind is left: no variable, command or condition
\* of the phase anywhere in the dictionary, whatever was merged into it and in
\* whatever order the dictionaries were visited.
PhaseLeavesNothing ==
    LET over == CASE stage = "early" -> {} [] stage = "late" -> {0}
                  [] stage = "done" -> {0, 1, 2} [] OTHER -> {0, 1}
    IN  TypeOK /\ (~failed =>
        \A ph \in over :
            /\ \A s \in AllStrings : \A i \in DOMAIN s : ~Matches(s[i], ph)
            /\ \A q \in DOMAIN tree : \A c \in ToSet(tree[q].conds) : c.ph # ph)

\* SetUpConfigurations loses nothing: each configuration that is not abstract has
\* its own strings and every string and list of the target, and the strings of a
\* parent unless a configuration it inherits from replaces them by a list; only
\* abstract ones go, and the default is one of those that stay.
ConfigurationsAreComplete ==
    [][stage = "late" /\ stage' = "configurations" /\ ~failed' =>
        LET old == Children(tree, <<"configurations">>)
        IN  /\ \A c \in old : Abstract(tree, c) <=> ConfigPath(c) \notin DOMAIN tree'
            /\ \A c \in {x \in old : ~Abstract(tree, x)} :
                  LET new == tree'[ConfigPath(c)]
                      own == tree[ConfigPath(c)]
                      inherited == {k \in DOMAIN tree[<<>>].strs : MovesIntoConfiguration(k)}
                      replaced == UNION {Replaced(tree[ConfigPath(x)]) :
                                            x \in ToSet(InheritanceOrder(tree, c, {}))}
                  IN  /\ \A k \in DOMAIN own.strs \ {"abstract"} : new.strs[k] = own.strs[k]
                      /\ inherited \subseteq DOMAIN new.strs \cup replaced
                      /\ \A k \in DOMAIN tree[<<>>].lists : MovesIntoConfiguration(k) =>
                            \/ k \in replaced
                            \/ ToSet(tree[<<>>].lists[k]) \subseteq ToSet(new.lists[k])
                      /\ \A parent \in ToSet(Names(tree, ConfigPath(c), "inherit_from")) :
                            DOMAIN tree[ConfigPath(parent)].strs \ {"abstract"}
                                \subseteq DOMAIN new.strs \cup replaced
            /\ \A k \in DOMAIN tree'[<<>>].strs \cup DOMAIN tree'[<<>>].lists :
                  KeyBase[k] \in NonConfigurationKeys
            /\ "default_configuration" \notin DOMAIN tree[<<>>].strs =>
                  \E c \in Concrete(tree') :
                      /\ tree'[<<>>].strs["default_configuration"] = <<Text(c)>>
                      /\ old # {} => c \in Concrete(tree)]_vars

\* An item of a list is kept unless the last of its filters that applies to it
\* excludes it, where the exclusion list comes before the patterns; the order
\* stays, what goes is listed as excluded, and the filters are gone.
FiltersMeanTheLastMatch ==
    [][stage = "configurations" /\ stage' = "filtered" /\ ~failed' =>
        \A q \in DOMAIN tree :
            LET d == tree[q]
                res(b) == ListWith(d, b, "/")
                hits(b, s) == {j \in DOMAIN res(b) : s \in AsRegex(res(b)[j]).matches}
                stays(b, s) == IF hits(b, s) = {} THEN s \notin ToSet(ListWith(d, b, "!"))
                               ELSE AsRegex(res(b)[Max(hits(b, s))]).action = 1
                goes(b, s) == ~stays(b, s)
                left(l) == IF l \in DOMAIN tree'[q].lists THEN tree'[q].lists[l] ELSE <<>>
            IN  /\ \A b \in {k \in DOMAIN d.lists : KeyOp[k] = ""} :
                      /\ left(b) = SelectSeq(d.lists[b], LAMBDA s : stays(b, s))
                      /\ (\E op \in {"!", "/"} : b \o op \in DOMAIN d.lists) =>
                            left(b \o "_excluded") =
                                SelectSeq(d.lists[b], LAMBDA s : goes(b, s))
                /\ \A k \in DOMAIN tree'[q].lists : KeyOp[k] \notin {"!", "/"}]_vars
=============================================================================
