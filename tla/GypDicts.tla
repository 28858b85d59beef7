------------------------------ MODULE GypDicts ------------------------------
(***************************************************************************)
(* Dictionaries of gyp build files, as trees.  A tree is a function from   *)
(* paths (sequences of keys) to the plain contents of the dictionary at    *)
(* that path: its strings, its lists and its conditions.  Because lists    *)
(* are named by their place, two references to a list are references to    *)
(* the same Python object, and a change through one is seen through the    *)
(* other.  Strings are sequences of parts: text, or a reference that       *)
(* ExpandVariables replaces in one of the three phases.                    *)
(***************************************************************************)
EXTENDS GypLists, FiniteSets, TLC

CONSTANTS KeyOp,        \* KeyOp[k]: the suffix of key k, "" without one
          KeyBase,      \* KeyBase[k]: k without that suffix
          FlagTexts,    \* texts that begin with "-"
          SortedNames,  \* the names of configurations in alphabetical order
          NonConfigurationKeys,
          InvalidConfigurationKeys

Text(v) == [k |-> "text", v |-> v, ph |-> 0, at |-> FALSE]
Ref(ph, name) == [k |-> "ref", v |-> name, ph |-> ph, at |-> FALSE]
ListRef(ph, name) == [k |-> "ref", v |-> name, ph |-> ph, at |-> TRUE]
Command(ph, cmd) == [k |-> "cmd", v |-> cmd, ph |-> ph, at |-> FALSE]
ListCommand(ph, cmd) == [k |-> "cmd", v |-> cmd, ph |-> ph, at |-> TRUE]

NoFun == [x \in {} |-> <<>>]
EmptyDict == [strs |-> NoFun, lists |-> NoFun, conds |-> <<>>]

\* The dictionaries at and below path p, as suffixes of p.
Below(tree, p) ==
    {SubSeq(q, Len(p) + 1, Len(q)) : q \in {x \in DOMAIN tree : IsPrefix(p, x)}}

\* The keys of the dictionaries directly in the one at p.
Children(tree, p) ==
    {q[Len(p) + 1] : q \in {x \in DOMAIN tree : IsPrefix(p, x) /\ x # p}}

Content(tree, p) == IF p \in DOMAIN tree THEN tree[p] ELSE EmptyDict

-----------------------------------------------------------------------------
\* Any string that is not a flag may occur in a list only once.
Singleton(s) ==
    s = <<>> \/ (s[1].k # "re" /\ ~(s[1].k = "text" /\ s[1].v \in FlagTexts))

\* The keys of the dictionary at p, whatever they stand for.
Keys(tree, p) ==
    DOMAIN Content(tree, p).strs \cup DOMAIN Content(tree, p).lists \cup Children(tree, p)
\* The keys that do not stand for a list.
NoLists(tree, p) == DOMAIN Content(tree, p).strs \cup Children(tree, p)

\* The policies that must not stand beside one of a list of the same base:
\* append and prepend are the only ones that can coexist.
IncompatiblePolicies(op) ==
    CASE op = "=" -> {"", "?"} [] op = "+" -> {"=", "?"}
      [] op = "?" -> {"", "=", "+"} [] op = "" -> {"=", "?"} [] OTHER -> {}

Incompatible(tree, fro) ==
    \E k \in DOMAIN tree[fro].lists : \E other \in Keys(tree, fro) :
        KeyBase[other] = KeyBase[k] /\ KeyOp[other] \in IncompatiblePolicies(KeyOp[k])

KeysWith(d, op) == {k \in DOMAIN d.lists : KeyOp[k] = op}
\* The bases of the lists that fro replaces.
Replaced(d) == {KeyBase[k] : k \in KeysWith(d, "=")}

\* A string goes over a string only, a list over a list, a dictionary over a
\* dictionary; only "=" puts a list in the place of anything.  A prepended list
\* beside a key of fro that is no list fails whichever comes first.
BadMerge(tree, to, fro) ==
    LET d == tree[fro]
        old == Content(tree, to)
        prepended == {KeyBase[k] : k \in KeysWith(d, "+")}
    IN  \/ DOMAIN d.strs \cap (DOMAIN old.lists \cup Children(tree, to)) # {}
        \/ Children(tree, fro) \cap (DOMAIN old.strs \cup DOMAIN old.lists) # {}
        \/ DOMAIN d.lists \cap NoLists(tree, to) # {}
        \/ prepended \cap (NoLists(tree, to) \cup NoLists(tree, fro)) # {}

\* The list of base b with suffix op, empty when there is none.
ListWith(d, b, op) ==
    LET ks == {k \in KeysWith(d, op) : KeyBase[k] = b}
    IN  IF ks = {} THEN <<>> ELSE d.lists[CHOOSE k \in ks : TRUE]

\* The list that a list of fro goes to; exclusions, filters and defaults are
\* lists of their own.
ListBase(k) == IF KeyOp[k] \in {"=", "+", "?"} THEN KeyBase[k] ELSE k

\* The items of the lists of a dictionary that may occur only once.
Singletons(fro) == {s \in UNION {ToSet(fro.lists[k]) : k \in DOMAIN fro.lists} : Singleton(s)}

\* One dictionary merged into another whose keys are present: replace, prepend
\* and append, and set if absent.
MergeContent(to, fro, present) ==
    LET taken == {k \in DOMAIN fro.lists : KeyOp[k] = "?" => KeyBase[k] \notin present}
        old(b) == IF b \in DOMAIN to.lists \ Replaced(fro) THEN to.lists[b] ELSE <<>>
        appended(b) == LET ks == {k \in taken : ListBase(k) = b /\ KeyOp[k] # "+"}
                       IN  IF ks = {} THEN <<>> ELSE fro.lists[CHOOSE k \in ks : TRUE]
        merged(b) == MergeListsAppend(
                         MergeListsPrepend(old(b), ListWith(fro, b, "+"), Singletons(fro)),
                         appended(b), Singletons(fro))
    IN  [strs |-> fro.strs @@ [k \in DOMAIN to.strs \ Replaced(fro) |-> to.strs[k]],
         lists |-> [b \in {ListBase(k) : k \in taken} |-> merged(b)] @@ to.lists,
         conds |-> to.conds \o fro.conds]

\* MergeDicts: the dictionary at fro and those in it are merged into the one at
\* to; what is not there yet is copied, and a list that replaces a dictionary
\* ends it.
MergeDicts(tree, to, fro) ==
    LET ended == UNION {{(to \o s) \o <<b>> : b \in Replaced(tree[fro \o s])} :
                           s \in Below(tree, fro)}
        left == {q \in DOMAIN tree : \A e \in ended : ~IsPrefix(e, q)}
    IN  [q \in {to \o s : s \in Below(tree, fro)} |->
            MergeContent(Content(tree, q), tree[fro \o SubSeq(q, Len(to) + 1, Len(q))],
                         Keys(tree, q))]
        @@ [q \in left |-> tree[q]]

MergeFails(tree, to, fro) ==
    \E s \in Below(tree, fro) :
        Incompatible(tree, fro \o s) \/ BadMerge(tree, to \o s, fro \o s)

\* The tree without the dictionary at p.
Without(tree, p) == [q \in {x \in DOMAIN tree : ~IsPrefix(p, x)} |-> tree[q]]

-----------------------------------------------------------------------------
(***************************************************************************)
(* Configurations.                                                         *)
(***************************************************************************)
ConfigPath(c) == <<"configurations", c>>

\* A list names its items by one text each (inherit_from).
Names(tree, p, key) ==
    IF key \in DOMAIN Content(tree, p).lists
    THEN [i \in DOMAIN tree[p].lists[key] |-> tree[p].lists[key][i][1].v] ELSE <<>>

\* A configuration with a value of "abstract" that is neither empty nor 0.
Abstract(tree, c) ==
    LET strs == tree[ConfigPath(c)].strs
    IN  "abstract" \in DOMAIN strs /\ strs["abstract"] \notin {<<>>, <<Text("0")>>}

\* The configurations merged for c, parents first; one on the way is skipped.
\* A parent that does not exist is named too.
RECURSIVE InheritanceOrder(_, _, _)
InheritanceOrder(tree, c, visited) ==
    IF c \in visited THEN <<>>
    ELSE LET parents == Names(tree, ConfigPath(c), "inherit_from")
             order[i \in 0..Len(parents)] ==
                 IF i = 0 THEN <<>>
                 ELSE order[i - 1] \o
                      InheritanceOrder(tree, parents[i], visited \cup {c})
         IN  Append(order[Len(parents)], c)

MovesIntoConfiguration(k) == KeyBase[k] \notin NonConfigurationKeys

\* Mutation: a configuration does not get what the target has.
InheritedNothing(tree) == <<>> :> EmptyDict

\* What configurations inherit from the scope of the target.
InheritedPart(tree) ==
    [q \in {<<>>} \cup {x \in DOMAIN tree : x # <<>> /\ MovesIntoConfiguration(x[1])} |->
        IF q # <<>> THEN tree[q]
        ELSE [strs |-> [k \in {x \in DOMAIN tree[q].strs : MovesIntoConfiguration(x)} |-> tree[q].strs[k]],
              lists |-> [k \in {x \in DOMAIN tree[q].lists : MovesIntoConfiguration(x)} |-> tree[q].lists[k]],
              conds |-> <<>>]]

\* MergeConfigWithInheritance into a copy of what is inherited, which is built
\* at the path "new", and without "abstract".  It fails at a parent that does not
\* exist and at a merge that fails.
WithConfiguration(m, c) ==
    IF \/ m.failed \/ ConfigPath(c) \notin DOMAIN m.tree
       \/ MergeFails(m.tree, <<"new">>, ConfigPath(c))
    THEN [m EXCEPT !.failed = TRUE]
    ELSE [m EXCEPT !.tree =
             [MergeDicts(@, <<"new">>, ConfigPath(c)) EXCEPT ![<<"new">>].strs =
                 [k \in DOMAIN @ \ {"abstract"} |-> @[k]]]]

MergedConfiguration(tree, c) ==
    LET start == [q \in {<<"new">> \o x : x \in DOMAIN InheritedPart(tree)} |->
                     InheritedPart(tree)[Tail(q)]] @@ tree
        merged == FoldLeft(WithConfiguration, [tree |-> start, failed |-> FALSE],
                           InheritanceOrder(tree, c, {}))
    IN  [dict |-> [q \in Below(merged.tree, <<"new">>) |-> merged.tree[<<"new">> \o q]],
         failed |-> merged.failed]

\* A target without configurations gets one.
WithDefaultConfiguration(tree) ==
    IF "configurations" \in Children(tree, <<>>) THEN tree
    ELSE (<<"configurations">> :> EmptyDict) @@ (ConfigPath("Default") :> EmptyDict) @@ tree

Concrete(tree) == {c \in Children(tree, <<"configurations">>) : ~Abstract(tree, c)}

\* sorted(concrete)[0]
FirstOf(concrete) == SortedNames[Min({i \in DOMAIN SortedNames : SortedNames[i] \in concrete})]

\* SetUpConfigurations: the default configuration is named; the concrete ones are
\* merged, the abstract ones and what moved into them are dropped.
SetUpConfigurations(tree0) ==
    LET tree == WithDefaultConfiguration(tree0)
        unnamed == "default_configuration" \notin Keys(tree, <<>>)
        concrete == Concrete(tree)
        built == [c \in concrete |-> MergedConfiguration(tree, c)]
        staying == {k \in Keys(tree, <<>>) : ~MovesIntoConfiguration(k)}
        default == IF unnamed /\ concrete # {}
                   THEN "default_configuration" :> <<Text(FirstOf(concrete))>> ELSE NoFun
        top == tree[<<>>]
        target == [q \in {<<>>} \cup {<<"configurations">>} \cup
                         {x \in DOMAIN tree : x # <<>> /\ x[1] \in staying \ {"configurations"}} |->
                      IF q # <<>> THEN tree[q]
                      ELSE [strs |-> default @@ [k \in DOMAIN top.strs \cap staying |-> top.strs[k]],
                            lists |-> [k \in DOMAIN top.lists \cap staying |-> top.lists[k]],
                            conds |-> <<>>]]
    IN  [tree |-> [q \in UNION {{ConfigPath(c) \o s : s \in DOMAIN built[c].dict} : c \in concrete} |->
                      built[q[2]].dict[SubSeq(q, 3, Len(q))]] @@ target,
         failed |-> (unnamed /\ concrete = {}) \/ \E c \in concrete : built[c].failed]

InvalidConfiguration(tree) ==
    \E p \in DOMAIN tree :
        /\ Len(p) = 2 /\ p[1] = "configurations"
        /\ (DOMAIN tree[p].strs \cup DOMAIN tree[p].lists \cup Children(tree, p))
               \cap InvalidConfigurationKeys # {}

-----------------------------------------------------------------------------
(***************************************************************************)
(* List filters.                                                           *)
(***************************************************************************)
\* A filter is a one-part string with the texts its pattern matches; its action
\* is 0 (exclude), 1 (include) or something gyp does not know.
Regex(action, texts) ==
    <<[k |-> "re", v |-> texts, ph |-> 0, at |-> FALSE, action |-> action]>>
AsRegex(s) == [matches |-> {<<Text(t)>> : t \in s[1].v}, action |-> s[1].action]

IsFilter(k) == KeyOp[k] \in {"!", "/"}

\* ProcessListFiltersInDict raises an exception for a filter that is no list, or
\* whose list is none, for an action that makes no sense, and when the list of
\* what is excluded exists before.
FilterFails(tree, p) ==
    LET d == tree[p]
        filters == {k \in DOMAIN d.lists : IsFilter(k)}
        bases == {KeyBase[k] : k \in filters} \cap DOMAIN d.lists
    IN  \/ \E k \in NoLists(tree, p) : IsFilter(k)
        \/ {KeyBase[k] : k \in filters} \cap NoLists(tree, p) # {}
        \/ \E b \in bases :
              \/ \E r \in ToSet(ListWith(d, b, "/")) : AsRegex(r).action \notin {0, 1}
              \/ b \o "_excluded" \in Keys(tree, p)

\* ProcessListFiltersInDict for one dictionary; the recursion reaches them all.
FilterContent(d) ==
    LET filters == {k \in DOMAIN d.lists : IsFilter(k)}
        bases == {KeyBase[k] : k \in filters} \cap DOMAIN d.lists
        excludes(b) == ListWith(d, b, "!")
        regexes(b) == [i \in DOMAIN ListWith(d, b, "/") |-> AsRegex(ListWith(d, b, "/")[i])]
        out == {b \in bases : Excluded(d.lists[b], excludes(b), regexes(b)) # <<>>}
    IN  [d EXCEPT !.lists =
            [b \in bases |-> Kept(@[b], excludes(b), regexes(b))]
            @@ [x \in {b \o "_excluded" : b \in out} |->
                  LET b == CHOOSE y \in out : x = y \o "_excluded"
                  IN  Excluded(@[b], excludes(b), regexes(b))]
            @@ [k \in DOMAIN @ \ filters |-> @[k]]]

ProcessListFilters(tree) == [p \in DOMAIN tree |-> FilterContent(tree[p])]
FiltersFail(tree) == \E p \in DOMAIN tree : FilterFails(tree, p)
=============================================================================
