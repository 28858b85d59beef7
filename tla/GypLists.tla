------------------------------ MODULE GypLists ------------------------------
(***************************************************************************)
(* The list operations of gyp's input.py.                                  *)
(***************************************************************************)
EXTENDS Integers, Sequences, SequencesExt, Selection

\* Unify: every element once, where it occurs first.
Unify(l) ==
    LET unified[i \in 0..Len(l)] ==
            IF i = 0 THEN <<>>
            ELSE LET seen == unified[i - 1]
                 IN  IF l[i] \in ToSet(seen) THEN seen ELSE Append(seen, l[i])
    IN  unified[Len(l)]

\* Filter: l without any occurrence of item.
Filter(l, item) == Select(l, ToSet(l) \ {item})

\* MergeLists with append set: an item that may occur only once, which is every
\* string but a flag, is left out when it is there already.
MergeListsAppend(to, fro, singletons) ==
    LET merged[i \in 0..Len(fro)] ==
            IF i = 0 THEN to
            ELSE LET l == merged[i - 1]
                 IN  IF fro[i] \in singletons /\ fro[i] \in ToSet(l) THEN l
                     ELSE Append(l, fro[i])
    IN  merged[Len(fro)]

\* MergeLists with append cleared: the items go to the front in their order, and
\* occurrences of a singleton further back are removed.
MergeListsPrepend(to, fro, singletons) ==
    LET merged[i \in 0..Len(fro)] ==
            IF i = 0 THEN to
            ELSE LET l == IF fro[i] \in singletons THEN Filter(merged[i - 1], fro[i])
                          ELSE merged[i - 1]
                     \* list.insert at an index past the end appends.
                     at == IF i - 1 > Len(l) THEN Len(l) ELSE i - 1
                 IN  SubSeq(l, 1, at) \o <<fro[i]>> \o SubSeq(l, at + 1, Len(l))
    IN  merged[Len(fro)]

\* Mutation: the exclusion list comes after the patterns.
ListActionsExcludesLast(l, excludes, regexes) ==
    LET after[j \in 0..Len(regexes)] ==
            IF j = 0 THEN [i \in DOMAIN l |-> -1]
            ELSE [i \in DOMAIN l |->
                    IF l[i] \in regexes[j].matches THEN regexes[j].action ELSE after[j - 1][i]]
    IN  [i \in DOMAIN l |-> IF l[i] \in ToSet(excludes) THEN 0 ELSE after[Len(regexes)][i]]

\* The loop of ProcessListFiltersInDict over one list: the exclusion list sets
\* the action of the items it names to 0, then every regex item sets the action
\* of the items its pattern matches to 0 (exclude) or 1 (include).
ListActions(l, excludes, regexes) ==
    LET afterExcludes ==
            [i \in DOMAIN l |-> IF l[i] \in ToSet(excludes) THEN 0 ELSE -1]
        after[j \in 0..Len(regexes)] ==
            IF j = 0 THEN afterExcludes
            ELSE LET actions == after[j - 1]
                 IN  [i \in DOMAIN l |->
                        IF l[i] \in regexes[j].matches THEN regexes[j].action
                        ELSE actions[i]]
    IN  after[Len(regexes)]

\* The items at the indices of a set, in order.
ItemsAt(l, indices) ==
    LET picked[i \in 0..Len(l)] ==
            IF i = 0 THEN <<>>
            ELSE IF i \in indices THEN Append(picked[i - 1], l[i]) ELSE picked[i - 1]
    IN  picked[Len(l)]

\* What is left of the list, and what goes to the _excluded list, both in the
\* order of the list.
Kept(l, excludes, regexes) ==
    ItemsAt(l, {i \in DOMAIN l : ListActions(l, excludes, regexes)[i] # 0})
Excluded(l, excludes, regexes) ==
    ItemsAt(l, {i \in DOMAIN l : ListActions(l, excludes, regexes)[i] = 0})
=============================================================================
