------------------------------ MODULE MSVSUtil ------------------------------
(***************************************************************************)
(* gyp's MSVSUtil.py: how the generators for Windows split big libraries   *)
(* and work around the limits of the linker.                               *)
(***************************************************************************)
EXTENDS BuildSteps

\* MSVSUtil.ShardTargets: a target with msvs_shard is split into that many, with
\* every n-th of its sources each, and who depended on it depends on all of them.
ShardName(t, i) == <<t[1], t[2] \o "_" \o ToString(i), t[3]>>
Shards(t) == [i \in 1..targets[t].msvs_shard |-> ShardName(t, i - 1)]
Sharded(l) ==
    Folded(LAMBDA out, t : out \o (IF targets[t].msvs_shard > 0 THEN Shards(t) ELSE <<t>>), <<>>, l)
SourcesOfShard(t, i) ==
    ItemsAt(targets[t].sources,
            {p \in DOMAIN targets[t].sources : (p - 1) % targets[t].msvs_shard = i})
ShardTargets ==
    LET dictOf(n) ==
            LET t == CHOOSE x \in ToSet(flat_list) : n \in ToSet(Sharded(<<x>>))
            IN  IF n = t THEN targets[t]
                ELSE [targets[t] EXCEPT !.sources =
                        SourcesOfShard(t, CHOOSE i \in 0..(targets[t].msvs_shard - 1) :
                                              n = ShardName(t, i))]
    IN  [list |-> Sharded(flat_list),
         dicts |-> [n \in ToSet(Sharded(flat_list)) |->
                      [dictOf(n) EXCEPT !.dependencies = Sharded(@),
                                        !.dependencies_original = Sharded(@)]]]

\* MSVSUtil.InsertLargePdbShims: two more targets, one that copies a source and one
\* that compiles it, go to the front of the list, the second before the first.
SuffixName(t, suffix) == <<t[1], t[2] \o suffix, t[3]>>
ShimSource == <<"large-pdb-shim", "cc">>
InsertLargePdbShims(all) ==
    LET shimmed == {t \in DOMAIN all.dicts : all.dicts[t].msvs_large_pdb}
        copyOf(t) == SuffixName(t, "_large_pdb_copy")
        shimOf(t) == SuffixName(t, "_large_pdb_shim")
        plain == [all.dicts[CHOOSE t \in DOMAIN all.dicts : TRUE] EXCEPT
                    !.dependencies = <<>>, !.dependencies_original = <<>>, !.exports = <<>>,
                    !.actions = <<>>, !.rules = <<>>, !.copies = <<>>, !.pch_source = NoFile,
                    !.msvs_large_pdb = FALSE, !.standalone_static_library = FALSE]
        copyDict(t) == [plain EXCEPT !.type = "none", !.sources = <<ShimSource>>,
                          !.copies = <<[destination |-> <<copyOf(t)[2]>>, files |-> <<ShimSource>>]>>]
        shimDict(t) == [plain EXCEPT !.type = "static_library",
                          !.sources = <<<<copyOf(t)[2]>> \o ShimSource>>,
                          !.dependencies = <<copyOf(t)>>]
    IN  [list |-> Folded(LAMBDA l, t : <<shimOf(t), copyOf(t)>> \o l, all.list,
                         SetToSeq(shimmed)),
         dicts |-> [n \in DOMAIN all.dicts \cup {copyOf(t) : t \in shimmed}
                              \cup {shimOf(t) : t \in shimmed} |->
                      CASE n \in shimmed ->
                             [all.dicts[n] EXCEPT !.dependencies = Append(@, shimOf(n)),
                                                  !.pdb = TRUE]
                        [] n \in DOMAIN all.dicts \ shimmed -> all.dicts[n]
                        [] \E t \in shimmed : n = copyOf(t) ->
                             copyDict(CHOOSE t \in shimmed : n = copyOf(t))
                        [] OTHER -> shimDict(CHOOSE t \in shimmed : n = shimOf(t))]]
=============================================================================
