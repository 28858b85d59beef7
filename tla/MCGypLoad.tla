----------------------------- MODULE MCGypLoad -----------------------------
(***************************************************************************)
(* Three build files that depend on each other in every way that matters   *)
(* (chains, diamonds, cycles), one of which may be unreadable, two include *)
(* files, one of which includes the other, and two processes.           *)
(***************************************************************************)
EXTENDS GypLoad

File(ok, includes, deps) == [ok |-> ok, includes |-> includes, deps |-> deps]

SmallDisks ==
    {[f \in {"a", "b", "c", "i", "j"} |->
        CASE f = "a" -> File(bad # "a", <<"i">>, da)
          [] f = "b" -> File(bad # "b", <<"i", "j">>, db)
          [] f = "c" -> File(bad # "c", <<>>, dc)
          [] f = "i" -> File(bad # "i", <<"j">>, <<>>)
          [] f = "j" -> File(bad # "j", <<>>, <<>>)] :
        bad \in {"none", "b", "j"},
        da \in {<<>>, <<"b">>, <<"c", "b">>, <<"b", "b">>},
        db \in {<<"c">>, <<"c", "a">>},
        dc \in {<<>>, <<"b">>}}

OneInclude == <<"j">>
=============================================================================
