--------------------------- MODULE MCDpeScheduler ---------------------------
(***************************************************************************)
(* Small instances of DpeScheduler.                                        *)
(***************************************************************************)
EXTENDS DpeScheduler

OneService == {"a"}
TwoServices == {"a", "b"}
NoService == {}
NoTasks == {}
LastTaskOnly == {TaskCount}
OutputOfTask == [t \in Tasks |-> 10 + t]
=============================================================================
