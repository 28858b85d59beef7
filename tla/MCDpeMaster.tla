---------------------------- MODULE MCDpeMaster ----------------------------
(***************************************************************************)
(* Small instances of DpeMaster.                                           *)
(***************************************************************************)
EXTENDS DpeMaster

\* Two or three tasks, generated in an order that is not the order of the ids
\* (the pending queue follows the first, the state file the second).
TwoTasks == <<2, 1>>
ThreeTasks == <<2, 3, 1>>

AnswerOfTask == [t \in Tasks |-> 10 + t]

\* Clients c1 and c2 run on different machines.
TwoClients == {1, 2}
OwnMachine == [c \in Clients |-> 100 + c]
=============================================================================
