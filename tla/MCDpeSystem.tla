---------------------------- MODULE MCDpeSystem ----------------------------
(***************************************************************************)
(* Small instances of DpeSystem.                                           *)
(***************************************************************************)
EXTENDS DpeSystem

TwoTasks == <<2, 1>>
ThreeTasks == <<2, 3, 1>>
AnswerOfTask == [t \in Tasks |-> 10 + t]

\* Two clients: loops of two processes on two machines, or of one process.
TwoClients == {1, 2}
Identity == [c \in Clients |-> c]
One == {1}
OwnMachine == [c \in Clients |-> 100 + c]
SameMachine == [c \in Clients |-> 100]
AllOne == [c \in Clients |-> 1]

\* The first process asks for one task at a time, the second lets the running
\* time of its batches decide.
FixedAndAdaptive == [p \in Processes |-> IF p = 1 THEN 1 ELSE -1]
BatchOfTwo == [p \in Processes |-> 2]
=============================================================================
