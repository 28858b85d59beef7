--------------------------- MODULE JobCheckpoint ---------------------------
(***************************************************************************)
(* What the master of a dpe job promises to its Solver and to its user.    *)
(* The results of the tasks form a set that only grows while the process   *)
(* lives; now and then the whole set is saved; a new process begins with   *)
(* what was saved, or with nothing; the end is announced to the Solver     *)
(* only when every result is known, and with a working disk only when      *)
(* every result is saved.  How tasks are handed out, to whom, and which    *)
(* reports are late or repeated does not show here.                        *)
(***************************************************************************)
CONSTANTS Tasks, DiskFaults

VARIABLES
    known,      \* the tasks whose result the Solver was told by this process
    saved,      \* the tasks whose result is on disk
    announced   \* whether this process called Solver::Finish

vars == <<known, saved, announced>>

Init == known = {} /\ saved = {} /\ announced = FALSE

\* A process begins, with the saved results or with none.
Load ==
    /\ known = {} /\ ~announced
    /\ known' \in {saved, {}}
    /\ announced' \in BOOLEAN
    /\ announced' => known' = Tasks
    /\ UNCHANGED saved

\* Results arrive, possibly none that is new; all that is known may be saved.
Learn ==
    /\ \E R \in SUBSET (Tasks \ known) : known' = known \cup R
    /\ announced' = (announced \/ known' = Tasks)
    /\ \/ saved' = known'
       \/ ~announced' /\ saved' = saved
       \/ DiskFaults /\ saved' \in {saved} \cup SUBSET known'

\* The process ends; a save it was in the middle of may leave anything.
Lose ==
    /\ known' = {}
    /\ announced' = FALSE
    /\ saved' \in {saved} \cup SUBSET Tasks

Next == Load \/ Learn \/ Lose

Spec == Init /\ [][Next]_vars
=============================================================================
