---------------------------- MODULE MCArithmetic ----------------------------
(***************************************************************************)
(* The arithmetic of dpe: the batch sizes of a worker with batch_size -3   *)
(* and measured times around every limit, and the tasks of ranges around   *)
(* zero, empty ones and ones that end before they begin included, with     *)
(* blocks up to longer than the range.                                     *)
(* A behaviour is about one of the two.                                    *)
(***************************************************************************)
EXTENDS BatchTime, RangeTasks

Times == {-2000000, -9999, 0, 1, 9999, 10000, 10001, 30000, 999999, 1000000,
          1000001, 2999999, 3000000, 3000001, 7000000}
SmallFirsts == -2..2
SmallLasts == -3..6
SmallBlocks == 1..10

VARIABLE subject
vars == <<subject, batchVars, rangeVars>>

Init == subject \in {"batch", "range"} /\ BatchInit /\ RangeInit
Next ==
    \/ subject = "batch" /\ BatchNext /\ UNCHANGED <<subject, rangeVars>>
    \/ subject = "range" /\ RangeNext /\ UNCHANGED <<subject, batchVars>>
Spec == Init /\ [][Next]_vars
=============================================================================
