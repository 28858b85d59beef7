----------------------------- MODULE BatchTime -----------------------------
(***************************************************************************)
(* How a worker with a negative batch_size chooses the number of tasks it  *)
(* asks for next (FinishExecuteTaskImpl of src/dpe/dpe_worker_node.cc):    *)
(* |batch_size| is the time in seconds a call of Solver::Compute should    *)
(* take, and the last batch tells how long a task takes.                   *)
(*                                                                         *)
(* Times are in microseconds, as the code measures them.  The code divides *)
(* in double precision; the exact quotient of two such numbers is an       *)
(* integer or farther from every integer than the rounding can reach, so   *)
(* the truncated quotient is the exact one or, when the division leaves no *)
(* remainder, possibly one less; and at the exact limit between the two    *)
(* cases either may be taken.                                              *)
(***************************************************************************)
EXTENDS Integers

CONSTANTS
    ExpectedTime,   \* expected_time: -batch_size, in seconds
    TotalTimes      \* what end_time - start_time may be (the clock may be set)

ASSUME ExpectedTimeAssumption == ExpectedTime \in Nat \ {0}
ASSUME TotalTimesAssumption == TotalTimes \subseteq Int

VARIABLES
    asked,          \* max_task_count of the request that is sent next
    size,           \* the size of the last batch, 0 before the first
    total_time      \* how long it took

batchVars == <<asked, size, total_time>>

Second == 1000000

\* Mutation: the limit is a tenth of a second.
ShortTaskTenfold == 100000

\* 1e-2: tasks that take no longer are not used to measure.
ShortTask == 10000

LargestBatch == 100

Clamp(n) == IF n > LargestBatch THEN LargestBatch ELSE IF n <= 0 THEN 1 ELSE n

Magnitude(t) == IF t < 0 THEN -t ELSE t

\* Mutation: the total time is taken for the time of one task.
QuotientOfTotal(n, t) == (ExpectedTime * Second) \div t

\* expected_time / actual_time, for a positive time t of n tasks.
Quotient(n, t) == (ExpectedTime * Second * n) \div t

\* The values of can: negative or zero when the clock went back.
Can(n, t) ==
    IF t <= 0 THEN {0}
    ELSE {Quotient(n, t)} \cup
         (IF Quotient(n, t) * t = ExpectedTime * Second * n
          THEN {Quotient(n, t) - 1} ELSE {})

\* suggested_size after a batch of n tasks that took t.
SuggestedSize(n, t) ==
    (IF Magnitude(t) >= ShortTask * n THEN {Clamp(c) : c \in Can(n, t)} ELSE {})
    \cup (IF Magnitude(t) <= ShortTask * n THEN {Clamp(n + 1)} ELSE {})

\* Start asks for one task.
BatchInit == asked = 1 /\ size = 0 /\ total_time = 0

\* The master hands out n tasks, they are computed and take the time t.
FinishBatch(n, t) ==
    /\ size' = n
    /\ total_time' = t
    /\ asked' \in SuggestedSize(n, t)

BatchNext == \E n \in 1..asked, t \in TotalTimes : FinishBatch(n, t)

BatchSpec == BatchInit /\ [][BatchNext]_batchVars

-----------------------------------------------------------------------------
\* A worker asks for 1 to 100 tasks, whatever the clock says: a request for 0
\* tasks would be answered with one task, one for more could starve others.
BatchTypeOK ==
    /\ asked \in 1..LargestBatch
    /\ size \in 0..LargestBatch
    /\ total_time \in TotalTimes \cup {0}

\* If its tasks are as long as those of the last batch, the next call of
\* Solver::Compute does not take longer than |batch_size| seconds, unless one
\* task does.  This also holds of the batches that grow by one without a
\* measurement, because 100 tasks of a hundredth second fit into any
\* batch_size.
BatchFitsTime ==
    size > 0 /\ total_time >= 0 =>
        \/ asked = 1
        \/ asked * total_time <= ExpectedTime * Second * size

\* The next batch is not needlessly small: it is as large as it may be, or it
\* grows by one, or two more tasks would not fit.
BatchUsesTime ==
    size > 0 /\ total_time > 0 =>
        \/ asked = LargestBatch
        \/ asked = size + 1
        \/ (asked + 2) * total_time > ExpectedTime * Second * size
=============================================================================
