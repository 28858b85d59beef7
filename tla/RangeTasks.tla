----------------------------- MODULE RangeTasks -----------------------------
(***************************************************************************)
(* RangeBasedTaskGenerator of src/dpe/dpe_util.h: a range first..last of   *)
(* integers is cut into tasks 1, 2, ... of block_size integers each, the   *)
(* last of which may be shorter.  A Solver generates the ids of the tasks  *)
(* by iterating over the generator, and a worker turns an id back into its *)
(* range.                                                                  *)
(***************************************************************************)
EXTENDS Integers

CONSTANTS
    Firsts, Lasts,  \* bounds: the first and last numbers that are tried
    BlockSizes,
    MaxIds          \* bound: how far an iteration that misses its end is followed

\* The constructor asserts that block_size is at least 1.
ASSUME RangeAssumption ==
    /\ Firsts \subseteq Int /\ Lasts \subseteq Int /\ BlockSizes \subseteq Nat \ {0}
    /\ MaxIds \in Nat

VARIABLES
    first, last, block_size,    \* first_, last_, block_size_
    last_task,                  \* last_task_; first_task_ is 1
    id,                         \* the task the iteration has reached
    tasks                       \* the ids the iteration has returned

rangeVars == <<first, last, block_size, last_task, id, tasks>>

\* Division of C++, which rounds towards zero.
Truncated(a, b) == IF a >= 0 THEN a \div b ELSE -((-a) \div b)

\* Mutation: the division rounds down.
LastTaskRoundedDown(f, l, b) == Truncated(l - f + 1, b)

\* last_task_: the number of blocks, rounded up.
LastTask(f, l, b) == Truncated(l - f + 1 + b - 1, b)

\* setRange, for any range: one that ends before it begins is not refused.
SetRange(f, l, b) ==
    /\ first' = f
    /\ last' = l
    /\ block_size' = b
    /\ last_task' = LastTask(f, l, b)

\* toRange: the numbers u..v of task t.
ToRange(t) ==
    [u |-> (t - 1) * block_size + first,
     v |-> IF (t - 1) * block_size + first + block_size - 1 > last THEN last
           ELSE (t - 1) * block_size + first + block_size - 1]

\* A default generator, of the one number 0.
RangeInit ==
    /\ first = 0 /\ last = 0 /\ block_size = 1
    /\ last_task = LastTask(0, 0, 1)
    /\ id = 1 /\ tasks = {}

\* The range is set and a new iteration begins: begin().
Begin(f, l, b) ==
    /\ SetRange(f, l, b)
    /\ id' = 1
    /\ tasks' = {}

\* task != end().
AtEnd == id = last_task + 1

\* operator* and operator++, for a loop that stops at end().
Step ==
    /\ ~AtEnd
    /\ id <= last_task \/ id <= MaxIds
    /\ tasks' = tasks \cup {id}
    /\ id' = id + 1
    /\ UNCHANGED <<first, last, block_size, last_task>>

RangeNext ==
    \/ \E f \in Firsts, l \in Lasts, b \in BlockSizes : Begin(f, l, b)
    \/ Step

RangeSpec == RangeInit /\ [][RangeNext]_rangeVars

-----------------------------------------------------------------------------
\* The ids that were returned are those before the current one, which is at most
\* end() unless the range ends before it begins.
RangeTypeOK ==
    /\ first \in Int /\ last \in Int /\ block_size \in Nat \ {0}
    /\ last_task = LastTask(first, last, block_size)
    /\ id \in Nat \ {0}
    /\ id > last_task + 1 => last_task < 0
    /\ tasks = 1..(id - 1)

\* Every number of the range belongs to exactly one of the tasks.
Partition ==
    \A x \in first..last :
        \E t \in tasks :
            /\ ToRange(t).u <= x /\ x <= ToRange(t).v
            /\ \A s \in tasks : ToRange(s).u <= x /\ x <= ToRange(s).v => s = t

\* When the loop over the generator ends, every number of the range belongs to
\* exactly one of the tasks it returned: nothing is computed twice or left
\* out, at the ends of the blocks or at the end of the range, and an empty range
\* has no task.  The loop misses its end, end() being before begin(), for a
\* range that ends two blocks or more before it begins, and for no other.
EveryPointOnce ==
    /\ AtEnd => Partition /\ (last < first => tasks = {})
    /\ id > last_task + 1 => last <= first - 2 * block_size

\* A task is never empty, never longer than a block and never outside the
\* range; toRange may be called for every id that was returned, its assertion
\* included, unless the range ends before it begins.
RangesInside ==
    last >= first - 1 =>
      \A t \in tasks :
        /\ t <= last_task
        /\ first <= ToRange(t).u
        /\ ToRange(t).u <= ToRange(t).v
        /\ ToRange(t).v <= last
        /\ ToRange(t).v - ToRange(t).u < block_size
=============================================================================
