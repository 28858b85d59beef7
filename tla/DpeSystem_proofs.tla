-------------------------- MODULE DpeSystem_proofs --------------------------
(***************************************************************************)
(* dpe: the arithmetic of batches and ranges, the master for any clients,  *)
(* and the job of a master and its workers. The workers are clients as the *)
(* master expects them, so that what is proved of DpeMaster holds of the   *)
(* job, and the tasks of a loop are counted, sized and handed out right,   *)
(* for any number of processes, loops, tasks and faults.                   *)
(***************************************************************************)
EXTENDS DpeSystem, BatchTime, RangeTasks, QueueFacts

-----------------------------------------------------------------------------
(***************************************************************************)
(* The arithmetic of dpe: the adaptive batch size, for every batch_size    *)
(* and every measured time, and the ranges of the tasks, for every range   *)
(* of integers and block size.                                             *)
(***************************************************************************)
\* What suggested_size is clamped to lies between 1 and 100.
LEMMA ClampRange ==
    ASSUME NEW n \in Int
    PROVE  Clamp(n) \in 1..LargestBatch
BY DEF Clamp, LargestBatch

\* The truncated quotient of two positive numbers, as the provers need it.
LEMMA Division ==
    ASSUME NEW a \in Nat, NEW t \in Nat \ {0}
    PROVE  /\ a \div t \in Nat
           /\ (a \div t) * t <= a
           /\ a < (a \div t + 1) * t
BY Z3

\* The quotient of the expected time and the time of a task.
LEMMA QuotientBounds ==
    ASSUME NEW n \in Nat, NEW t \in Nat \ {0}
    PROVE  /\ Quotient(n, t) \in Nat
           /\ Quotient(n, t) * t <= ExpectedTime * Second * n
           /\ ExpectedTime * Second * n < (Quotient(n, t) + 1) * t
<1>1. ExpectedTime * Second * n \in Nat
  BY ExpectedTimeAssumption DEF Second
<1>2. QED
  BY <1>1, Division DEF Quotient

\* The values of can are integers, and neither too large nor, by more than one,
\* too small.
LEMMA CanBounds ==
    ASSUME NEW n \in Nat, NEW t \in Int, NEW c \in Can(n, t)
    PROVE  /\ c \in Int
           /\ t > 0 => c * t <= ExpectedTime * Second * n
           /\ t > 0 => ExpectedTime * Second * n < (c + 2) * t
<1>1. CASE t <= 0
  BY <1>1 DEF Can
<1>2. CASE t > 0
  <2> DEFINE q == Quotient(n, t)
             e == ExpectedTime * Second * n
  <2>1. q \in Nat /\ q * t <= e /\ e < (q + 1) * t /\ e \in Int
    BY <1>2, QuotientBounds, ExpectedTimeAssumption DEF Second
  <2>2. c = q \/ c = q - 1
    BY <1>2 DEF Can
  <2>3. /\ (q + 2) * t = (q + 1) * t + t
        /\ (q - 1) * t = q * t - t
        /\ ((q - 1) + 2) * t = (q + 1) * t
    BY <2>1
  <2> HIDE DEF q, e
  <2>4. CASE c = q
    BY <1>2, <2>1, <2>3, <2>4 DEF e
  <2>5. CASE c = q - 1
    BY <1>2, <2>1, <2>3, <2>5 DEF e
  <2>6. QED
    BY <2>2, <2>4, <2>5
<1>3. QED
  BY <1>1, <1>2

\* What the clamped quotient and the batch that grows by one have in common.
LEMMA SuggestedSizeBounds ==
    ASSUME NEW n \in 1..LargestBatch, NEW t \in Int, NEW s \in SuggestedSize(n, t)
    PROVE  /\ s \in 1..LargestBatch
           /\ t >= 0 => s = 1 \/ s * t <= ExpectedTime * Second * n
           /\ t > 0 => \/ s = LargestBatch
                       \/ s = n + 1
                       \/ (s + 2) * t > ExpectedTime * Second * n
<1>0. n \in Nat /\ n >= 1 /\ n <= 100
  BY DEF LargestBatch
<1> DEFINE e == ExpectedTime * Second * n
<1>e. e \in Int
  BY <1>0, ExpectedTimeAssumption DEF Second
<1>1. ASSUME NEW c \in Can(n, t), s = Clamp(c)
      PROVE  /\ s \in 1..LargestBatch
             /\ t >= 0 => s = 1 \/ s * t <= e
             /\ t > 0 => s = LargestBatch \/ (s + 2) * t > e
  <2>1. /\ c \in Int
        /\ t > 0 => c * t <= e
        /\ t > 0 => e < (c + 2) * t
    BY <1>0, CanBounds
  <2>2. s \in 1..LargestBatch
    BY <1>1, <2>1, ClampRange
  <2>3. CASE t <= 0
    <3>1. c = 0
      BY <1>1, <2>3 DEF Can
    <3>2. s = 1
      BY <1>1, <3>1 DEF Clamp, LargestBatch
    <3>3. QED
      BY <2>2, <2>3, <3>2
  <2>4. CASE t > 0 /\ c > 100
    <3>1. s = 100 /\ c >= s
      BY <1>1, <2>1, <2>4 DEF Clamp, LargestBatch
    <3>2. s * t <= c * t
      BY <2>1, <2>4, <3>1
    <3> HIDE DEF e
    <3>3. QED
      BY <1>e, <2>1, <2>2, <2>4, <3>1, <3>2 DEF LargestBatch
  <2>5. CASE t > 0 /\ c <= 0
    <3>1. s = 1
      BY <1>1, <2>1, <2>5 DEF Clamp, LargestBatch
    <3>2. (c + 2) * t <= (s + 2) * t
      BY <2>1, <2>5, <3>1
    <3> HIDE DEF e
    <3>3. QED
      BY <1>e, <2>1, <2>2, <2>5, <3>1, <3>2
  <2>6. CASE t > 0 /\ c > 0 /\ c <= 100
    <3>1. s = c
      BY <1>1, <2>1, <2>6 DEF Clamp, LargestBatch
    <3> HIDE DEF e
    <3>2. QED
      BY <1>e, <2>1, <2>2, <2>6, <3>1
  <2>7. QED
    BY <2>1, <2>3, <2>4, <2>5, <2>6
<1>2. ASSUME Magnitude(t) <= ShortTask * n, s = Clamp(n + 1)
      PROVE  /\ s \in 1..LargestBatch
             /\ t >= 0 => s * t <= e
             /\ s = n + 1 \/ s = LargestBatch
  <2>1. s \in 1..LargestBatch /\ s <= 100 /\ s >= 1
    BY <1>0, <1>2, ClampRange DEF LargestBatch
  <2>2. s = n + 1 \/ s = LargestBatch
    BY <1>0, <1>2 DEF Clamp, LargestBatch
  <2>3. ASSUME t >= 0 PROVE s * t <= e
    <3>1. t <= 10000 * n
      BY <1>0, <1>2, <2>3 DEF Magnitude, ShortTask
    <3>2. s * t <= 100 * t
      BY <2>1, <2>3
    <3>3. 1000000 * n <= e
      <4>1. ExpectedTime \in Nat /\ ExpectedTime >= 1
        BY ExpectedTimeAssumption
      <4>2. 1000000 * n <= ExpectedTime * (1000000 * n)
        BY <1>0, <4>1
      <4>3. ExpectedTime * (1000000 * n) = e
        BY <1>0, <4>1 DEF Second
      <4>4. QED
        BY <4>2, <4>3
    <3>4. 100 * t <= 1000000 * n
      BY <1>0, <2>3, <3>1
    <3>5. s * t \in Int
      BY <2>1
    <3> HIDE DEF e
    <3>6. QED
      BY <1>0, <1>e, <3>2, <3>3, <3>4, <3>5
  <2>4. QED
    BY <2>1, <2>2, <2>3
<1>3. CASE Magnitude(t) >= ShortTask * n /\ \E c \in Can(n, t) : s = Clamp(c)
  BY <1>1, <1>3
<1>4. CASE Magnitude(t) <= ShortTask * n /\ s = Clamp(n + 1)
  BY <1>2, <1>4
<1>5. QED
  BY <1>3, <1>4 DEF SuggestedSize

BatchInv == BatchTypeOK /\ BatchFitsTime /\ BatchUsesTime

\* The three properties are inductive together.
LEMMA BatchInvariance == BatchSpec => []BatchInv
<1>1. BatchInit => BatchInv
  BY DEF BatchInit, BatchInv, BatchTypeOK, BatchFitsTime, BatchUsesTime, LargestBatch
<1>2. BatchInv /\ [BatchNext]_batchVars => BatchInv'
  <2> SUFFICES ASSUME BatchInv, [BatchNext]_batchVars PROVE BatchInv'
    OBVIOUS
  <2>1. CASE UNCHANGED batchVars
    BY <2>1 DEF BatchInv, BatchTypeOK, BatchFitsTime, BatchUsesTime, batchVars
  <2>2. ASSUME NEW n \in 1..asked, NEW t \in TotalTimes, FinishBatch(n, t)
        PROVE  BatchInv'
    <3>1. n \in 1..LargestBatch /\ t \in Int
      BY TotalTimesAssumption DEF BatchInv, BatchTypeOK, LargestBatch
    <3>2. asked' \in SuggestedSize(n, t) /\ size' = n /\ total_time' = t
      BY <2>2 DEF FinishBatch
    <3>3. /\ asked' \in 1..LargestBatch
          /\ t >= 0 => asked' = 1 \/ asked' * t <= ExpectedTime * Second * n
          /\ t > 0 => \/ asked' = LargestBatch
                      \/ asked' = n + 1
                      \/ (asked' + 2) * t > ExpectedTime * Second * n
      BY <3>1, <3>2, SuggestedSizeBounds
    <3>4. BatchTypeOK'
      BY <3>1, <3>2, <3>3 DEF BatchTypeOK, LargestBatch
    <3>5. BatchFitsTime' /\ BatchUsesTime'
      BY <3>2, <3>3 DEF BatchFitsTime, BatchUsesTime
    <3>6. QED
      BY <3>4, <3>5 DEF BatchInv
  <2>3. QED
    BY <2>1, <2>2 DEF BatchNext
<1>3. QED
  BY <1>1, <1>2, PTL DEF BatchSpec

\* A worker asks for 1 to 100 tasks, for every batch_size and every time.
THEOREM AskedIsBounded == BatchSpec => []BatchTypeOK
BY BatchInvariance, PTL DEF BatchInv

\* The next batch fits into |batch_size| seconds unless it is a single task.
THEOREM FitsTime == BatchSpec => []BatchFitsTime
BY BatchInvariance, PTL DEF BatchInv

\* The next batch is not needlessly small.
THEOREM UsesTime == BatchSpec => []BatchUsesTime
BY BatchInvariance, PTL DEF BatchInv

-----------------------------------------------------------------------------
(***************************************************************************)
(* The ranges of the tasks.                                                *)
(***************************************************************************)
\* The number of tasks is the smallest whose blocks hold the whole range.
LEMMA LastTaskBounds ==
    ASSUME NEW f \in Int, NEW l \in Int, NEW b \in Nat \ {0}, l >= f - 1
    PROVE  /\ LastTask(f, l, b) \in Nat
           /\ LastTask(f, l, b) * b >= l - f + 1
           /\ (LastTask(f, l, b) - 1) * b < l - f + 1
<1> DEFINE q == (l - f + 1 + b - 1) \div b
<1>1. l - f + 1 + b - 1 \in Nat
  OBVIOUS
<1>2. q \in Nat /\ q * b <= l - f + 1 + b - 1 /\ l - f + 1 + b - 1 < (q + 1) * b
  BY <1>1, Division
<1>3. (q + 1) * b = q * b + b /\ (q - 1) * b = q * b - b /\ q * b \in Int
  BY <1>2
<1>4. LastTask(f, l, b) = q
  BY <1>1 DEF LastTask, Truncated
<1> HIDE DEF q
<1>5. QED
  BY <1>2, <1>3, <1>4

\* A range that ends before it begins has no tasks, or a negative number of them
\* when it does by two blocks or more.
LEMMA LastTaskInverted ==
    ASSUME NEW f \in Int, NEW l \in Int, NEW b \in Nat \ {0}, l < f
    PROVE  /\ LastTask(f, l, b) \in Int
           /\ LastTask(f, l, b) <= 0
           /\ l > f - 2 * b => LastTask(f, l, b) = 0
<1>1. PICK a : a = l - f + 1 + b - 1
  OBVIOUS
<1>2. a \in Int /\ a < b /\ (l > f - 2 * b => -a < b)
  BY <1>1
<1>3. LastTask(f, l, b) = Truncated(a, b)
  BY <1>1 DEF LastTask
<1>4. CASE a >= 0
  <2>1. PICK q : q = a \div b
    OBVIOUS
  <2>2. q \in Nat /\ q * b <= a /\ a < (q + 1) * b
    BY <1>2, <1>4, <2>1, Division
  <2>3. q = 0
    <3>1. q >= 1 => q * b >= b
      BY <2>2
    <3>2. QED
      BY <1>2, <2>2, <3>1
  <2>4. QED
    BY <1>3, <1>4, <2>1, <2>3 DEF Truncated
<1>5. CASE a < 0
  <2>1. PICK q : q = (-a) \div b
    OBVIOUS
  <2>2. q \in Nat /\ q * b <= -a /\ -a < (q + 1) * b
    BY <1>2, <1>5, <2>1, Division
  <2>3. -a < b => q = 0
    <3>1. q >= 1 => q * b >= b
      BY <2>2
    <3>2. QED
      BY <1>2, <2>2, <3>1
  <2>4. LastTask(f, l, b) = -q
    BY <1>2, <1>3, <1>5, <2>1 DEF Truncated
  <2>5. QED
    BY <1>2, <2>2, <2>3, <2>4
<1>6. QED
  BY <1>2, <1>4, <1>5

\* The members keep their types.
LEMMA RangeTypeInvariance == RangeSpec => []RangeTypeOK
<1>0. \A f, l \in Int : \A b \in Nat \ {0} : LastTask(f, l, b) \in Int
  <2> SUFFICES ASSUME NEW f \in Int, NEW l \in Int, NEW b \in Nat \ {0}
               PROVE  LastTask(f, l, b) \in Int
    OBVIOUS
  <2>1. CASE l >= f - 1
    BY <2>1, LastTaskBounds
  <2>2. CASE l < f
    BY <2>2, LastTaskInverted
  <2>3. QED
    BY <2>1, <2>2
<1>1. RangeInit => RangeTypeOK
  <2> SUFFICES ASSUME RangeInit PROVE RangeTypeOK
    OBVIOUS
  <2>1. LastTask(0, 0, 1) \in Nat
    BY LastTaskBounds
  <2>2. tasks = 1..(id - 1)
    BY DEF RangeInit
  <2>3. QED
    BY <2>1, <2>2 DEF RangeInit, RangeTypeOK
<1>2. RangeTypeOK /\ [RangeNext]_rangeVars => RangeTypeOK'
  <2> SUFFICES ASSUME RangeTypeOK, [RangeNext]_rangeVars PROVE RangeTypeOK'
    OBVIOUS
  <2>1. CASE UNCHANGED rangeVars
    BY <2>1 DEF RangeTypeOK, rangeVars
  <2>2. CASE Step
    <3>1. last_task \in Int
      BY <1>0 DEF RangeTypeOK
    <3>2. id' \in Nat \ {0} /\ (id' > last_task' + 1 => last_task' < 0)
      BY <2>2, <3>1 DEF RangeTypeOK, Step, AtEnd
    <3>3. tasks' = 1..(id' - 1)
      <4>1. id \in Int /\ id >= 1 /\ id' = id + 1 /\ tasks' = 1..(id - 1) \cup {id}
        BY <2>2, <3>1 DEF RangeTypeOK, Step
      <4>2. 1..(id - 1) \cup {id} = 1..id
        BY <4>1
      <4>3. QED
        BY <4>1, <4>2
    <3>4. QED
      BY <2>2, <3>2, <3>3 DEF RangeTypeOK, Step
  <2>3. ASSUME NEW f \in Firsts, NEW l \in Lasts, NEW b \in BlockSizes, Begin(f, l, b)
        PROVE  RangeTypeOK'
    <3>1. f \in Int /\ l \in Int /\ b \in Nat \ {0}
      BY <2>3, RangeAssumption
    <3>2. LastTask(f, l, b) \in Int
      BY <1>0, <3>1
    <3>3. QED
      BY <2>3, <3>1, <3>2 DEF RangeTypeOK, Begin, SetRange
  <2>4. QED
    BY <2>1, <2>2, <2>3 DEF RangeNext
<1>3. QED
  BY <1>1, <1>2, PTL DEF RangeSpec

\* A task that was returned lies inside the range.
LEMMA Inside == RangeTypeOK => RangesInside
<1> SUFFICES ASSUME RangeTypeOK, last >= first - 1, NEW t \in tasks
             PROVE  /\ t <= last_task
                    /\ first <= ToRange(t).u
                    /\ ToRange(t).u <= ToRange(t).v
                    /\ ToRange(t).v <= last
                    /\ ToRange(t).v - ToRange(t).u < block_size
  BY DEF RangesInside
<1> DEFINE k == (t - 1) * block_size
<1>1. /\ first \in Int /\ last \in Int /\ block_size \in Nat \ {0}
      /\ last_task = LastTask(first, last, block_size)
  BY DEF RangeTypeOK
<1>2. last_task \in Nat /\ (last_task - 1) * block_size < last - first + 1
  BY <1>1, LastTaskBounds
<1>3. t \in 1..last_task
  BY <1>2 DEF RangeTypeOK
<1>4. k >= 0 /\ k <= (last_task - 1) * block_size /\ k \in Int
      /\ (last_task - 1) * block_size \in Int
  BY <1>1, <1>2, <1>3
<1>5. ToRange(t) = [u |-> k + first,
                    v |-> IF k + first + block_size - 1 > last THEN last
                          ELSE k + first + block_size - 1]
  BY DEF ToRange
<1> HIDE DEF k
<1>6. QED
  BY <1>1, <1>2, <1>3, <1>4, <1>5

\* A number lies in the range of the one task (x - first) / block_size + 1.
LEMMA Covered == RangeTypeOK /\ AtEnd => Partition
<1> SUFFICES ASSUME RangeTypeOK, AtEnd, NEW x \in first..last
             PROVE  \E t \in tasks :
                        /\ ToRange(t).u <= x /\ x <= ToRange(t).v
                        /\ \A s \in tasks :
                              ToRange(s).u <= x /\ x <= ToRange(s).v => s = t
  BY DEF Partition
<1> DEFINE q == (x - first) \div block_size
<1>1. /\ first \in Int /\ last \in Int /\ block_size \in Nat \ {0}
      /\ last_task = LastTask(first, last, block_size)
      /\ last >= first - 1
  BY DEF RangeTypeOK
<1>2. last_task \in Nat /\ last_task * block_size >= last - first + 1
  BY <1>1, LastTaskBounds
<1>3. tasks = 1..last_task
  BY <1>2 DEF RangeTypeOK, AtEnd
<1>4. x \in Int /\ x >= first /\ x <= last /\ x - first \in Nat
  BY <1>1
<1>5. q \in Nat /\ q * block_size <= x - first /\ x - first < (q + 1) * block_size
  BY <1>1, <1>4, Division
<1>6. (q + 1) * block_size = q * block_size + block_size /\ q * block_size \in Int
  BY <1>1, <1>5
<1> HIDE DEF q
<1>7. q + 1 \in tasks
  <2>1. q * block_size < last_task * block_size
    BY <1>1, <1>2, <1>4, <1>5, <1>6
  <2>2. q < last_task
    BY <1>1, <1>2, <1>5, <2>1
  <2>3. QED
    BY <1>2, <1>3, <1>5, <2>2
<1>8. ToRange(q + 1).u <= x /\ x <= ToRange(q + 1).v
  <2>1. ((q + 1) - 1) * block_size = q * block_size
    BY <1>1, <1>5
  <2>2. QED
    BY <1>1, <1>4, <1>5, <1>6, <2>1 DEF ToRange
<1>9. ASSUME NEW s \in tasks, ToRange(s).u <= x, x <= ToRange(s).v
      PROVE  s = q + 1
  <2> DEFINE k == (s - 1) * block_size
  <2>1. s \in Int /\ s >= 1
    BY <1>2, <1>3
  <2>2. k \in Int /\ s * block_size = k + block_size
    BY <1>1, <2>1
  <2>3. k + first <= x /\ x <= k + first + block_size - 1
    <3>1. ToRange(s).u = k + first
      BY DEF ToRange
    <3>2. ToRange(s).v = IF k + first + block_size - 1 > last THEN last
                         ELSE k + first + block_size - 1
      BY DEF ToRange
    <3> HIDE DEF k
    <3>3. QED
      BY <1>1, <1>4, <1>9, <2>2, <3>1, <3>2
  <2>4. (s - 1) * block_size < (q + 1) * block_size
    BY <1>1, <1>4, <1>5, <1>6, <2>2, <2>3
  <2>5. q * block_size < s * block_size
    <3> HIDE DEF k
    <3>1. QED
      BY <1>1, <1>4, <1>5, <1>6, <2>2, <2>3
  <2>6. s - 1 < q + 1
    BY <1>1, <1>5, <2>1, <2>4
  <2>7. q < s
    BY <1>1, <1>5, <2>1, <2>5
  <2>8. QED
    BY <1>5, <2>1, <2>6, <2>7
<1>10. QED
  BY <1>7, <1>8, <1>9

\* An inverted range has no task, or the iteration misses its end.
LEMMA Once == RangeTypeOK => EveryPointOnce
<1> SUFFICES ASSUME RangeTypeOK PROVE EveryPointOnce
  OBVIOUS
<1>1. /\ first \in Int /\ last \in Int /\ block_size \in Nat \ {0} /\ id \in Nat \ {0}
      /\ last_task = LastTask(first, last, block_size)
      /\ id > last_task + 1 => last_task < 0
      /\ tasks = 1..(id - 1)
  BY DEF RangeTypeOK
<1>2. last < first => last_task \in Int /\ last_task <= 0
                      /\ (last > first - 2 * block_size => last_task = 0)
  BY <1>1, LastTaskInverted
<1>3. last >= first - 1 => last_task \in Nat
  BY <1>1, LastTaskBounds
<1>4. AtEnd /\ last < first => tasks = {}
  BY <1>1, <1>2 DEF AtEnd
<1>5. id > last_task + 1 => last <= first - 2 * block_size
  BY <1>1, <1>2, <1>3
<1>6. QED
  BY <1>4, <1>5, Covered DEF EveryPointOnce

\* The members keep their types, and the iteration returns 1, 2, ...
THEOREM RangeTypeCorrect == RangeSpec => []RangeTypeOK
BY RangeTypeInvariance

\* The tasks cover the range, each number once, for every range and block size;
\* the loop over them only misses its end for a range that ends two blocks or
\* more before it begins.
THEOREM TasksPartitionRange == RangeSpec => []EveryPointOnce
BY RangeTypeInvariance, Once, PTL

\* No task of a range that does not end before it begins is empty, too long or
\* outside the range.
THEOREM TasksAreBlocks == RangeSpec => []RangesInside
BY RangeTypeInvariance, Inside, PTL

-----------------------------------------------------------------------------
(***************************************************************************)
(* DpeMaster, for every job: any tasks, clients, answers and bounds.       *)
(***************************************************************************)
(***************************************************************************)
(* Types.                                                                  *)
(***************************************************************************)

\* A saved state is a well-formed file.
LEMMA SavedStateType ==
    ASSUME NEW S \in SUBSET Tasks, NEW W \in SUBSET WorkerIds,
           NEW items \in [S -> [status : {"NONE", "PENDING", "RUNNING", "DONE"},
                                result : Int]],
           NEW workers \in [W -> SUBSET Tasks]
    PROVE  FileOK(SavedState(items, workers))
  BY DEF FileOK, SavedState

\* Cutting a complete saved state short leaves a well-formed file.
LEMMA CutShortType ==
    ASSUME NEW W \in SUBSET WorkerIds,
           NEW items \in [Tasks -> [status : {"NONE", "PENDING", "RUNNING", "DONE"},
                                    result : Int]],
           NEW workers \in [W -> SUBSET Tasks],
           NEW f \in CutShort(SavedState(items, workers))
    PROVE  FileOK(f)
  <1> DEFINE st == SavedState(items, workers)
  <1>0. st.task_item = items /\ st.worker_status = workers
    BY DEF SavedState
  <1>1. CASE f = Unparsable
    BY <1>1 DEF FileOK
  <1>2. ASSUME NEW k \in Tasks,
               f = SavedState([t \in {u \in Tasks : u < k} |-> items[t]], <<>>)
        PROVE  FileOK(f)
    <2> DEFINE S == {u \in Tasks : u < k}
    <2>1. [t \in S |-> items[t]] \in
             [S -> [status : {"NONE", "PENDING", "RUNNING", "DONE"}, result : Int]]
      OBVIOUS
    <2>2. << >> \in [{} -> SUBSET Tasks]
      OBVIOUS
    <2> QED BY <1>2, <2>1, <2>2, SavedStateType
  <1>3. ASSUME NEW k \in WorkerIds,
               f = SavedState(items, [w \in {v \in W : v < k} |-> workers[w]])
        PROVE  FileOK(f)
    <2> DEFINE V == {v \in W : v < k}
    <2>1. [w \in V |-> workers[w]] \in [V -> SUBSET Tasks]
      OBVIOUS
    <2> QED BY <1>3, <2>1, SavedStateType
  <1>4. DOMAIN workers = W
    OBVIOUS
  <1> QED BY <1>0, <1>1, <1>2, <1>3, <1>4 DEF CutShort

\* A received finish_compute: who sent it and what it reports.
LEMMA FinishRequestType ==
    ASSUME TypeOK, context.kind = "finish_compute"
    PROVE  /\ context.client \in Clients
           /\ RequestWorker \in WorkerIds
           /\ DOMAIN context.task_item \subseteq Tasks
           /\ \A t \in DOMAIN context.task_item : context.task_item[t] \in Int
  BY DEF TypeOK, RequestOK, NoRequest, GetTaskRequests, WorkerIds, RequestWorker

\* The maps after a finish_compute keep their types, and so does the state
\* that is saved from them.
LEMMA AfterType ==
    ASSUME TypeOK, context.kind = "finish_compute"
    PROVE  /\ StatusAfter \in [Tasks -> {"NONE", "PENDING", "RUNNING", "DONE"}]
           /\ ResultAfter \in [Tasks -> Int]
           /\ FinishedAfter \in [WorkerIds -> SUBSET Tasks]
           /\ WorkersAfter \in SUBSET WorkerIds
           /\ FileOK(StateText)
           /\ \A f \in CutShort(StateText) : FileOK(f)
  <1>1. StatusAfter \in [Tasks -> {"NONE", "PENDING", "RUNNING", "DONE"}]
    BY DEF TypeOK, StatusAfter
  <1>2. ResultAfter \in [Tasks -> Int]
    BY FinishRequestType DEF TypeOK, ResultAfter, Accepted
  <1>3. FinishedAfter \in [WorkerIds -> SUBSET Tasks]
    BY FinishRequestType DEF TypeOK, FinishedAfter
  <1>4. WorkersAfter \in SUBSET WorkerIds
    BY FinishRequestType DEF TypeOK, WorkersAfter
  <1> DEFINE items == [t \in Tasks |-> [status |-> StatusAfter[t],
                                        result |-> ResultAfter[t]]]
             workers == [w \in WorkersAfter |-> FinishedAfter[w]]
  <1>5. items \in [Tasks -> [status : {"NONE", "PENDING", "RUNNING", "DONE"},
                             result : Int]]
    BY <1>1, <1>2
  <1>6. workers \in [WorkersAfter -> SUBSET Tasks]
    BY <1>3, <1>4
  <1>7. StateText = SavedState(items, workers)
    BY DEF StateText
  <1> HIDE DEF items, workers
  <1>8. FileOK(StateText)
    BY <1>4, <1>5, <1>6, <1>7, SavedStateType
  <1>9. \A f \in CutShort(StateText) : FileOK(f)
    BY <1>4, <1>5, <1>6, <1>7, CutShortType
  <1> QED BY <1>1, <1>2, <1>3, <1>4, <1>8, <1>9

\* A new process, or one that is gone, has empty maps.
LEMMA FreshType ==
    ASSUME FreshMemory
    PROVE  /\ task_pending_queue' \subseteq Tasks
           /\ task_running_queue' \subseteq Tasks
           /\ status' \in [Tasks -> {"NONE", "PENDING", "RUNNING", "DONE"}]
           /\ result' \in [Tasks -> Int]
           /\ worker_ids' \subseteq WorkerIds
           /\ running_task' \in [WorkerIds -> SUBSET Tasks]
           /\ finished_task' \in [WorkerIds -> SUBSET Tasks]
           /\ last_save_time' \in BOOLEAN
           /\ told' \in [Tasks -> Seq(Int)]
           /\ finishes' \in Nat
  <1>1. << >> \in Seq(Int)
    OBVIOUS
  <1>2. told' \in [Tasks -> Seq(Int)]
    BY <1>1 DEF FreshMemory
  <1>3. last_save_time' \in BOOLEAN
    BY DEF FreshMemory
  <1> QED BY <1>2, <1>3 DEF FreshMemory

\* The initial state has its types.
LEMMA InitTypeOK == Init => TypeOK
  <1>1. << >> \in Seq(Int) /\ << >> \in Seq({"ProcessRequest", "ExitDpe"})
    OBVIOUS
  <1>2. Init => told \in [Tasks -> Seq(Int)]
    BY <1>1 DEF Init
  <1>3. Init => FileOK(file) /\ RequestOK(context)
    BY DEF Init, FileOK, RequestOK
  <1>4. Init => last_save_time \in BOOLEAN
    BY DEF Init
  <1> QED BY <1>1, <1>2, <1>3, <1>4, BoundsAssumption DEF Init, TypeOK

\* Every step keeps the types.
LEMMA NextTypeOK == TypeOK /\ [Next]_vars => TypeOK'
  <1> SUFFICES ASSUME TypeOK, [Next]_vars
               PROVE  TypeOK'
    OBVIOUS
  <1>1. CASE Bind
    BY <1>1, FreshType, BoundsAssumption DEF Bind, TypeOK, RequestOK, FileOK,
       NoRequest, GetTaskRequests
  <1>2. CASE BindFails
    BY <1>2, FreshType, BoundsAssumption DEF BindFails, TypeOK, RequestOK, FileOK,
       NoRequest, GetTaskRequests
  <1>3. ASSUME NEW read_state \in BOOLEAN, StartTasks(read_state)
        PROVE  TypeOK'
    <2> DEFINE done == CachedDone(read_state)
    <2>1. \A t \in done : file.task_item[t].result \in Int
      BY DEF CachedDone, TypeOK, FileOK, NoFile, Unparsable
    <2>2. CachedWorkers(read_state) \subseteq WorkerIds
      BY DEF CachedWorkers, TypeOK, FileOK, NoFile, Unparsable
    <2>3. \A w \in CachedWorkers(read_state) : file.worker_status[w] \subseteq Tasks
      BY DEF CachedWorkers, TypeOK, FileOK, NoFile, Unparsable
    <2>4. result' \in [Tasks -> Int] /\ told' \in [Tasks -> Seq(Int)]
      BY <1>3, <2>1 DEF StartTasks
    <2>5. finished_task' \in [WorkerIds -> SUBSET Tasks]
      BY <1>3, <2>3 DEF StartTasks
    <2>6. /\ status' \in [Tasks -> {"NONE", "PENDING", "RUNNING", "DONE"}]
          /\ task_pending_queue' \subseteq Tasks
      BY <1>3 DEF StartTasks
    <2>8. /\ finishes' \in Nat
          /\ ui_queue' \in Seq({"ProcessRequest", "ExitDpe"})
      <3>1. /\ finishes' = 1 \/ finishes' = finishes
            /\ ui_queue' = Append(ui_queue, "ExitDpe") \/ ui_queue' = ui_queue
        BY <1>3 DEF StartTasks, WillExitDpe
      <3>2. Append(ui_queue, "ExitDpe") \in Seq({"ProcessRequest", "ExitDpe"})
        BY DEF TypeOK
      <3>3. ui_queue \in Seq({"ProcessRequest", "ExitDpe"}) /\ finishes \in Nat
        BY DEF TypeOK
      <3> QED BY <3>1, <3>2, <3>3
    <2>7. RequestOK(context') /\ FileOK(file')
      BY <1>3 DEF StartTasks, TypeOK, RequestOK, FileOK, NoRequest, GetTaskRequests
    <2>9. last_save_time' \in BOOLEAN
      BY <1>3 DEF StartTasks, TypeOK
    <2>10. /\ task_running_queue' \subseteq Tasks
           /\ running_task' \in [WorkerIds -> SUBSET Tasks]
           /\ handed' \subseteq Clients \X Tasks
           /\ starts' \in 0..MaxStarts
           /\ worker_ids' \subseteq WorkerIds
           /\ phase' \in {"down", "starting", "up", "stopped"}
      BY <1>3, <2>2 DEF StartTasks, TypeOK
    <2> QED BY <2>4, <2>5, <2>6, <2>7, <2>8, <2>9, <2>10 DEF TypeOK
  <1>4. CASE ExitDpe
    BY <1>4 DEF ExitDpe, TypeOK, RequestOK, FileOK, NoRequest, GetTaskRequests, memory
  <1>5. CASE Crash
    BY <1>5, FreshType DEF Crash, TypeOK, RequestOK, FileOK, NoRequest, GetTaskRequests
  <1>6. ASSUME NEW r \in GetTaskRequests, Receive(r)
        PROVE  TypeOK'
    BY <1>6 DEF Receive, TypeOK, RequestOK, FileOK, NoRequest, GetTaskRequests, memory
  <1>7. ASSUME NEW r \in FinishComputeRequests, Receive(r)
        PROVE  TypeOK'
    <2>1. PICK c \in Clients, S \in SUBSET Tasks : r = FinishComputeRequest(c, S)
      BY DEF FinishComputeRequests
    <2>2. r \in [kind : {"finish_compute"}, client : Clients, task_item : [S -> Int]]
      BY <2>1, AnswerAssumption DEF FinishComputeRequest
    <2> QED BY <1>7, <2>2 DEF Receive, TypeOK, RequestOK, FileOK, memory, NoRequest,
               GetTaskRequests
  <1>8. ASSUME NEW B \in SUBSET task_pending_queue, GetTask(B)
        PROVE  TypeOK'
    <2>1. context.client \in Clients /\ RequestWorker \in WorkerIds
      BY <1>8 DEF GetTask, Processing, TypeOK, RequestOK, NoRequest, GetTaskRequests,
         RequestWorker,
         WorkerIds
    <2> QED BY <1>8, <2>1 DEF GetTask, Processing, TypeOK, RequestOK, FileOK, WithoutFront,
               NoRequest, GetTaskRequests
  <1>9. CASE FinishCompute
    <2>0. context.kind = "finish_compute"
      BY <1>9 DEF FinishCompute, Processing
    <2>1. /\ status' \in [Tasks -> {"NONE", "PENDING", "RUNNING", "DONE"}]
          /\ result' \in [Tasks -> Int]
          /\ finished_task' \in [WorkerIds -> SUBSET Tasks]
          /\ worker_ids' \subseteq WorkerIds
      BY <1>9, <2>0, AfterType DEF FinishCompute, TakeResults
    <2>2. told' \in [Tasks -> Seq(Int)]
      BY <1>9, <2>0, FinishRequestType DEF FinishCompute, TakeResults, TypeOK, Accepted
    <2>3. /\ running_task' \in [WorkerIds -> SUBSET Tasks]
          /\ task_running_queue' \subseteq Tasks
          /\ task_pending_queue' \subseteq Tasks
      BY <1>9 DEF FinishCompute, TakeResults, TypeOK, StillRunning
    <2>4. FileOK(file') /\ last_save_time' \in BOOLEAN
      <3>1. FileOK(file)
        BY DEF TypeOK
      <3> QED BY <1>9, <2>0, <3>1, AfterType DEF FinishCompute, SaveState, WriteFile, TypeOK
    <2>5. /\ ui_queue' \in Seq({"ProcessRequest", "ExitDpe"})
          /\ finishes' \in Nat
      BY <1>9 DEF FinishCompute, Processing, TypeOK, WillExitDpe
    <2>6. RequestOK(context')
      BY <1>9 DEF FinishCompute, RequestOK
    <2> QED BY <1>9, <2>1, <2>2, <2>3, <2>4, <2>5, <2>6 DEF FinishCompute, TypeOK, RequestOK,
               FileOK, NoRequest, GetTaskRequests
  <1>10. CASE CrashInSave
    <2>0. context.kind = "finish_compute"
      BY <1>10 DEF CrashInSave, Processing
    <2>1. FileOK(file')
      BY <1>10, <2>0, AfterType DEF CrashInSave
    <2>2. RequestOK(context')
      BY <1>10 DEF CrashInSave, RequestOK
    <2> QED BY <1>10, <2>1, <2>2, FreshType DEF CrashInSave, TypeOK, RequestOK, FileOK,
               NoRequest, GetTaskRequests
  <1>11. CASE UNCHANGED vars
    BY <1>11 DEF vars, memory, TypeOK, RequestOK, FileOK, NoRequest, GetTaskRequests
  <1> QED BY <1>1, <1>2, <1>3, <1>4, <1>5, <1>6, <1>7, <1>8, <1>9, <1>10, <1>11 DEF Next

\* Type correctness: the variables of the master have their types in every
\* reachable state of every job.
THEOREM TypeCorrect == Spec => []TypeOK
  BY InitTypeOK, NextTypeOK, PTL DEF Spec

(***************************************************************************)
(* The inductive invariant Inv, one lemma for each group of actions.       *)
(***************************************************************************)

Closures == {"ProcessRequest", "ExitDpe"}

\* What posting a closure to the UI queue, or taking one off it, leaves there.
LEMMA Posting ==
    ASSUME NEW q \in Seq(Closures), NEW e \in Closures
    PROVE  \E n \in Nat :
             /\ n > 0
             /\ DOMAIN q = 1..(n - 1)
             /\ DOMAIN Append(q, e) = 1..n
             /\ \A i \in 1..(n - 1) : Append(q, e)[i] = q[i]
             /\ Append(q, e)[n] = e
  <1> DEFINE m == Len(q) + 1
  <1>1. /\ m \in Nat /\ m > 0 /\ m - 1 = Len(q)
        /\ DOMAIN q = 1..(m - 1)
        /\ DOMAIN Append(q, e) = 1..m
        /\ \A i \in 1..(m - 1) : Append(q, e)[i] = q[i]
        /\ Append(q, e)[m] = e
    OBVIOUS
  <1> QED BY <1>1

\* What taking the results of a report does to the maps and the queues.
LEMMA Taking ==
    ASSUME NEW q \in Seq(Closures), q # <<>>
    PROVE  /\ Head(q) = q[1] /\ Tail(q) \in Seq(Closures)
           /\ \E n \in Nat :
                /\ n > 0
                /\ DOMAIN q = 1..n
                /\ DOMAIN Tail(q) = 1..(n - 1)
                /\ \A i \in 1..(n - 1) : Tail(q)[i] = q[i + 1]
  <1> DEFINE m == Len(q)
  <1>1. /\ m \in Nat /\ m > 0
        /\ DOMAIN q = 1..m
        /\ DOMAIN Tail(q) = 1..(m - 1)
        /\ \A i \in 1..(m - 1) : Tail(q)[i] = q[i + 1]
    OBVIOUS
  <1>2. Head(q) = q[1] /\ Tail(q) \in Seq(Closures)
    OBVIOUS
  <1> HIDE DEF m
  <1> QED BY <1>1, <1>2

\* An empty memory satisfies every part of Inv that speaks of the memory only.
LEMMA FreshInv ==
    ASSUME FreshMemory, phase' # "up"
    PROVE  /\ StatusMatchesQueues'
           /\ SolverToldOnce'
           /\ FinishAfterAllResults'
           /\ FinishedJobIsSaved'
           /\ ResultsAreRight'
           /\ StartsFresh'
           /\ OwnersAreUnique'
           /\ finishes' = 0
  BY DEF FreshMemory, StatusMatchesQueues, SolverToldOnce, FinishAfterAllResults,
     FinishedJobIsSaved, ResultsAreRight, StartsFresh, OwnersAreUnique

\* Starting the process, with or without success, preserves the invariant.
LEMMA BindInv == ASSUME TypeOK, Inv, Bind \/ BindFails PROVE Inv'
  <1>1. FreshMemory /\ phase' \in {"starting", "stopped"}
    BY DEF Bind, BindFails
  <1>2. SavedResultsAreRight' /\ ReportsAreRight'
    BY DEF Bind, BindFails, Inv, SavedResultsAreRight, ReportsAreRight
  <1>3. ExitFollowsFinish'
    BY <1>1, FreshInv DEF Bind, BindFails, Inv, ExitFollowsFinish
  <1> QED BY <1>1, <1>2, <1>3, FreshInv DEF Inv

\* A crash preserves it: memory is fresh and the file is what it was.
LEMMA CrashInv == ASSUME TypeOK, Inv, Crash PROVE Inv'
  <1>1. FreshMemory /\ phase' = "down"
    BY DEF Crash
  <1>2. SavedResultsAreRight' /\ ReportsAreRight'
    BY DEF Crash, Inv, SavedResultsAreRight, ReportsAreRight, NoRequest
  <1>3. ExitFollowsFinish'
    BY <1>1, FreshInv DEF Crash, ExitFollowsFinish
  <1> QED BY <1>1, <1>2, <1>3, FreshInv DEF Inv

\* ExitDpeImpl preserves it.
LEMMA ExitInv == ASSUME TypeOK, Inv, ExitDpe PROVE Inv'
  <1>1. ExitFollowsFinish'
    BY DEF ExitDpe, memory, Inv, ExitFollowsFinish
  <1>2. ReportsAreRight'
    BY DEF ExitDpe, ReportsAreRight, NoRequest
  <1> QED BY <1>1, <1>2 DEF ExitDpe, memory, Inv, StatusMatchesQueues, SolverToldOnce,
             FinishAfterAllResults, SavedResultsAreRight, FinishedJobIsSaved,
             ResultsAreRight, StartsFresh, OwnersAreUnique

\* Receiving a request preserves it: a report carries what Compute returned.
LEMMA ReceiveInv ==
    ASSUME TypeOK, Inv, NEW r \in GetTaskRequests \cup FinishComputeRequests, Receive(r)
    PROVE  Inv'
  <1>1. ReportsAreRight'
    BY DEF Receive, ReportsAreRight, GetTaskRequests, FinishComputeRequests,
       FinishComputeRequest
  <1>2. r # NoRequest
    BY DEF GetTaskRequests, FinishComputeRequests, FinishComputeRequest, NoRequest
  <1>3. ExitFollowsFinish'
    <2>1. ui_queue \in Seq(Closures)
      BY DEF TypeOK, Closures
    <2>2. PICK n \in Nat :
             /\ n > 0
             /\ DOMAIN ui_queue = 1..(n - 1)
             /\ DOMAIN ui_queue' = 1..n
             /\ \A i \in 1..(n - 1) : ui_queue'[i] = ui_queue[i]
             /\ ui_queue'[n] = "ProcessRequest"
      BY <2>1, Posting DEF Receive, Closures
    <2>3. \A i \in 1..(n - 1) : ui_queue[i] = "ExitDpe"
      BY <2>2 DEF Receive, Inv, ExitFollowsFinish
    <2>4. /\ phase' = "up" /\ finishes' > 0 => n > 1
          /\ phase' # "stopped" /\ finishes' = 0 => n = 1
      BY <2>2, <2>3 DEF Receive, memory, Inv, ExitFollowsFinish, TypeOK
    <2>5. /\ phase' \in {"starting", "up"} /\ context' # NoRequest
          /\ finishes' \in 0..2
      BY <1>2 DEF Receive, memory, Inv, ExitFollowsFinish, TypeOK
    <2> QED BY <2>2, <2>3, <2>4, <2>5 DEF ExitFollowsFinish
  <1> QED BY <1>1, <1>3 DEF Receive, memory, Inv, StatusMatchesQueues, SolverToldOnce,
             FinishAfterAllResults, SavedResultsAreRight, FinishedJobIsSaved,
             ResultsAreRight, StartsFresh, OwnersAreUnique

\* The rest of Start preserves it: what LoadState takes over is right, and a
\* Finish goes with a posted exit.
LEMMA StartTasksInv ==
    ASSUME TypeOK, Inv, NEW read_state \in BOOLEAN, StartTasks(read_state)
    PROVE  Inv'
  <1> DEFINE done == CachedDone(read_state)
  <1>1. \A t \in done : /\ file.kind = "state"
                        /\ t \in DOMAIN file.task_item
                        /\ file.task_item[t].status = "DONE"
                        /\ file.task_item[t].result = Answer[t]
    BY DEF CachedDone, Inv, SavedResultsAreRight
  <1>2. task_running_queue' = {} /\ \A w \in WorkerIds : running_task'[w] = {}
    BY DEF StartTasks, Inv, StartsFresh
  <1>3. StatusMatchesQueues'
    BY <1>2 DEF StartTasks, StatusMatchesQueues
  <1>4. SolverToldOnce' /\ ResultsAreRight'
    BY <1>1 DEF StartTasks, SolverToldOnce, ResultsAreRight
  <1>5. \/ finishes' = 0 /\ ui_queue' = ui_queue
        \/ /\ finishes' = 1 /\ ui_queue' = Append(ui_queue, "ExitDpe")
           /\ done = Tasks /\ read_state
    BY DEF StartTasks, Inv, StartsFresh, WillExitDpe
  <1>6. FinishAfterAllResults'
    BY <1>1, <1>5 DEF StartTasks, FinishAfterAllResults
  <1>7. FinishedJobIsSaved'
    <2>1. CASE finishes' = 0
      BY <2>1 DEF FinishedJobIsSaved
    <2>2. CASE done = Tasks /\ read_state
      BY <1>1, <2>2 DEF StartTasks, FinishedJobIsSaved
    <2> QED BY <1>5, <2>1, <2>2
  <1>8. SavedResultsAreRight' /\ ReportsAreRight'
    BY DEF StartTasks, Inv, SavedResultsAreRight, ReportsAreRight
  <1>9. StartsFresh' /\ OwnersAreUnique'
    BY <1>2 DEF StartTasks, StartsFresh, OwnersAreUnique
  <1>10. ExitFollowsFinish'
    <2>1. ui_queue \in Seq(Closures)
      BY DEF TypeOK, Closures
    <2>2. \A i \in DOMAIN ui_queue : ui_queue[i] = "ProcessRequest"
      BY DEF StartTasks, Inv, ExitFollowsFinish, StartsFresh
    <2>3. CASE finishes' = 0 /\ ui_queue' = ui_queue
      BY <2>2, <2>3 DEF StartTasks, Inv, ExitFollowsFinish
    <2>4. CASE finishes' = 1 /\ ui_queue' = Append(ui_queue, "ExitDpe")
      <3>1. PICK n \in Nat :
               /\ n > 0
               /\ DOMAIN ui_queue = 1..(n - 1)
               /\ DOMAIN ui_queue' = 1..n
               /\ \A i \in 1..(n - 1) : ui_queue'[i] = ui_queue[i]
               /\ ui_queue'[n] = "ExitDpe"
        BY <2>1, <2>4, Posting DEF Closures
      <3>2. /\ phase' = "up" /\ context' = context
            /\ context = NoRequest <=> \A i \in 1..(n - 1) : ui_queue[i] = "ExitDpe"
            /\ \A i, j \in 1..(n - 1) :
                  ui_queue[i] = "ProcessRequest" /\ ui_queue[j] = "ProcessRequest" => i = j
        BY <3>1 DEF StartTasks, Inv, ExitFollowsFinish
      <3>3. \A i, j \in 1..n : ui_queue'[i] = "ProcessRequest"
                                /\ ui_queue'[j] = "ProcessRequest" => i = j
        BY <3>1, <3>2
      <3>4. context' = NoRequest <=> \A i \in 1..n : ui_queue'[i] = "ExitDpe"
        BY <3>1, <3>2
      <3> QED BY <2>4, <3>1, <3>2, <3>3, <3>4 DEF ExitFollowsFinish
    <2> QED BY <1>5, <2>3, <2>4
  <1> QED BY <1>3, <1>4, <1>6, <1>7, <1>8, <1>9, <1>10 DEF Inv

\* When a request is taken from the UI queue, only exits are left in it: none
\* before Finish, at least one after it, and Finish was called at most once.
LEMMA ProcessingQueue ==
    ASSUME TypeOK, Inv, NEW kind, Processing(kind)
    PROVE  /\ finishes \in {0, 1}
           /\ Tail(ui_queue) \in Seq(Closures)
           /\ \A i \in DOMAIN Tail(ui_queue) : Tail(ui_queue)[i] = "ExitDpe"
           /\ finishes = 0 => DOMAIN Tail(ui_queue) = {}
           /\ finishes = 1 => 1 \in DOMAIN Tail(ui_queue)
  <1>1. ui_queue \in Seq(Closures) /\ ui_queue # <<>>
    BY DEF TypeOK, Closures, Processing
  <1>2. PICK n \in Nat :
           /\ n > 0
           /\ DOMAIN ui_queue = 1..n
           /\ DOMAIN Tail(ui_queue) = 1..(n - 1)
           /\ \A i \in 1..(n - 1) : Tail(ui_queue)[i] = ui_queue[i + 1]
    BY <1>1, Taking
  <1>3. ui_queue[1] = "ProcessRequest" /\ Tail(ui_queue) \in Seq(Closures)
    BY <1>1, Taking DEF Processing
  <1>4. finishes \in {0, 1}
    BY <1>3 DEF TypeOK, Inv, ExitFollowsFinish, Processing
  <1>5. \A i \in 2..n : ui_queue[i] = "ExitDpe"
    <2> SUFFICES ASSUME NEW i \in 2..n PROVE ui_queue[i] = "ExitDpe"
      OBVIOUS
    <2>1. ui_queue[i] \in Closures
      BY <1>1, <1>2
    <2>2. ui_queue[i] # "ProcessRequest"
      BY <1>2, <1>3 DEF Inv, ExitFollowsFinish
    <2> QED BY <2>1, <2>2 DEF Closures
  <1>6. finishes = 0 => n = 1
    BY <1>2, <1>5 DEF Inv, ExitFollowsFinish, Processing
  <1>7. finishes = 1 => n > 1
    BY <1>2, <1>3 DEF Inv, ExitFollowsFinish, Processing
  <1> QED BY <1>2, <1>3, <1>4, <1>5, <1>6, <1>7

\* Handing out tasks preserves it: they move from one queue to the other and to
\* one worker's list.
LEMMA GetTaskInv ==
    ASSUME TypeOK, Inv, NEW B \in SUBSET task_pending_queue, GetTask(B)
    PROVE  Inv'
  <1> DEFINE w == RequestWorker
  <1>0. w \in WorkerIds
    BY DEF GetTask, Processing, TypeOK, RequestOK, NoRequest, GetTaskRequests, WorkerIds,
       RequestWorker
  <1>1. StatusMatchesQueues'
    BY DEF GetTask, Processing, Inv, StatusMatchesQueues, TypeOK, WithoutFront
  <1>2. \A t \in B : status[t] = "PENDING" /\ told[t] = <<>>
    BY DEF GetTask, Processing, Inv, StatusMatchesQueues, SolverToldOnce, TypeOK
  <1>3. SolverToldOnce' /\ ResultsAreRight'
    BY <1>2 DEF GetTask, Processing, Inv, SolverToldOnce, ResultsAreRight
  <1>4. FinishAfterAllResults' /\ FinishedJobIsSaved' /\ SavedResultsAreRight' /\ StartsFresh'
    BY DEF GetTask, Processing, Inv, FinishAfterAllResults, FinishedJobIsSaved,
       SavedResultsAreRight, StartsFresh
  <1>5. ReportsAreRight'
    BY DEF GetTask, ReportsAreRight, NoRequest
  <1>6. OwnersAreUnique'
    <2>1. \A v \in WorkerIds : running_task'[v] = IF v = w THEN running_task[v] \cup B
                                                           ELSE running_task[v]
      BY <1>0 DEF GetTask, TypeOK
    <2> SUFFICES ASSUME NEW t \in Tasks
                 PROVE  /\ t \in task_pending_queue' =>
                             \A v \in WorkerIds : t \notin running_task'[v]
                        /\ t \in task_running_queue' =>
                             \E v \in WorkerIds : t \in running_task'[v]
                        /\ \A u, v \in WorkerIds :
                             t \in running_task'[u] /\ t \in running_task'[v] => u = v
      BY DEF OwnersAreUnique
    <2>2. /\ t \in task_pending_queue => \A v \in WorkerIds : t \notin running_task[v]
          /\ t \in task_running_queue => \E v \in WorkerIds : t \in running_task[v]
          /\ \A u, v \in WorkerIds :
                t \in running_task[u] /\ t \in running_task[v] => u = v
      BY DEF Inv, OwnersAreUnique
    <2>3. /\ task_pending_queue' = task_pending_queue \ B
          /\ task_running_queue' = task_running_queue \cup B
      BY DEF GetTask, WithoutFront
    <2> QED BY <1>0, <2>1, <2>2, <2>3
  <1>7. ExitFollowsFinish'
    BY ProcessingQueue DEF GetTask, Processing, ExitFollowsFinish
  <1> QED BY <1>1, <1>3, <1>4, <1>5, <1>6, <1>7 DEF Inv

\* After a finish_compute a task is DONE if it was, or if it is accepted now, and
\* then task_map_ holds its right result; so does the state that is saved, and
\* every state that saving it half way can leave.
LEMMA AfterIsRight ==
    ASSUME TypeOK, Inv, Processing("finish_compute")
    PROVE  /\ \A t \in Accepted : t \in Tasks /\ context.task_item[t] = Answer[t]
           /\ \A t \in Tasks : StatusAfter[t] = "DONE" => ResultAfter[t] = Answer[t]
           /\ \A f \in {StateText} \cup CutShort(StateText) :
                 f.kind = "state" =>
                    \A t \in DOMAIN f.task_item :
                       f.task_item[t].status = "DONE" => f.task_item[t].result = Answer[t]
  <1>1. \A t \in Accepted : t \in Tasks /\ context.task_item[t] = Answer[t]
    BY DEF Accepted, TypeOK, Inv, ReportsAreRight, Processing
  <1>2. \A t \in Tasks : StatusAfter[t] = "DONE" => ResultAfter[t] = Answer[t]
    BY <1>1 DEF StatusAfter, ResultAfter, Inv, ResultsAreRight, Processing
  <1> DEFINE items == [t \in Tasks |-> [status |-> StatusAfter[t],
                                        result |-> ResultAfter[t]]]
             workers == [v \in WorkersAfter |-> FinishedAfter[v]]
  <1>3. \A t \in Tasks : items[t].status = "DONE" => items[t].result = Answer[t]
    BY <1>2
  <1>4. StateText = SavedState(items, workers) /\ DOMAIN items = Tasks
    BY DEF StateText
  <1> HIDE DEF items, workers
  <1>5. ASSUME NEW f \in {StateText} \cup CutShort(StateText), f.kind = "state",
               NEW t \in DOMAIN f.task_item, f.task_item[t].status = "DONE"
        PROVE  f.task_item[t].result = Answer[t]
    <2>1. StateText.task_item = items /\ f # Unparsable
      BY <1>4, <1>5 DEF SavedState, Unparsable
    <2>2. CASE f.task_item = items
      <3>1. t \in Tasks
        BY <1>4, <1>5, <2>2
      <3> QED BY <1>3, <1>5, <2>2, <3>1
    <2>3. ASSUME NEW k \in Tasks,
                 f.task_item = [u \in {v \in Tasks : v < k} |-> items[u]]
          PROVE  f.task_item[t].result = Answer[t]
      BY <1>3, <1>5, <2>3
    <2>4. \/ f.task_item = items
          \/ \E k \in Tasks : f.task_item = [u \in {v \in Tasks : v < k} |-> items[u]]
      <3>1. CASE f = StateText
        BY <2>1, <3>1
      <3>2. CASE \E k \in Tasks :
                    f = SavedState([u \in {v \in Tasks : v < k} |-> items[u]], <<>>)
        BY <3>2 DEF SavedState
      <3>3. CASE \E W : f = SavedState(items, W)
        BY <3>3 DEF SavedState
      <3> QED BY <2>1, <3>1, <3>2, <3>3 DEF CutShort
    <2> QED BY <2>2, <2>3, <2>4
  <1> QED BY <1>1, <1>2, <1>5

\* A report preserves it: what is accepted is DONE, told once and saved right, and
\* the second Finish finds the exit at the head of the queue.
LEMMA FinishComputeInv == ASSUME TypeOK, Inv, FinishCompute PROVE Inv'
  <1> DEFINE w == RequestWorker
             D == DOMAIN context.task_item
  <1>0. Processing("finish_compute") /\ phase = "up" /\ phase' = "up" /\ w \in WorkerIds
    BY FinishRequestType DEF FinishCompute, Processing
  <1>1. /\ task_running_queue' = task_running_queue \ Accepted
        /\ task_pending_queue' = task_pending_queue
        /\ status' = StatusAfter /\ result' = ResultAfter
        /\ told' = [t \in Tasks |-> IF t \in Accepted
                                    THEN Append(told[t], context.task_item[t])
                                    ELSE told[t]]
    BY DEF FinishCompute, TakeResults
  <1>2. /\ \A t \in Accepted : t \in Tasks /\ t \in task_running_queue /\ t \in D
        /\ Accepted = D \cap task_running_queue
    BY DEF Accepted, TypeOK
  <1>3. StatusMatchesQueues'
    BY <1>0, <1>1, <1>2 DEF Inv, StatusMatchesQueues, StatusAfter
  <1>4. ResultsAreRight'
    BY <1>0, <1>1, AfterIsRight DEF ResultsAreRight
  <1>5. SolverToldOnce'
    <2>1. ASSUME NEW t \in Accepted PROVE told'[t] = <<Answer[t]>> /\ status'[t] = "DONE"
      <3>1. told[t] = <<>>
        BY <1>0, <1>2 DEF Inv, StatusMatchesQueues, SolverToldOnce
      <3>2. context.task_item[t] = Answer[t] /\ t \in Tasks
        BY <1>0, AfterIsRight
      <3>3. told'[t] = Append(<< >>, Answer[t])
        BY <1>1, <3>1, <3>2
      <3> QED BY <1>1, <3>2, <3>3 DEF StatusAfter
    <2>2. ASSUME NEW t \in Tasks \ Accepted
          PROVE  told'[t] = told[t] /\ status'[t] = status[t]
      BY <1>1 DEF StatusAfter
    <2> QED BY <1>0, <2>1, <2>2 DEF Inv, SolverToldOnce
  <1>6. AllDone <=> \A t \in Tasks : status'[t] = "DONE"
    <2>1. AllDone <=> task_pending_queue' = {} /\ task_running_queue' = {}
      BY <1>1 DEF AllDone
    <2>2. task_pending_queue' \subseteq Tasks /\ task_running_queue' \subseteq Tasks
      BY <1>1 DEF TypeOK
    <2> QED BY <1>0, <1>3, <2>1, <2>2 DEF StatusMatchesQueues
  <1>7. finishes > 0 => AllDone
    <2> SUFFICES ASSUME finishes > 0, NEW t \in Tasks PROVE status'[t] = "DONE"
      BY <1>6
    <2>1. told[t] = <<Answer[t]>>
      BY DEF Inv, FinishAfterAllResults
    <2>2. status[t] = "DONE"
      <3>1. <<Answer[t]>> # << >>
        OBVIOUS
      <3> QED BY <1>0, <2>1, <3>1 DEF Inv, SolverToldOnce
    <2> QED BY <1>1, <2>2 DEF StatusAfter
  <1>8. finishes' > 0 => AllDone
    BY <1>7 DEF FinishCompute
  <1>9. FinishAfterAllResults'
    BY <1>0, <1>5, <1>6, <1>8 DEF FinishAfterAllResults, SolverToldOnce
  <1>10. SavedResultsAreRight'
    <2>1. file' \in {file, StateText} \cup CutShort(StateText)
      BY DEF FinishCompute, SaveState, WriteFile
    <2> QED BY <1>0, <2>1, AfterIsRight DEF Inv, SavedResultsAreRight
  <1>11. FinishedJobIsSaved'
    <2> SUFFICES ASSUME finishes' > 0, ~DiskFaults, NEW t \in Tasks
                 PROVE  /\ file'.kind = "state"
                        /\ t \in DOMAIN file'.task_item
                        /\ file'.task_item[t].status = "DONE"
      BY DEF FinishedJobIsSaved
    <2>1. AllDone /\ StatusAfter[t] = "DONE"
      BY <1>1, <1>6, <1>8
    <2>2. file' = StateText
      BY <2>1 DEF FinishCompute, SaveState, WriteFile
    <2> QED BY <2>1, <2>2 DEF StateText, SavedState
  <1>12. ReportsAreRight' /\ StartsFresh'
    BY <1>0 DEF FinishCompute, ReportsAreRight, StartsFresh, NoRequest
  <1>13. OwnersAreUnique'
    <2>1. \A v \in WorkerIds : running_task'[v] = IF v = w THEN running_task[v] \ D
                                                           ELSE running_task[v]
      BY <1>0 DEF FinishCompute, TakeResults, TypeOK, StillRunning
    <2> SUFFICES ASSUME NEW t \in Tasks
                 PROVE  /\ t \in task_pending_queue' =>
                             \A v \in WorkerIds : t \notin running_task'[v]
                        /\ t \in task_running_queue' =>
                             \E v \in WorkerIds : t \in running_task'[v]
                        /\ \A u, v \in WorkerIds :
                             t \in running_task'[u] /\ t \in running_task'[v] => u = v
      BY DEF OwnersAreUnique
    <2>2. /\ t \in task_pending_queue => \A v \in WorkerIds : t \notin running_task[v]
          /\ t \in task_running_queue => \E v \in WorkerIds : t \in running_task[v]
          /\ \A u, v \in WorkerIds :
                t \in running_task[u] /\ t \in running_task[v] => u = v
      BY DEF Inv, OwnersAreUnique
    <2> HIDE DEF w, D
    <2>3. t \in task_running_queue' => t \in task_running_queue /\ t \notin D
      BY <1>1, <1>2
    <2> QED BY <1>1, <2>1, <2>2, <2>3
  <1>14. ExitFollowsFinish'
    <2>1. /\ finishes \in {0, 1}
          /\ Tail(ui_queue) \in Seq(Closures)
          /\ \A i \in DOMAIN Tail(ui_queue) : Tail(ui_queue)[i] = "ExitDpe"
          /\ finishes = 0 => DOMAIN Tail(ui_queue) = {}
      BY <1>0, ProcessingQueue
    <2>2. context' = NoRequest
      BY DEF FinishCompute
    <2>3. CASE AllDone
      <3>1. ui_queue' = Append(Tail(ui_queue), "ExitDpe") /\ finishes' = finishes + 1
        BY <2>3 DEF FinishCompute, WillExitDpe
      <3>2. PICK n \in Nat :
               /\ n > 0
               /\ DOMAIN Tail(ui_queue) = 1..(n - 1)
               /\ DOMAIN ui_queue' = 1..n
               /\ \A i \in 1..(n - 1) : ui_queue'[i] = Tail(ui_queue)[i]
               /\ ui_queue'[n] = "ExitDpe"
        BY <2>1, <3>1, Posting DEF Closures
      <3>3. ASSUME NEW i \in 1..n PROVE ui_queue'[i] = "ExitDpe"
        <4>1. CASE i = n
          BY <3>2, <4>1
        <4>2. CASE i # n
          <5>1. i \in 1..(n - 1)
            BY <4>2
          <5> QED BY <2>1, <3>2, <5>1
        <4> QED BY <4>1, <4>2
      <3>4. ui_queue'[1] = "ExitDpe" /\ 1 \in DOMAIN ui_queue'
        BY <3>2, <3>3
      <3>5. finishes' \in {1, 2}
        BY <2>1, <3>1
      <3> QED BY <1>0, <2>2, <3>2, <3>3, <3>4, <3>5 DEF ExitFollowsFinish
    <2>4. CASE ~AllDone
      <3>1. ui_queue' = Tail(ui_queue) /\ finishes' = finishes /\ finishes = 0
        BY <1>7, <2>1, <2>4 DEF FinishCompute
      <3> QED BY <1>0, <2>1, <2>2, <3>1 DEF ExitFollowsFinish
    <2> QED BY <2>3, <2>4
  <1> QED BY <1>3, <1>4, <1>5, <1>9, <1>10, <1>11, <1>12, <1>13, <1>14 DEF Inv

\* A crash inside a save preserves it: every prefix of the text is right.
LEMMA CrashInSaveInv == ASSUME TypeOK, Inv, CrashInSave PROVE Inv'
  <1>1. FreshMemory /\ phase' = "down" /\ Processing("finish_compute")
    BY DEF CrashInSave
  <1>2. SavedResultsAreRight' /\ ReportsAreRight'
    BY <1>1, AfterIsRight DEF CrashInSave, SavedResultsAreRight, ReportsAreRight, NoRequest
  <1>3. ExitFollowsFinish'
    BY <1>1, FreshInv DEF CrashInSave, ExitFollowsFinish
  <1> QED BY <1>1, <1>2, <1>3, FreshInv DEF Inv

\* Inv is inductive.
LEMMA NextInv == TypeOK /\ Inv /\ [Next]_vars => Inv'
  <1> SUFFICES ASSUME TypeOK, Inv, [Next]_vars
               PROVE  Inv'
    OBVIOUS
  <1>1. CASE UNCHANGED vars
    BY <1>1 DEF vars, memory, Inv, StatusMatchesQueues, SolverToldOnce,
       FinishAfterAllResults, SavedResultsAreRight, FinishedJobIsSaved, ReportsAreRight,
       ResultsAreRight, StartsFresh, OwnersAreUnique, ExitFollowsFinish
  <1> QED BY <1>1, BindInv, StartTasksInv, ExitInv, CrashInv, ReceiveInv, GetTaskInv,
             FinishComputeInv, CrashInSaveInv DEF Next

\* The invariant holds before the first start.
LEMMA InitInv == Init => Inv
  BY DEF Init, Inv, NoFile, NoRequest, StatusMatchesQueues, SolverToldOnce,
     FinishAfterAllResults, SavedResultsAreRight, FinishedJobIsSaved, ReportsAreRight,
     ResultsAreRight, StartsFresh, OwnersAreUnique, ExitFollowsFinish

\* The inductive invariant holds in every reachable state of every job.
THEOREM Invariance == Spec => []Inv
  BY InitInv, NextInv, TypeCorrect, PTL DEF Spec

\* Whatever is lost, cut short, reported late or reported twice, the Solver is
\* told the right result of every DONE task, exactly once in a process.
THEOREM ToldOnce == Spec => []SolverToldOnce
  <1>1. Inv => SolverToldOnce
    BY DEF Inv
  <1> QED BY <1>1, Invariance, PTL

\* Every task is in the queue that its status names, once Start is over.
THEOREM QueuesMatch == Spec => []StatusMatchesQueues
  <1>1. Inv => StatusMatchesQueues
    BY DEF Inv
  <1> QED BY <1>1, Invariance, PTL

\* The Solver hears of the end of the job only after every result.
THEOREM FinishIsLast == Spec => []FinishAfterAllResults
  <1>1. Inv => FinishAfterAllResults
    BY DEF Inv
  <1> QED BY <1>1, Invariance, PTL

\* No process calls Solver::Finish a third time.
THEOREM FinishTwiceAtMost == Spec => []FinishAtMostTwice
  <1>1. Inv => FinishAtMostTwice
    BY DEF Inv, ExitFollowsFinish, FinishAtMostTwice
  <1> QED BY <1>1, Invariance, PTL

\* A RUNNING task is on the list of one worker, and of no other.
THEOREM OneOwner == Spec => []RunningHasOneOwner
  <1>1. TypeOK /\ Inv => RunningHasOneOwner
    BY DEF TypeOK, Inv, OwnersAreUnique, RunningHasOneOwner
  <1> QED BY <1>1, TypeCorrect, Invariance, PTL

\* What LoadState reads as DONE has the right result.
THEOREM FileIsRight == Spec => []SavedResultsAreRight
  <1>1. Inv => SavedResultsAreRight
    BY DEF Inv
  <1> QED BY <1>1, Invariance, PTL

\* With a working disk a finished job is completely saved.
THEOREM FinishIsSaved == Spec => []FinishedJobIsSaved
  <1>1. Inv => FinishedJobIsSaved
    BY DEF Inv
  <1> QED BY <1>1, Invariance, PTL

-----------------------------------------------------------------------------
(***************************************************************************)
(* The master implements JobCheckpoint.                                    *)
(***************************************************************************)
Known == {t \in Tasks : told[t] # <<>>}

Saved ==
    IF file.kind = "state"
    THEN {t \in DOMAIN file.task_item : file.task_item[t].status = "DONE"}
    ELSE {}

Announced == finishes > 0

\* What the steps of JobCheckpoint say of the mapped variables.
MappedLoad ==
    /\ Known = {} /\ ~Announced
    /\ Known' = Saved \/ Known' = {}
    /\ Announced' => Known' = Tasks
    /\ Saved' = Saved

MappedLearn ==
    /\ \E R \in SUBSET (Tasks \ Known) : Known' = Known \cup R
    /\ Announced' <=> Announced \/ Known' = Tasks
    /\ \/ Saved' = Known'
       \/ ~Announced' /\ Saved' = Saved
       \/ DiskFaults /\ (Saved' = Saved \/ Saved' \subseteq Known')

MappedLose ==
    /\ Known' = {}
    /\ ~Announced'
    /\ Saved' = Saved \/ Saved' \subseteq Tasks

\* The abstract state of JobCheckpoint in terms of the master's invariant: what
\* is known is what is DONE.
LEMMA Mapping ==
    ASSUME MappedLoad \/ MappedLearn \/ MappedLose
    PROVE  Checkpoint!Next
  <1>1. Announced \in BOOLEAN /\ Announced' \in BOOLEAN
    BY DEF Announced
  <1>2. MappedLoad => Checkpoint!Load
    BY <1>1 DEF MappedLoad, Checkpoint!Load, Known, Saved, Announced
  <1>3. MappedLearn => Checkpoint!Learn
    BY <1>1 DEF MappedLearn, Checkpoint!Learn, Known, Saved, Announced
  <1>4. MappedLose => Checkpoint!Lose
    BY <1>1 DEF MappedLose, Checkpoint!Lose, Known, Saved, Announced
  <1> QED BY <1>2, <1>3, <1>4 DEF Checkpoint!Next

\* A task without a result is not a task with one.
LEMMA NotEmpty == \A x : <<x>> # <<>>
  OBVIOUS

\* While the process is up, the Solver knows exactly the DONE tasks.
LEMMA KnownIsDone ==
    ASSUME SolverToldOnce, phase = "up"
    PROVE  Known = {t \in Tasks : status[t] = "DONE"}
  BY NotEmpty DEF SolverToldOnce, Known

\* Every file has its results among the tasks.
LEMMA SavedType == ASSUME FileOK(file) PROVE Saved \subseteq Tasks
  BY DEF FileOK, Saved, NoFile, Unparsable

\* A process that has lost its memory, or has not begun, is at Lose.
LEMMA FreshIsLose ==
    ASSUME FreshMemory, Saved' = Saved \/ Saved' \subseteq Tasks
    PROVE  MappedLose
  BY DEF FreshMemory, MappedLose, Known, Announced

\* Start, with or without the saved state, is a Load.
LEMMA StartIsLoad ==
    ASSUME TypeOK, Inv, NEW read_state \in BOOLEAN, StartTasks(read_state)
    PROVE  MappedLoad
  <1> DEFINE done == CachedDone(read_state)
  <1>1. Known = {} /\ ~Announced
    BY DEF StartTasks, Inv, StartsFresh, Known, Announced
  <1>2. Known' = done
    <2>1. done \subseteq Tasks
      BY DEF CachedDone
    <2>2. \A t \in Tasks : told'[t] = IF t \in done THEN <<file.task_item[t].result>>
                                                    ELSE <<>>
      BY DEF StartTasks
    <2> HIDE DEF done
    <2> QED BY <2>1, <2>2, NotEmpty DEF Known
  <1>3. done = Saved \/ done = {}
    <2>1. Saved \subseteq Tasks
      BY SavedType DEF TypeOK
    <2> QED BY <2>1 DEF CachedDone, Saved
  <1>4. Announced' => done = Tasks
    BY DEF StartTasks, Announced, Inv, StartsFresh
  <1>5. Saved' = Saved
    BY DEF StartTasks, Saved
  <1> QED BY <1>1, <1>2, <1>3, <1>4, <1>5 DEF MappedLoad

\* What a save that is complete, or cut short, leaves on disk.
LEMMA SavedAfter ==
    ASSUME TypeOK, context.kind = "finish_compute"
    PROVE  /\ file' = StateText => Saved' = {t \in Tasks : StatusAfter[t] = "DONE"}
           /\ file' \in CutShort(StateText) =>
                 Saved' \subseteq {t \in Tasks : StatusAfter[t] = "DONE"}
  <1> DEFINE items == [t \in Tasks |-> [status |-> StatusAfter[t],
                                        result |-> ResultAfter[t]]]
             workers == [v \in WorkersAfter |-> FinishedAfter[v]]
  <1>1. StateText = SavedState(items, workers)
    BY DEF StateText
  <1>2. DOMAIN items = Tasks /\ \A t \in Tasks : items[t].status = StatusAfter[t]
    OBVIOUS
  <1> HIDE DEF items, workers
  <1>3. ASSUME file' = StateText PROVE Saved' = {t \in Tasks : StatusAfter[t] = "DONE"}
    BY <1>1, <1>2, <1>3 DEF Saved, SavedState
  <1>4. ASSUME file' \in CutShort(StateText)
        PROVE  Saved' \subseteq {t \in Tasks : StatusAfter[t] = "DONE"}
    <2>1. StateText.task_item = items
      BY <1>1 DEF SavedState
    <2>2. CASE file' = Unparsable
      BY <2>2 DEF Saved, Unparsable
    <2>3. CASE \E k \in Tasks :
                  file' = SavedState([u \in {v \in Tasks : v < k} |-> items[u]], <<>>)
      BY <1>2, <2>3 DEF Saved, SavedState
    <2>4. CASE \E W : file' = SavedState(items, W)
      BY <1>2, <2>4 DEF Saved, SavedState
    <2> QED BY <1>4, <2>1, <2>2, <2>3, <2>4 DEF CutShort
  <1> QED BY <1>3, <1>4

\* A finish_compute, whatever it accepts and however it is saved, is a Learn.
LEMMA FinishIsLearn ==
    ASSUME TypeOK, Inv, Inv', FinishCompute
    PROVE  MappedLearn
  <1>0. /\ Processing("finish_compute") /\ context.kind = "finish_compute"
        /\ phase = "up" /\ phase' = "up" /\ status' = StatusAfter
    BY DEF FinishCompute, Processing, TakeResults
  <1>1. /\ Known = {t \in Tasks : status[t] = "DONE"}
        /\ Known' = {t \in Tasks : StatusAfter[t] = "DONE"}
    <2>1. SolverToldOnce /\ SolverToldOnce'
      BY DEF Inv
    <2>2. Known = {t \in Tasks : status[t] = "DONE"}
      BY <1>0, <2>1, KnownIsDone
    <2>3. Known' = {t \in Tasks : status'[t] = "DONE"}
      BY <1>0, <2>1, NotEmpty DEF SolverToldOnce, Known
    <2> QED BY <1>0, <2>2, <2>3
  <1>2. \E R \in SUBSET (Tasks \ Known) : Known' = Known \cup R
    <2> DEFINE R == Known' \ Known
    <2>1. Known \subseteq Known' /\ R \in SUBSET (Tasks \ Known)
      BY <1>1 DEF StatusAfter
    <2> QED BY <2>1
  <1>3. AllDone <=> Known' = Tasks
    <2>1. StatusMatchesQueues'
      BY DEF Inv
    <2>2. AllDone <=> task_pending_queue' = {} /\ task_running_queue' = {}
      BY DEF AllDone, FinishCompute, TakeResults
    <2>3. task_pending_queue' \subseteq Tasks /\ task_running_queue' \subseteq Tasks
      BY DEF TypeOK, FinishCompute, TakeResults
    <2>4. AllDone <=> \A t \in Tasks : status'[t] = "DONE"
      BY <1>0, <2>1, <2>2, <2>3 DEF StatusMatchesQueues
    <2> QED BY <1>0, <1>1, <2>4
  <1>4. Announced' <=> Announced \/ Known' = Tasks
    BY <1>3 DEF Announced, FinishCompute, TypeOK
  <1>5. \/ file' = StateText
        \/ ~AllDone /\ file' = file
        \/ DiskFaults /\ (file' = file \/ file' \in CutShort(StateText))
    BY DEF FinishCompute, SaveState, WriteFile
  <1>6. ~AllDone => ~Announced'
    <2>1. Announced' => \A t \in Tasks : status'[t] = "DONE"
      BY <1>0, NotEmpty DEF Inv, FinishAfterAllResults, SolverToldOnce, Announced
    <2> QED BY <1>0, <1>1, <1>3, <2>1
  <1>7. \/ Saved' = Known'
        \/ ~Announced' /\ Saved' = Saved
        \/ DiskFaults /\ (Saved' = Saved \/ Saved' \subseteq Known')
    <2>1. file' = file => Saved' = Saved
      BY DEF Saved
    <2> QED BY <1>0, <1>1, <1>5, <1>6, <2>1, SavedAfter
  <1> QED BY <1>2, <1>4, <1>7 DEF MappedLearn

\* The master implements the checkpointed set of results: for every job, what
\* the Solver is told, what is saved and when the end is announced is as
\* JobCheckpoint says.
THEOREM ImplementsCheckpoint == Spec => CheckpointSpec
  <1>1. Init => Checkpoint!Init
    BY DEF Init, Checkpoint!Init, NoFile
  <1>2. TypeOK /\ TypeOK' /\ Inv /\ Inv' /\ [Next]_vars => [Checkpoint!Next]_(Checkpoint!vars)
    <2> SUFFICES ASSUME TypeOK, TypeOK', Inv, Inv', [Next]_vars
                 PROVE  MappedLoad \/ MappedLearn \/ MappedLose
                        \/ UNCHANGED <<Known, Saved, Announced>>
      BY Mapping DEF Checkpoint!vars, Known, Saved, Announced
    <2>1. CASE Bind \/ BindFails \/ Crash
      <3>1. FreshMemory /\ file' = file
        BY <2>1 DEF Bind, BindFails, Crash
      <3> QED BY <3>1, FreshIsLose DEF Saved
    <2>2. CASE \E read_state \in BOOLEAN : StartTasks(read_state)
      BY <2>2, StartIsLoad
    <2>3. CASE \/ ExitDpe
               \/ \E r \in GetTaskRequests \cup FinishComputeRequests : Receive(r)
               \/ \E B \in SUBSET task_pending_queue : GetTask(B)
               \/ UNCHANGED vars
      BY <2>3 DEF ExitDpe, Receive, GetTask, vars, memory, Known, Saved, Announced
    <2>4. CASE FinishCompute
      BY <2>4, FinishIsLearn
    <2>5. CASE CrashInSave
      <3>1. FreshMemory /\ file' \in CutShort(StateText) /\ context.kind = "finish_compute"
        BY <2>5 DEF CrashInSave, Processing
      <3>2. Saved' \subseteq Tasks
        BY <3>1, SavedAfter
      <3> QED BY <3>1, <3>2, FreshIsLose
    <2> QED BY <2>1, <2>2, <2>3, <2>4, <2>5 DEF Next
  <1> QED BY <1>1, <1>2, TypeCorrect, Invariance, PTL
          DEF Spec, CheckpointSpec, Checkpoint!Spec

-----------------------------------------------------------------------------
(***************************************************************************)
(* The inductive invariant.                                                *)
(***************************************************************************)
HandedTo(c) == {t \in Tasks : <<c, t>> \in handed}

AnswerEvents ==
    [kind : {"get_task", "finish_compute"}, client : Clients, ok : BOOLEAN,
     tasks : SUBSET Tasks]
ComputedEvents == [kind : {"computed"}, client : Clients]
WorkerEvents == {Exit} \cup AnswerEvents \cup ComputedEvents

LoopStates == {"new", "get_task", "finish_compute", "answered", "compute",
               "computed", "over"}

WorkersTyped ==
    /\ process \in [Processes -> {"new", "up", "leaving", "exited", "crashed"}]
    /\ events \in [Processes -> Seq(WorkerEvents)]
    /\ running_task_count \in [Processes -> Nat]
    /\ loop \in [Clients -> LoopStates]
    /\ batch \in [Clients -> SUBSET Tasks]
    /\ replies \subseteq [client : Clients, tasks : SUBSET Tasks]

\* What a loop is given, computes and reports are tasks the master handed to it;
\* a loop that computes has something to compute.
WorkersAreGivenTasks ==
    /\ requests \subseteq GetTaskRequests \cup FinishComputeRequests
    /\ \A m \in replies : m.tasks \subseteq HandedTo(m.client)
    /\ \A p \in Processes : \A i \in 1..Len(events[p]) :
          events[p][i].kind = "get_task" =>
              events[p][i].tasks \subseteq HandedTo(events[p][i].client)
    /\ \A c \in Clients : batch[c] \subseteq HandedTo(c)
    /\ \A c \in Clients : loop[c] \in {"compute", "computed"} => batch[c] # {}

\* A loop has at most one closure on the UI thread of its process, and waits
\* for nothing else then.
LoopsMatchEvents ==
    \A p \in Processes :
        /\ \A i \in 1..Len(events[p]) : events[p][i] # Exit =>
              /\ Process[events[p][i].client] = p
              /\ loop[events[p][i].client] = IF events[p][i].kind = "computed"
                                             THEN "computed" ELSE "answered"
        /\ \A i, j \in 1..Len(events[p]) :
              events[p][i] # Exit /\ events[p][j] # Exit
              /\ events[p][i].client = events[p][j].client => i = j

\* Before a process is started and after it is gone its loops do nothing.
LoopsMatchProcess ==
    \A c \in Clients :
        /\ process[Process[c]] = "new" => loop[c] = "new"
        /\ process[Process[c]] \in {"exited", "crashed"} => loop[c] = "over"

Computing(p) == {c \in ClientsOf(p) : loop[c] \in {"compute", "computed"}}

CountsMatch ==
    \A p \in Processes :
        /\ process[p] = "new" => running_task_count[p] = 0
        /\ NodeAlive(p) => running_task_count[p] = Cardinality(Computing(p))

\* S is no more than client c may be given.
Fits(c, S) ==
    BatchSize[Process[c]] > 0 => Cardinality(S) <= BatchSize[Process[c]]

AsksForItsSize(r) ==
    r.kind = "get_task" /\ BatchSize[Process[r.client]] > 0 =>
        r.max_task_count = BatchSize[Process[r.client]]

SizesRespected ==
    /\ \A r \in requests : AsksForItsSize(r)
    /\ AsksForItsSize(context)
    /\ \A m \in replies : Fits(m.client, m.tasks)
    /\ \A p \in Processes : \A i \in 1..Len(events[p]) :
          events[p][i].kind = "get_task" =>
              Fits(events[p][i].client, events[p][i].tasks)
    /\ \A c \in Clients : Fits(c, batch[c])

WorkerInv ==
    /\ WorkersTyped
    /\ WorkersAreGivenTasks
    /\ LoopsMatchEvents
    /\ LoopsMatchProcess
    /\ CountsMatch
    /\ SizesRespected

\* While the first process of the master lives, a task is pending or was handed
\* out, once.
HandedOnce ==
    /\ starts = 0 => phase = "down" /\ handed = {}
    /\ starts = 1 /\ phase = "starting" => handed = {}
    /\ starts = 1 => \A c \in Clients : \A t \in task_pending_queue :
                         <<c, t>> \notin handed
    /\ NoTaskComputedTwice

-----------------------------------------------------------------------------
(***************************************************************************)
(* Events of a worker process.                                             *)
(***************************************************************************)
\* What the kind of an event says about its other fields.
LEMMA EventKinds ==
    /\ Exit \in WorkerEvents
    /\ \A e \in WorkerEvents :
          /\ e.kind = "exit" => e = Exit
          /\ e.kind = "computed" => e # Exit /\ e.client \in Clients
          /\ e.kind \in {"get_task", "finish_compute"} =>
                e # Exit /\ e.client \in Clients /\ e.ok \in BOOLEAN /\ e.tasks \subseteq Tasks
          /\ e # Exit => e.client \in Clients
                         /\ e.kind \in {"get_task", "finish_compute", "computed"}
  <1>1. Exit \in WorkerEvents /\ Exit.kind = "exit"
    BY DEF WorkerEvents, Exit
  <1>2. ASSUME NEW e \in AnswerEvents
        PROVE  /\ e.kind \in {"get_task", "finish_compute"}
               /\ e.client \in Clients /\ e.ok \in BOOLEAN /\ e.tasks \subseteq Tasks
    BY DEF AnswerEvents
  <1>3. ASSUME NEW e \in ComputedEvents
        PROVE  e.kind = "computed" /\ e.client \in Clients
    BY DEF ComputedEvents
  <1> QED
    BY <1>1, <1>2, <1>3 DEF WorkerEvents

\* An event e is posted to process p.
LEMMA PostFacts ==
    ASSUME events \in [Processes -> Seq(WorkerEvents)], NEW p \in Processes,
           NEW e \in WorkerEvents, events' = Post(p, e)
    PROVE  /\ events' \in [Processes -> Seq(WorkerEvents)]
           /\ \A q \in Processes : q # p => events'[q] = events[q]
           /\ Len(events[p]) \in Nat /\ Len(events'[p]) = Len(events[p]) + 1
           /\ \A i \in 1..Len(events[p]) : events'[p][i] = events[p][i]
           /\ events'[p][Len(events[p]) + 1] = e
  <1>1. events[p] \in Seq(WorkerEvents)
    OBVIOUS
  <1>2. events'[p] = Append(events[p], e) /\ \A q \in Processes : q # p => events'[q] = events[q]
    BY DEF Post
  <1>3. events' \in [Processes -> Seq(WorkerEvents)]
    BY <1>1, AppendFacts DEF Post
  <1> QED
    BY <1>1, <1>2, <1>3, AppendFacts

\* The first event of process p is handled; an exit may be posted.
TakesEvent(p) ==
    \/ events' = [events EXCEPT ![p] = Tail(@)]
    \/ events' = [events EXCEPT ![p] = Append(Tail(@), Exit)]

LEMMA TakeFacts ==
    ASSUME events \in [Processes -> Seq(WorkerEvents)], NEW p \in Processes,
           events[p] # <<>>, TakesEvent(p)
    PROVE  /\ events' \in [Processes -> Seq(WorkerEvents)]
           /\ \A q \in Processes : q # p => events'[q] = events[q]
           /\ Event(p) = events[p][1] /\ Event(p) \in WorkerEvents
           /\ Len(events[p]) \in Nat /\ 1 \in 1..Len(events[p])
           /\ \A i \in 1..Len(events'[p]) :
                \/ events'[p][i] = Exit
                \/ i + 1 \in 1..Len(events[p]) /\ events'[p][i] = events[p][i + 1]
  <1>1. /\ events[p] \in Seq(WorkerEvents)
        /\ Tail(events[p]) \in Seq(WorkerEvents)
        /\ Len(events[p]) > 0 /\ Head(events[p]) = events[p][1]
        /\ events[p][1] \in WorkerEvents
        /\ Len(Tail(events[p])) = Len(events[p]) - 1
        /\ \A i \in 1..(Len(events[p]) - 1) : Tail(events[p])[i] = events[p][i + 1]
    BY TailFacts
  <1>2. CASE events' = [events EXCEPT ![p] = Tail(@)]
    BY <1>1, <1>2 DEF Event
  <1>3. CASE events' = [events EXCEPT ![p] = Append(Tail(@), Exit)]
    <2> DEFINE q == Tail(events[p])
    <2>1. /\ Append(q, Exit) \in Seq(WorkerEvents)
          /\ Len(Append(q, Exit)) = Len(q) + 1
          /\ \A i \in 1..Len(q) : Append(q, Exit)[i] = q[i]
          /\ Append(q, Exit)[Len(q) + 1] = Exit
      BY <1>1, AppendFacts, EventKinds
    <2>2. /\ events' \in [Processes -> Seq(WorkerEvents)]
          /\ events'[p] = Append(q, Exit)
          /\ \A r \in Processes : r # p => events'[r] = events[r]
      BY <1>3, <2>1
    <2>3. Len(q) = Len(events[p]) - 1 /\ \A i \in 1..Len(q) : q[i] = events[p][i + 1]
      BY <1>1
    <2> HIDE DEF q
    <2> QED
      BY <1>1, <2>1, <2>2, <2>3 DEF Event
  <1> QED
    BY <1>2, <1>3 DEF TakesEvent

-----------------------------------------------------------------------------
(***************************************************************************)
(* Steps of the master.                                                    *)
(***************************************************************************)
\* What was handed out stays handed out, and may still be reported.
LEMMA ReportsStayValid ==
    ASSUME handed \subseteq handed'
    PROVE  /\ \A c \in Clients : HandedTo(c) \subseteq HandedTo(c)'
           /\ FinishComputeRequests \subseteq FinishComputeRequests'
           /\ GetTaskRequests' = GetTaskRequests
  <1>1. \A c \in Clients : HandedTo(c) \subseteq HandedTo(c)'
    BY DEF HandedTo
  <1>2. ASSUME NEW r \in FinishComputeRequests
        PROVE  r \in FinishComputeRequests'
    <2>0. PICK c \in Clients :
            \E S \in (SUBSET {t \in Tasks : <<c, t>> \in handed}) \ {{}} :
              r = FinishComputeRequest(c, S)
      BY DEF FinishComputeRequests
    <2>1. PICK S \in (SUBSET {t \in Tasks : <<c, t>> \in handed}) \ {{}} :
            r = FinishComputeRequest(c, S)
      BY <2>0
    <2>2. S \in (SUBSET {t \in Tasks : <<c, t>> \in handed'}) \ {{}}
      OBVIOUS
    <2>3. r \in {FinishComputeRequest(c, T) :
                   T \in (SUBSET {t \in Tasks : <<c, t>> \in handed'}) \ {{}}}
      BY <2>1, <2>2
    <2> DEFINE Reports(d) ==
                 {FinishComputeRequest(d, T) :
                    T \in (SUBSET {t \in Tasks : <<d, t>> \in handed'}) \ {{}}}
    <2>4. FinishComputeRequests' = UNION {Reports(d) : d \in Clients}
      BY DEF FinishComputeRequests, FinishComputeRequest
    <2>5. r \in Reports(c)
      BY <2>3
    <2> HIDE DEF Reports
    <2> QED
      BY <2>4, <2>5
  <1> QED
    BY <1>1, <1>2 DEF GetTaskRequests

\* A step of the master that only takes requests and sends right replies.
LEMMA MasterStepInv ==
    ASSUME WorkerInv, handed \subseteq handed', UNCHANGED workerVars,
           requests' \subseteq requests, AsksForItsSize(context)',
           \A m \in replies' \ replies :
               /\ m \in [client : Clients, tasks : SUBSET Tasks]
               /\ m.tasks \subseteq HandedTo(m.client)'
               /\ Fits(m.client, m.tasks)
    PROVE  WorkerInv'
  <1>1. WorkersTyped'
    BY DEF WorkerInv, WorkersTyped, workerVars
  <1>2. WorkersAreGivenTasks'
    <2>1. requests' \subseteq GetTaskRequests' \cup FinishComputeRequests'
      BY ReportsStayValid DEF WorkerInv, WorkersAreGivenTasks
    <2>2. \A m \in replies' : m.tasks \subseteq HandedTo(m.client)'
      BY ReportsStayValid DEF WorkerInv, WorkersAreGivenTasks, WorkersTyped
    <2>3. ASSUME NEW p \in Processes, NEW i \in 1..Len(events[p]),
                 events[p][i].kind = "get_task"
          PROVE  (events[p][i].tasks \subseteq HandedTo(events[p][i].client))'
      <3>1. events[p][i] \in WorkerEvents /\ events' = events
        BY DEF WorkerInv, WorkersTyped, workerVars
      <3>2. events[p][i].client \in Clients
        BY <2>3, <3>1, EventKinds
      <3> QED
        BY <2>3, <3>1, <3>2, ReportsStayValid DEF WorkerInv, WorkersAreGivenTasks, HandedTo
    <2>4. \A c \in Clients : batch'[c] \subseteq HandedTo(c)'
      BY ReportsStayValid DEF WorkerInv, WorkersAreGivenTasks, workerVars
    <2> QED
      BY <2>1, <2>2, <2>3, <2>4 DEF WorkerInv, WorkersAreGivenTasks, workerVars
  <1>3. LoopsMatchEvents' /\ LoopsMatchProcess'
    BY DEF WorkerInv, LoopsMatchEvents, LoopsMatchProcess, workerVars
  <1>4. CountsMatch'
    BY DEF WorkerInv, CountsMatch, workerVars, NodeAlive, Waiting, Computing
  <1>5. SizesRespected'
    BY DEF WorkerInv, SizesRespected, workerVars, Fits, AsksForItsSize
  <1> QED
    BY <1>1, <1>2, <1>3, <1>4, <1>5 DEF WorkerInv

\* A step of the master, whatever it does, leaves the workers' invariant true.
LEMMA MasterInv ==
    ASSUME WorkerInv, TypeOK,
           \/ \E r \in requests : MasterReceive(r)
           \/ \E B \in SUBSET task_pending_queue : MasterGetTask(B)
           \/ MasterFinishCompute \/ MasterOther \/ MasterFault
    PROVE  WorkerInv'
  <1>0. AsksForItsSize(NoRequest)
    BY DEF AsksForItsSize, NoRequest
  <1>1. ASSUME NEW r \in requests, MasterReceive(r) PROVE WorkerInv'
    <2>1. /\ handed' = handed /\ UNCHANGED workerVars /\ requests' \subseteq requests
          /\ replies' = replies /\ context' = r
      BY <1>1 DEF MasterReceive, Receive
    <2>2. AsksForItsSize(context)'
      BY <2>1 DEF WorkerInv, SizesRespected, AsksForItsSize
    <2> QED
      BY <2>1, <2>2, MasterStepInv
  <1>2. ASSUME NEW B \in SUBSET task_pending_queue, MasterGetTask(B) PROVE WorkerInv'
    <2>1. /\ context \in GetTaskRequests /\ context.kind = "get_task"
          /\ context.client \in Clients /\ context.max_task_count \in Nat
      BY <1>2 DEF MasterGetTask, GetTask, Processing, TypeOK, RequestOK, NoRequest,
         GetTaskRequests
    <2>c. PICK c \in Clients : c = context.client
      BY <2>1
    <2>m. PICK m : m = [client |-> c, tasks |-> B]
      OBVIOUS
    <2>2. /\ handed' = handed \cup {<<c, t>> : t \in B}
          /\ UNCHANGED workerVars /\ requests' = requests
          /\ context' = NoRequest /\ replies' \subseteq replies \cup {m}
      BY <1>2, <2>c, <2>m DEF MasterGetTask, GetTask, Reply
    <2>3. m \in [client : Clients, tasks : SUBSET Tasks] /\ m.client = c /\ m.tasks = B
      BY <2>m DEF TypeOK
    <2>4. B \subseteq HandedTo(c)'
      BY <2>2 DEF HandedTo, TypeOK
    <2>5. Fits(c, B)
      <3> SUFFICES ASSUME BatchSize[Process[c]] > 0
                   PROVE  Cardinality(B) <= BatchSize[Process[c]]
        BY DEF Fits
      <3>1. BatchSize[Process[c]] \in Int
        BY ProcessAssumption, BatchSizeAssumption
      <3>2. context.max_task_count = BatchSize[Process[c]]
        BY <2>1, <2>c DEF WorkerInv, SizesRespected, AsksForItsSize
      <3>3. AtLeastOne(context.max_task_count) = BatchSize[Process[c]]
        BY <3>1, <3>2 DEF AtLeastOne
      <3> QED
        BY <1>2, <3>1, <3>3 DEF MasterGetTask, GetTask, IsFront
    <2>6. AsksForItsSize(context)'
      BY <1>0, <2>2 DEF AsksForItsSize, NoRequest
    <2>7. \A x \in replies' \ replies : x = m
      BY <2>2
    <2> QED
      BY <2>2, <2>3, <2>4, <2>5, <2>6, <2>7, MasterStepInv
  <1>3. CASE MasterFinishCompute
    <2>1. context.client \in Clients
      BY <1>3, FinishRequestType DEF MasterFinishCompute, FinishCompute, Processing
    <2>m. PICK m : m = [client |-> context.client, tasks |-> {}]
      OBVIOUS
    <2>2. /\ handed' = handed /\ UNCHANGED workerVars /\ requests' = requests
          /\ context' = NoRequest /\ replies' \subseteq replies \cup {m}
      BY <1>3, <2>m DEF MasterFinishCompute, FinishCompute, Reply
    <2>3. /\ m \in [client : Clients, tasks : SUBSET Tasks]
          /\ m.client \in Clients /\ m.tasks = {}
      BY <2>1, <2>m
    <2>4. Fits(m.client, m.tasks)
      <3>1. Cardinality(m.tasks) = 0
        BY <2>3, FS_EmptySet
      <3>2. BatchSize[Process[m.client]] \in Int
        BY <2>3, ProcessAssumption, BatchSizeAssumption
      <3> QED
        BY <3>1, <3>2 DEF Fits
    <2>5. AsksForItsSize(context)'
      BY <1>0, <2>2 DEF AsksForItsSize, NoRequest
    <2>6. \A x \in replies' \ replies : x = m
      BY <2>2
    <2> QED
      BY <2>2, <2>3, <2>4, <2>5, <2>6, MasterStepInv
  <1>4. CASE MasterOther \/ MasterFault
    <2>1. /\ handed' = handed /\ UNCHANGED workerVars /\ requests' = requests
          /\ replies' = replies /\ context' \in {context, NoRequest}
      BY <1>4 DEF MasterOther, MasterFault, Bind, StartTasks, ExitDpe, BindFails, Crash,
         CrashInSave
    <2>2. AsksForItsSize(context)'
      BY <1>0, <2>1 DEF WorkerInv, SizesRespected, AsksForItsSize
    <2> QED
      BY <2>1, <2>2, MasterStepInv
  <1> QED
    BY <1>1, <1>2, <1>3, <1>4

-----------------------------------------------------------------------------
(***************************************************************************)
(* Steps of the workers, part by part of the invariant.                    *)
(***************************************************************************)
\* The loop of c gets its answer or its results: one more event, for a loop
\* that had none.
LEMMA PostMatches ==
    ASSUME WorkersTyped, LoopsMatchEvents, NEW c \in Clients, NEW e \in WorkerEvents,
           e # Exit, e.client = c, events' = Post(Process[c], e),
           loop[c] \notin {"answered", "computed"},
           loop' = [loop EXCEPT ![c] = IF e.kind = "computed" THEN "computed"
                                                               ELSE "answered"]
    PROVE  /\ LoopsMatchEvents'
           /\ events' \in [Processes -> Seq(WorkerEvents)]
           /\ \A q \in Processes : \A i \in 1..Len(events'[q]) :
                 \/ events'[q][i] = e
                 \/ \E j \in 1..Len(events[q]) : events'[q][i] = events[q][j]
  <1>1. PICK p \in Processes : p = Process[c]
    BY ProcessAssumption
  <1>2. /\ events' \in [Processes -> Seq(WorkerEvents)]
        /\ \A q \in Processes : q # p => events'[q] = events[q]
        /\ Len(events[p]) \in Nat /\ Len(events'[p]) = Len(events[p]) + 1
        /\ \A i \in 1..Len(events[p]) : events'[p][i] = events[p][i]
        /\ events'[p][Len(events[p]) + 1] = e
    BY <1>1, PostFacts DEF WorkersTyped
  <1>3. \A q \in Processes : \A i \in 1..Len(events[q]) :
          events[q][i] # Exit => events[q][i].client \in Clients \ {c}
    BY EventKinds DEF WorkersTyped, LoopsMatchEvents
  <1>4. \A d \in Clients : d # c => loop'[d] = loop[d]
    BY DEF WorkersTyped
  <1>5. loop'[c] = IF e.kind = "computed" THEN "computed" ELSE "answered"
    BY DEF WorkersTyped
  <1>6. ASSUME NEW q \in Processes, NEW i \in 1..Len(events'[q])
        PROVE  \/ q = p /\ i = Len(events[p]) + 1 /\ events'[q][i] = e
               \/ i \in 1..Len(events[q]) /\ events'[q][i] = events[q][i]
    BY <1>2
  <1>7. LoopsMatchEvents'
    <2>1. ASSUME NEW q \in Processes, NEW i \in 1..Len(events'[q]), events'[q][i] # Exit
          PROVE  /\ Process[events'[q][i].client] = q
                 /\ loop'[events'[q][i].client] = IF events'[q][i].kind = "computed"
                                                  THEN "computed" ELSE "answered"
      <3>1. CASE q = p /\ i = Len(events[p]) + 1 /\ events'[q][i] = e
        BY <3>1, <1>1, <1>5
      <3>2. CASE i \in 1..Len(events[q]) /\ events'[q][i] = events[q][i]
        BY <2>1, <3>2, <1>3, <1>4 DEF LoopsMatchEvents
      <3> QED
        BY <1>6, <3>1, <3>2
    <2>2. ASSUME NEW q \in Processes, NEW i \in 1..Len(events'[q]),
                 NEW j \in 1..Len(events'[q]),
                 events'[q][i] # Exit, events'[q][j] # Exit,
                 events'[q][i].client = events'[q][j].client
          PROVE  i = j
      BY <2>2, <1>6, <1>3 DEF LoopsMatchEvents
    <2> QED
      BY <2>1, <2>2 DEF LoopsMatchEvents
  <1> QED
    BY <1>2, <1>6, <1>7

\* The first event of p is handled, and only the loop it belongs to moves.
LEMMA TakeMatches ==
    ASSUME WorkersTyped, LoopsMatchEvents, NEW p \in Processes, events[p] # <<>>,
           TakesEvent(p), NEW d, Event(p) # Exit => d = Event(p).client,
           \A c \in Clients : c # d => loop'[c] = loop[c],
           Event(p) = Exit => loop' = loop
    PROVE  /\ LoopsMatchEvents'
           /\ events' \in [Processes -> Seq(WorkerEvents)]
           /\ \A q \in Processes : \A i \in 1..Len(events'[q]) :
                 \/ events'[q][i] = Exit
                 \/ \E j \in 1..Len(events[q]) : events'[q][i] = events[q][j]
  <1>1. /\ events' \in [Processes -> Seq(WorkerEvents)]
        /\ \A q \in Processes : q # p => events'[q] = events[q]
        /\ Event(p) = events[p][1] /\ Event(p) \in WorkerEvents
        /\ Len(events[p]) \in Nat /\ 1 \in 1..Len(events[p])
        /\ \A i \in 1..Len(events'[p]) :
             \/ events'[p][i] = Exit
             \/ i + 1 \in 1..Len(events[p]) /\ events'[p][i] = events[p][i + 1]
    BY TakeFacts DEF WorkersTyped
  <1>2. ASSUME NEW q \in Processes, NEW i \in 1..Len(events'[q]), events'[q][i] # Exit
        PROVE  \E j \in 1..Len(events[q]) :
                 /\ events'[q][i] = events[q][j] /\ j = IF q = p THEN i + 1 ELSE i
    BY <1>1, <1>2
  <1>3. ASSUME NEW q \in Processes, NEW j \in 1..Len(events[q]), events[q][j] # Exit,
               q # p \/ j > 1
        PROVE  events[q][j].client \in Clients /\ loop'[events[q][j].client] = loop[events[q][j].client]
    <2>1. events[q][j].client \in Clients
      BY <1>3, EventKinds DEF WorkersTyped
    <2>2. CASE Event(p) = Exit
      BY <2>1, <2>2
    <2>3. CASE Event(p) # Exit
      <3>0. d = events[p][1].client /\ events[p][1] # Exit
        BY <1>1, <2>3
      <3>1. events[q][j].client # d
        <4>1. CASE q # p
          BY <4>1, <3>0, <1>1, <1>3 DEF LoopsMatchEvents
        <4>2. CASE q = p
          BY <4>2, <3>0, <1>1, <1>3 DEF LoopsMatchEvents
        <4> QED
          BY <4>1, <4>2
      <3> QED
        BY <2>1, <3>1
    <2> QED
      BY <2>1, <2>2, <2>3
  <1>4. LoopsMatchEvents'
    <2>1. ASSUME NEW q \in Processes, NEW i \in 1..Len(events'[q]), events'[q][i] # Exit
          PROVE  /\ Process[events'[q][i].client] = q
                 /\ loop'[events'[q][i].client] = IF events'[q][i].kind = "computed"
                                                  THEN "computed" ELSE "answered"
      <3>1. PICK j \in 1..Len(events[q]) :
              events'[q][i] = events[q][j] /\ j = IF q = p THEN i + 1 ELSE i
        BY <1>2, <2>1
      <3>2. q # p \/ j > 1
        BY <3>1, <1>1
      <3> QED
        BY <2>1, <3>1, <3>2, <1>3 DEF LoopsMatchEvents
    <2>2. ASSUME NEW q \in Processes, NEW i \in 1..Len(events'[q]),
                 NEW j \in 1..Len(events'[q]),
                 events'[q][i] # Exit, events'[q][j] # Exit,
                 events'[q][i].client = events'[q][j].client
          PROVE  i = j
      <3>1. PICK k \in 1..Len(events[q]) :
              events'[q][i] = events[q][k] /\ k = IF q = p THEN i + 1 ELSE i
        BY <1>2, <2>2
      <3>2. PICK l \in 1..Len(events[q]) :
              events'[q][j] = events[q][l] /\ l = IF q = p THEN j + 1 ELSE j
        BY <1>2, <2>2
      <3>3. k = l
        BY <2>2, <3>1, <3>2 DEF LoopsMatchEvents
      <3> QED
        BY <3>1, <3>2, <3>3
    <2> QED
      BY <2>1, <2>2 DEF LoopsMatchEvents
  <1>5. ASSUME NEW q \in Processes, NEW i \in 1..Len(events'[q])
        PROVE  \/ events'[q][i] = Exit
               \/ \E j \in 1..Len(events[q]) : events'[q][i] = events[q][j]
    BY <1>2
  <1> QED
    BY <1>1, <1>4, <1>5

\* The parts about tasks and sizes, when nothing is handed out: what is new is
\* right, everything else was there before.
LEMMA TasksKept ==
    ASSUME WorkerInv, UNCHANGED vars, loop' \in [Clients -> LoopStates],
           requests' \subseteq requests \cup GetTaskRequests \cup FinishComputeRequests,
           \A r \in requests' \ requests : AsksForItsSize(r),
           replies' \subseteq replies,
           \A q \in Processes : \A i \in 1..Len(events'[q]) :
              \/ events'[q][i].kind # "get_task"
              \/ /\ events'[q][i].tasks \subseteq HandedTo(events'[q][i].client)
                 /\ Fits(events'[q][i].client, events'[q][i].tasks)
              \/ \E j \in 1..Len(events[q]) : events'[q][i] = events[q][j],
           \A c \in Clients :
              /\ batch'[c] \subseteq HandedTo(c) /\ Fits(c, batch'[c])
              /\ loop'[c] \in {"compute", "computed"} => batch'[c] # {}
    PROVE  WorkersAreGivenTasks' /\ SizesRespected'
  <1>1. /\ \A c : HandedTo(c)' = HandedTo(c)
        /\ GetTaskRequests' = GetTaskRequests
        /\ FinishComputeRequests' = FinishComputeRequests /\ context' = context
    BY DEF vars, HandedTo, GetTaskRequests, FinishComputeRequests, FinishComputeRequest
  <1>2. \A q \in Processes : \A i \in 1..Len(events'[q]) :
           events'[q][i].kind = "get_task" =>
              /\ events'[q][i].tasks \subseteq HandedTo(events'[q][i].client)
              /\ Fits(events'[q][i].client, events'[q][i].tasks)
    BY DEF WorkerInv, WorkersAreGivenTasks, SizesRespected
  <1>3. WorkersAreGivenTasks'
    <2>1. requests' \subseteq GetTaskRequests' \cup FinishComputeRequests'
      BY <1>1 DEF WorkerInv, WorkersAreGivenTasks
    <2>2. \A m \in replies' : m.tasks \subseteq HandedTo(m.client)'
      BY <1>1 DEF WorkerInv, WorkersAreGivenTasks
    <2>3. (\A p \in Processes : \A i \in 1..Len(events[p]) :
             events[p][i].kind = "get_task" =>
               events[p][i].tasks \subseteq HandedTo(events[p][i].client))'
      BY <1>2 DEF HandedTo, vars
    <2>4. \A c \in Clients : batch'[c] \subseteq HandedTo(c)'
      BY <1>1
    <2> QED
      BY <2>1, <2>2, <2>3, <2>4 DEF WorkersAreGivenTasks
  <1>4. SizesRespected'
    BY <1>1, <1>2 DEF WorkerInv, SizesRespected, AsksForItsSize, Fits
  <1> QED
    BY <1>3, <1>4

\* The count is untouched when a loop neither begins nor ends to compute and
\* no node comes to life.
LEMMA CountsKept ==
    ASSUME WorkersTyped, CountsMatch, NEW c \in Clients, NEW x \in LoopStates,
           loop' = [loop EXCEPT ![c] = x],
           x \in {"compute", "computed"} <=> loop[c] \in {"compute", "computed"},
           x \in {"get_task", "finish_compute", "answered"} =>
               loop[c] \in {"get_task", "finish_compute", "answered"},
           process' = process, running_task_count' = running_task_count
    PROVE  CountsMatch'
  <1>1. \A d \in Clients : loop'[d] = IF d = c THEN x ELSE loop[d]
    BY DEF WorkersTyped
  <1>2. \A p \in Processes : Computing(p)' = Computing(p)
    BY <1>1 DEF Computing, ClientsOf
  <1>3. \A p \in Processes : NodeAlive(p)' => NodeAlive(p)
    BY <1>1 DEF NodeAlive, ClientsOf, Waiting
  <1> QED
    BY <1>2, <1>3 DEF CountsMatch

\* No tasks fit any batch size.
LEMMA EmptyFits == ASSUME NEW c \in Clients PROVE Fits(c, {})
  <1>1. Cardinality({}) = 0
    BY FS_EmptySet
  <1>2. BatchSize[Process[c]] \in Int
    BY ProcessAssumption, BatchSizeAssumption
  <1> QED
    BY <1>1, <1>2 DEF Fits

\* GetNextTask asks for what its batch_size says, and never for none.
LEMMA GetTaskRequestIsRight ==
    ASSUME NEW c \in Clients, NEW n \in 1..MaxTaskCount
    PROVE  GetTaskRequest(c, n) \in GetTaskRequests /\ AsksForItsSize(GetTaskRequest(c, n))
  <1>1. BatchSize[Process[c]] \in Int /\ BatchSize[Process[c]] <= MaxTaskCount
    BY ProcessAssumption, BatchSizeAssumption
  <1> QED
    BY <1>1, BoundsAssumption DEF GetTaskRequest, GetTaskRequests, AsksForItsSize

LEMMA AnsweredInv ==
    ASSUME WorkerInv, NEW c \in Clients, Answered(c) \/ TimeOut(c)
    PROVE  WorkerInv'
  <1>1. PICK given \in SUBSET Tasks, ok \in BOOLEAN :
          /\ given \subseteq HandedTo(c) /\ Fits(c, given)
          /\ events' = Post(Process[c], [kind |-> loop[c], client |-> c, ok |-> ok,
                                         tasks |-> given])
          /\ requests' \subseteq requests /\ replies' \subseteq replies
    <2>1. CASE Answered(c)
      <3>1. PICK m \in replies : /\ m.client = c
              /\ replies' = replies \ {m}
              /\ events' = Post(Process[c], [kind |-> loop[c], client |-> c, ok |-> TRUE,
                                             tasks |-> m.tasks])
              /\ requests' = requests
        BY <2>1 DEF Answered
      <3>2. m.tasks \in SUBSET Tasks /\ m.tasks \subseteq HandedTo(c) /\ Fits(c, m.tasks)
        BY <3>1 DEF WorkerInv, WorkersTyped, WorkersAreGivenTasks, SizesRespected
      <3> QED
        BY <3>1, <3>2
    <2>2. CASE TimeOut(c)
      BY <2>2, EmptyFits DEF TimeOut
    <2> QED
      BY <2>1, <2>2
  <1>2. /\ loop[c] \in {"get_task", "finish_compute"}
        /\ loop' = [loop EXCEPT ![c] = "answered"]
        /\ UNCHANGED <<vars, process, running_task_count, batch>>
    BY DEF Answered, TimeOut, Waiting
  <1>3. PICK e : e = [kind |-> loop[c], client |-> c, ok |-> ok, tasks |-> given]
    OBVIOUS
  <1>4. /\ e \in WorkerEvents /\ e # Exit /\ e.kind # "computed"
        /\ e.client = c /\ e.tasks = given
    BY <1>2, <1>3 DEF WorkerEvents, AnswerEvents, Exit
  <1>5. /\ LoopsMatchEvents'
        /\ events' \in [Processes -> Seq(WorkerEvents)]
        /\ \A q \in Processes : \A i \in 1..Len(events'[q]) :
              \/ events'[q][i] = e
              \/ \E j \in 1..Len(events[q]) : events'[q][i] = events[q][j]
    BY <1>1, <1>2, <1>3, <1>4, PostMatches DEF WorkerInv
  <1>6. WorkersTyped' /\ loop' \in [Clients -> LoopStates]
    BY <1>1, <1>2, <1>5 DEF WorkerInv, WorkersTyped, LoopStates
  <1>7. \A d \in Clients : loop'[d] = IF d = c THEN "answered" ELSE loop[d]
    BY <1>2 DEF WorkerInv, WorkersTyped
  <1>8. WorkersAreGivenTasks' /\ SizesRespected'
    <2>1. \A d \in Clients :
              /\ batch'[d] \subseteq HandedTo(d) /\ Fits(d, batch'[d])
              /\ loop'[d] \in {"compute", "computed"} => batch'[d] # {}
      BY <1>2, <1>7 DEF WorkerInv, WorkersAreGivenTasks, SizesRespected
    <2>2. \A q \in Processes : \A i \in 1..Len(events'[q]) :
              \/ events'[q][i].kind # "get_task"
              \/ /\ events'[q][i].tasks \subseteq HandedTo(events'[q][i].client)
                 /\ Fits(events'[q][i].client, events'[q][i].tasks)
              \/ \E j \in 1..Len(events[q]) : events'[q][i] = events[q][j]
      BY <1>1, <1>4, <1>5
    <2> QED
      BY <1>1, <1>2, <1>6, <2>1, <2>2, TasksKept
  <1>9. LoopsMatchProcess'
    BY <1>2, <1>7 DEF WorkerInv, LoopsMatchProcess
  <1>10. CountsMatch'
    BY <1>2, CountsKept DEF WorkerInv, LoopStates
  <1> QED
    BY <1>5, <1>6, <1>8, <1>9, <1>10 DEF WorkerInv

LEMMA ExecuteTaskInv ==
    ASSUME WorkerInv, NEW c \in Clients, ExecuteTask(c)
    PROVE  WorkerInv'
  <1>1. PICK e : e = [kind |-> "computed", client |-> c]
    OBVIOUS
  <1>2. /\ loop[c] = "compute" /\ loop' = [loop EXCEPT ![c] = "computed"]
        /\ process[Process[c]] \in {"up", "leaving"}
        /\ events' = Post(Process[c], e)
        /\ UNCHANGED <<vars, process, running_task_count, batch, requests, replies>>
    BY <1>1 DEF ExecuteTask
  <1>3. e \in WorkerEvents /\ e # Exit /\ e.kind = "computed" /\ e.client = c
    BY <1>1 DEF WorkerEvents, ComputedEvents, Exit
  <1>4. /\ LoopsMatchEvents'
        /\ events' \in [Processes -> Seq(WorkerEvents)]
        /\ \A q \in Processes : \A i \in 1..Len(events'[q]) :
              \/ events'[q][i] = e
              \/ \E j \in 1..Len(events[q]) : events'[q][i] = events[q][j]
    BY <1>2, <1>3, PostMatches DEF WorkerInv
  <1>5. WorkersTyped' /\ loop' \in [Clients -> LoopStates]
    BY <1>2, <1>4 DEF WorkerInv, WorkersTyped, LoopStates
  <1>6. \A d \in Clients : loop'[d] = IF d = c THEN "computed" ELSE loop[d]
    BY <1>2 DEF WorkerInv, WorkersTyped
  <1>7. WorkersAreGivenTasks' /\ SizesRespected'
    <2>1. \A d \in Clients :
              /\ batch'[d] \subseteq HandedTo(d) /\ Fits(d, batch'[d])
              /\ loop'[d] \in {"compute", "computed"} => batch'[d] # {}
      BY <1>2, <1>6 DEF WorkerInv, WorkersAreGivenTasks, SizesRespected
    <2> QED
      BY <1>2, <1>3, <1>4, <1>5, <2>1, TasksKept
  <1>8. LoopsMatchProcess'
    BY <1>2, <1>6 DEF WorkerInv, LoopsMatchProcess
  <1>9. CountsMatch'
    BY <1>2, CountsKept DEF WorkerInv, LoopStates
  <1> QED
    BY <1>4, <1>5, <1>7, <1>8, <1>9 DEF WorkerInv

LEMMA LoseMessageInv == ASSUME WorkerInv, LoseMessage PROVE WorkerInv'
  <1>1. /\ requests' \subseteq requests /\ replies' \subseteq replies
        /\ UNCHANGED workerVars /\ handed' = handed /\ context' = context
    BY DEF LoseMessage, vars
  <1>2. AsksForItsSize(context)'
    BY <1>1 DEF WorkerInv, SizesRespected, AsksForItsSize
  <1> QED
    BY <1>1, <1>2, MasterStepInv

LEMMA StartWorkerInv ==
    ASSUME WorkerInv, NEW p \in Processes, StartWorker(p)
    PROVE  WorkerInv'
  <1>1. PICK S \in SUBSET ClientsOf(p) :
          /\ requests' = requests \cup {GetTaskRequest(c, 1) : c \in S}
          /\ loop' = [c \in Clients |-> IF Process[c] # p THEN loop[c]
                                        ELSE IF c \in S THEN "get_task" ELSE "over"]
    BY DEF StartWorker, Sent
  <1>2. /\ process[p] = "new" /\ process' = [process EXCEPT ![p] = "up"]
        /\ UNCHANGED <<vars, events, running_task_count, batch, replies>>
    BY DEF StartWorker
  <1>3. WorkersTyped' /\ loop' \in [Clients -> LoopStates]
    BY <1>1, <1>2 DEF WorkerInv, WorkersTyped, LoopStates
  <1>4. \A c \in Clients :
          /\ Process[c] = p => loop[c] = "new" /\ loop'[c] \in {"get_task", "over"}
          /\ Process[c] # p => loop'[c] = loop[c]
    BY <1>1, <1>2 DEF WorkerInv, LoopsMatchProcess
  <1>5. WorkersAreGivenTasks' /\ SizesRespected'
    <2>1. \A c \in S : /\ GetTaskRequest(c, 1) \in GetTaskRequests
                       /\ AsksForItsSize(GetTaskRequest(c, 1))
      <3>1. 1 \in 1..MaxTaskCount
        BY BoundsAssumption, FaultsAssumption
      <3> QED
        BY <3>1, GetTaskRequestIsRight DEF ClientsOf
    <2>2. \A c \in Clients :
              /\ batch'[c] \subseteq HandedTo(c) /\ Fits(c, batch'[c])
              /\ loop'[c] \in {"compute", "computed"} => batch'[c] # {}
      BY <1>2, <1>4 DEF WorkerInv, WorkersAreGivenTasks, SizesRespected
    <2>3. /\ requests' \subseteq requests \cup GetTaskRequests \cup FinishComputeRequests
          /\ \A r \in requests' \ requests : AsksForItsSize(r)
      BY <1>1, <2>1
    <2> QED
      BY <1>2, <1>3, <2>2, <2>3, TasksKept
  <1>6. LoopsMatchEvents'
    <2>1. ASSUME NEW q \in Processes, NEW i \in 1..Len(events[q]), events[q][i] # Exit
          PROVE  loop'[events[q][i].client] = loop[events[q][i].client]
      <3>1. events[q][i] \in WorkerEvents
        BY DEF WorkerInv, WorkersTyped
      <3>2. events[q][i].client \in Clients
        BY <2>1, <3>1, EventKinds
      <3>3. loop[events[q][i].client] # "new"
        BY <2>1 DEF WorkerInv, LoopsMatchEvents
      <3> QED
        BY <1>4, <3>2, <3>3
    <2> QED
      BY <1>2, <2>1 DEF WorkerInv, LoopsMatchEvents
  <1>7. LoopsMatchProcess'
    BY <1>2, <1>4, ProcessAssumption DEF WorkerInv, WorkersTyped, LoopsMatchProcess
  <1>8. CountsMatch'
    <2>1. ASSUME NEW q \in Processes, q # p
          PROVE  /\ process'[q] = process[q]
                 /\ NodeAlive(q)' = NodeAlive(q) /\ Computing(q)' = Computing(q)
      BY <1>2, <1>4, <2>1 DEF WorkerInv, WorkersTyped, NodeAlive, Computing, ClientsOf,
         Waiting
    <2>2. Computing(p)' = {} /\ running_task_count[p] = 0 /\ process'[p] = "up"
      BY <1>2, <1>4 DEF WorkerInv, WorkersTyped, CountsMatch, Computing, ClientsOf
    <2> QED
      BY <1>2, <2>1, <2>2, FS_EmptySet DEF WorkerInv, CountsMatch
  <1> QED
    BY <1>3, <1>5, <1>6, <1>7, <1>8 DEF WorkerInv

\* The closure that is handled belongs to a loop of the process.
LEMMA HandledLoop ==
    ASSUME WorkerInv, NEW p \in Processes, NEW kind, Handling(p, kind),
           kind \in {"get_task", "finish_compute", "computed"}
    PROVE  /\ events[p] # <<>> /\ Event(p) # Exit
           /\ Event(p).client \in ClientsOf(p)
           /\ loop[Event(p).client] = IF kind = "computed" THEN "computed" ELSE "answered"
           /\ kind = "get_task" =>
                /\ Event(p).tasks \subseteq HandedTo(Event(p).client)
                /\ Event(p).tasks \subseteq Tasks
                /\ Fits(Event(p).client, Event(p).tasks)
           /\ process[p] \in {"up", "leaving"}
  <1>1. /\ events[p] \in Seq(WorkerEvents) /\ events[p] # <<>>
        /\ Event(p) = events[p][1] /\ 1 \in 1..Len(events[p])
        /\ Event(p) \in WorkerEvents /\ Event(p).kind = kind
    BY TailFacts DEF Handling, Event, WorkerInv, WorkersTyped
  <1>2. Event(p) # Exit /\ Event(p).client \in Clients
    BY <1>1, EventKinds
  <1> QED
    BY <1>1, <1>2, EventKinds
    DEF WorkerInv, LoopsMatchEvents, WorkersAreGivenTasks, SizesRespected, ClientsOf,
        Handling

\* LoopOver: the loop is over and nothing else about tasks changes.
LEMMA LoopOverInv ==
    ASSUME WorkerInv, NEW p \in Processes, NEW kind \in {"get_task", "finish_compute"},
           Handling(p, kind), LoopOver(p, Event(p).client)
    PROVE  WorkerInv'
  <1>1. PICK c \in Clients : c = Event(p).client
    BY HandledLoop DEF ClientsOf
  <1>2. /\ events[p] # <<>> /\ Event(p) # Exit /\ loop[c] = "answered" /\ Process[c] = p
        /\ process[p] \in {"up", "leaving"}
    BY <1>1, HandledLoop DEF ClientsOf
  <1>3. /\ loop' = [loop EXCEPT ![c] = "over"] /\ TakesEvent(p)
        /\ UNCHANGED <<vars, process, running_task_count, batch, requests, replies>>
    BY <1>1 DEF LoopOver, TakesEvent
  <1>4. \A d \in Clients : loop'[d] = IF d = c THEN "over" ELSE loop[d]
    BY <1>3 DEF WorkerInv, WorkersTyped
  <1>5. /\ LoopsMatchEvents'
        /\ events' \in [Processes -> Seq(WorkerEvents)]
        /\ \A q \in Processes : \A i \in 1..Len(events'[q]) :
              \/ events'[q][i] = Exit
              \/ \E j \in 1..Len(events[q]) : events'[q][i] = events[q][j]
    BY <1>1, <1>2, <1>3, <1>4, TakeMatches DEF WorkerInv
  <1>6. WorkersTyped' /\ loop' \in [Clients -> LoopStates]
    BY <1>3, <1>5 DEF WorkerInv, WorkersTyped, LoopStates
  <1>7. WorkersAreGivenTasks' /\ SizesRespected'
    <2>1. \A d \in Clients :
              /\ batch'[d] \subseteq HandedTo(d) /\ Fits(d, batch'[d])
              /\ loop'[d] \in {"compute", "computed"} => batch'[d] # {}
      BY <1>3, <1>4 DEF WorkerInv, WorkersAreGivenTasks, SizesRespected
    <2>2. Exit.kind # "get_task"
      BY DEF Exit
    <2> QED
      BY <1>3, <1>5, <1>6, <2>1, <2>2, TasksKept
  <1>8. LoopsMatchProcess'
    BY <1>2, <1>3, <1>4 DEF WorkerInv, LoopsMatchProcess
  <1>9. CountsMatch'
    BY <1>2, <1>3, CountsKept DEF WorkerInv, LoopStates
  <1> QED
    BY <1>5, <1>6, <1>7, <1>8, <1>9 DEF WorkerInv

LEMMA HandleGetTaskInv ==
    ASSUME WorkerInv, NEW p \in Processes, HandleGetTask(p)
    PROVE  WorkerInv'
  <1>0. Handling(p, "get_task")
    BY DEF HandleGetTask
  <1>1. CASE ~Event(p).ok \/ Event(p).tasks = {}
    <2>1. LoopOver(p, Event(p).client)
      BY <1>1 DEF HandleGetTask
    <2> QED
      BY <1>0, <2>1, LoopOverInv
  <1>2. CASE ~(~Event(p).ok \/ Event(p).tasks = {})
    <2>1. PICK c \in Clients, given \in SUBSET Tasks :
            c = Event(p).client /\ given = Event(p).tasks
      BY <1>0, HandledLoop DEF ClientsOf
    <2>2. /\ events[p] # <<>> /\ Event(p) # Exit /\ loop[c] = "answered" /\ Process[c] = p
          /\ process[p] \in {"up", "leaving"}
          /\ given # {} /\ given \subseteq HandedTo(c) /\ Fits(c, given)
      BY <1>0, <1>2, <2>1, HandledLoop DEF ClientsOf
    <2>3. /\ running_task_count' = [running_task_count EXCEPT ![p] = @ + 1]
          /\ batch' = [batch EXCEPT ![c] = given]
          /\ loop' = [loop EXCEPT ![c] = "compute"]
          /\ TakesEvent(p)
          /\ UNCHANGED <<vars, process, requests, replies>>
      BY <1>2, <2>1 DEF HandleGetTask, TakesEvent
    <2>4. \A d \in Clients : /\ loop'[d] = IF d = c THEN "compute" ELSE loop[d]
                             /\ batch'[d] = IF d = c THEN given ELSE batch[d]
      BY <2>3 DEF WorkerInv, WorkersTyped
    <2>5. /\ LoopsMatchEvents'
          /\ events' \in [Processes -> Seq(WorkerEvents)]
          /\ \A q \in Processes : \A i \in 1..Len(events'[q]) :
                \/ events'[q][i] = Exit
                \/ \E j \in 1..Len(events[q]) : events'[q][i] = events[q][j]
      <3>1. \A d \in Clients : d # c => loop'[d] = loop[d]
        BY <2>4
      <3> QED
        BY <2>1, <2>2, <2>3, <3>1, TakeMatches DEF WorkerInv
    <2>6. WorkersTyped' /\ loop' \in [Clients -> LoopStates]
      <3>1. running_task_count' \in [Processes -> Nat]
        BY <2>3 DEF WorkerInv, WorkersTyped
      <3>2. batch' \in [Clients -> SUBSET Tasks] /\ loop' \in [Clients -> LoopStates]
        BY <2>3 DEF WorkerInv, WorkersTyped, LoopStates
      <3> QED
        BY <2>3, <2>5, <3>1, <3>2 DEF WorkerInv, WorkersTyped
    <2>7. WorkersAreGivenTasks' /\ SizesRespected'
      <3>1. \A d \in Clients :
                /\ batch'[d] \subseteq HandedTo(d) /\ Fits(d, batch'[d])
                /\ loop'[d] \in {"compute", "computed"} => batch'[d] # {}
        BY <2>2, <2>4 DEF WorkerInv, WorkersAreGivenTasks, SizesRespected
      <3>2. Exit.kind # "get_task"
        BY DEF Exit
      <3> QED
        BY <2>3, <2>5, <2>6, <3>1, <3>2, TasksKept
    <2>8. LoopsMatchProcess'
      BY <2>2, <2>3, <2>4 DEF WorkerInv, LoopsMatchProcess
    <2>9. CountsMatch'
      <3>1. ASSUME NEW q \in Processes, q # p
            PROVE  /\ running_task_count'[q] = running_task_count[q]
                   /\ NodeAlive(q)' = NodeAlive(q) /\ Computing(q)' = Computing(q)
        BY <2>2, <2>3, <2>4, <3>1
        DEF WorkerInv, WorkersTyped, NodeAlive, Computing, ClientsOf, Waiting
      <3>2. running_task_count[p] = Cardinality(Computing(p))
        BY <2>2 DEF WorkerInv, CountsMatch, NodeAlive, ClientsOf
      <3>3. Computing(p)' = Computing(p) \cup {c} /\ c \notin Computing(p)
        BY <2>2, <2>4 DEF Computing, ClientsOf
      <3>4. IsFiniteSet(Computing(p))
        BY ProcessAssumption, FS_Subset DEF Computing, ClientsOf
      <3>5. Cardinality(Computing(p)') = Cardinality(Computing(p)) + 1
        BY <3>3, <3>4, FS_AddElement
      <3>6. running_task_count'[p] = running_task_count[p] + 1 /\ process'[p] # "new"
        BY <2>2, <2>3 DEF WorkerInv, WorkersTyped
      <3> QED
        BY <2>3, <3>1, <3>2, <3>5, <3>6 DEF WorkerInv, CountsMatch
    <2> QED
      BY <2>5, <2>6, <2>7, <2>8, <2>9 DEF WorkerInv
  <1> QED
    BY <1>1, <1>2

LEMMA FinishExecuteTaskInv ==
    ASSUME WorkerInv, NEW p \in Processes, FinishExecuteTask(p)
    PROVE  WorkerInv'
  <1>0. Handling(p, "computed") /\ NodeAlive(p)
    BY DEF FinishExecuteTask
  <1>1. PICK c \in Clients : c = Event(p).client
    BY <1>0, HandledLoop DEF ClientsOf
  <1>2. /\ events[p] # <<>> /\ Event(p) # Exit /\ loop[c] = "computed" /\ Process[c] = p
        /\ process[p] \in {"up", "leaving"}
    BY <1>0, <1>1, HandledLoop DEF ClientsOf
  <1>3. PICK x \in {"over", "finish_compute"} :
          /\ loop' = [loop EXCEPT ![c] = x]
          /\ requests' \subseteq requests \cup {Report(c)}
    BY <1>1 DEF FinishExecuteTask, Sent
  <1>4. /\ running_task_count' = [running_task_count EXCEPT ![p] = @ - 1]
        /\ batch' = [batch EXCEPT ![c] = {}]
        /\ TakesEvent(p)
        /\ UNCHANGED <<vars, process, replies>>
    BY <1>1 DEF FinishExecuteTask, TakesEvent, OneLess
  <1>5. \A d \in Clients : /\ loop'[d] = IF d = c THEN x ELSE loop[d]
                           /\ batch'[d] = IF d = c THEN {} ELSE batch[d]
    BY <1>3, <1>4 DEF WorkerInv, WorkersTyped
  <1>6. /\ LoopsMatchEvents'
        /\ events' \in [Processes -> Seq(WorkerEvents)]
        /\ \A q \in Processes : \A i \in 1..Len(events'[q]) :
              \/ events'[q][i] = Exit
              \/ \E j \in 1..Len(events[q]) : events'[q][i] = events[q][j]
    <2>1. \A d \in Clients : d # c => loop'[d] = loop[d]
      BY <1>5
    <2> QED
      BY <1>1, <1>2, <1>4, <2>1, TakeMatches DEF WorkerInv
  <1>7. CountsMatch' /\ running_task_count' \in [Processes -> Nat]
    <2>1. ASSUME NEW q \in Processes, q # p
          PROVE  /\ running_task_count'[q] = running_task_count[q]
                 /\ NodeAlive(q)' = NodeAlive(q) /\ Computing(q)' = Computing(q)
      BY <1>2, <1>4, <1>5, <2>1
      DEF WorkerInv, WorkersTyped, NodeAlive, Computing, ClientsOf, Waiting
    <2>2. running_task_count[p] = Cardinality(Computing(p))
      BY <1>0 DEF WorkerInv, CountsMatch
    <2>3. Computing(p)' = Computing(p) \ {c} /\ c \in Computing(p)
      BY <1>2, <1>5 DEF Computing, ClientsOf
    <2>4. IsFiniteSet(Computing(p))
      BY ProcessAssumption, FS_Subset DEF Computing, ClientsOf
    <2>5. /\ Cardinality(Computing(p)') = Cardinality(Computing(p)) - 1
          /\ Cardinality(Computing(p)') \in Nat
      BY <2>3, <2>4, FS_RemoveElement, FS_CardinalityType, FS_Subset
    <2>6. running_task_count'[p] = running_task_count[p] - 1 /\ process'[p] # "new"
      BY <1>2, <1>4 DEF WorkerInv, WorkersTyped
    <2>7. CountsMatch'
      BY <1>4, <2>1, <2>2, <2>5, <2>6 DEF WorkerInv, CountsMatch
    <2>8. running_task_count[p] - 1 \in Nat
      BY <2>2, <2>5
    <2> QED
      BY <1>4, <2>7, <2>8 DEF WorkerInv, WorkersTyped
  <1>8. WorkersTyped' /\ loop' \in [Clients -> LoopStates]
    BY <1>3, <1>4, <1>6, <1>7 DEF WorkerInv, WorkersTyped, LoopStates
  <1>9. WorkersAreGivenTasks' /\ SizesRespected'
    <2>1. \A d \in Clients :
              /\ batch'[d] \subseteq HandedTo(d) /\ Fits(d, batch'[d])
              /\ loop'[d] \in {"compute", "computed"} => batch'[d] # {}
      BY <1>5, EmptyFits DEF WorkerInv, WorkersAreGivenTasks, SizesRespected
    <2>2. Exit.kind # "get_task"
      BY DEF Exit
    <2>3. Report(c) \in FinishComputeRequests /\ AsksForItsSize(Report(c))
      <3>1. batch[c] \in (SUBSET {t \in Tasks : <<c, t>> \in handed}) \ {{}}
        <4>1. batch[c] \subseteq HandedTo(c) /\ batch[c] # {}
          BY <1>2 DEF WorkerInv, WorkersAreGivenTasks
        <4> QED
          BY <4>1 DEF HandedTo
      <3>2. Report(c) = FinishComputeRequest(c, batch[c]) /\ AsksForItsSize(Report(c))
        BY DEF FinishComputeRequest, Report, AsksForItsSize
      <3>3. FinishComputeRequest(c, batch[c]) \in
              {FinishComputeRequest(c, S) :
                 S \in (SUBSET {t \in Tasks : <<c, t>> \in handed}) \ {{}}}
        BY <3>1
      <3> DEFINE Reports(d) ==
                   {FinishComputeRequest(d, S) :
                      S \in (SUBSET {t \in Tasks : <<d, t>> \in handed}) \ {{}}}
      <3>4. FinishComputeRequests = UNION {Reports(d) : d \in Clients}
        BY DEF FinishComputeRequests
      <3>5. Report(c) \in Reports(c)
        BY <3>2, <3>3
      <3> HIDE DEF Reports
      <3> QED
        BY <3>2, <3>4, <3>5
    <2>4. /\ requests' \subseteq requests \cup GetTaskRequests \cup FinishComputeRequests
          /\ \A r \in requests' \ requests : AsksForItsSize(r)
      BY <1>3, <2>3
    <2> QED
      BY <1>4, <1>6, <1>8, <2>1, <2>2, <2>4, TasksKept
  <1>10. LoopsMatchProcess'
    BY <1>2, <1>4, <1>5 DEF WorkerInv, LoopsMatchProcess
  <1> QED
    BY <1>6, <1>7, <1>8, <1>9, <1>10 DEF WorkerInv

\* The results of a node that is gone are dropped; its count no longer matters.
LEMMA DropResultsInv ==
    ASSUME WorkerInv, NEW p \in Processes, DropResults(p)
    PROVE  WorkerInv'
  <1>0. Handling(p, "computed") /\ ~NodeAlive(p)
    BY DEF DropResults
  <1>1. PICK c \in Clients : c = Event(p).client
    BY <1>0, HandledLoop DEF ClientsOf
  <1>2. /\ events[p] # <<>> /\ Event(p) # Exit /\ loop[c] = "computed" /\ Process[c] = p
        /\ process[p] \in {"up", "leaving"}
    BY <1>0, <1>1, HandledLoop DEF ClientsOf
  <1>3. /\ loop' = [loop EXCEPT ![c] = "over"]
        /\ batch' = [batch EXCEPT ![c] = {}]
        /\ TakesEvent(p)
        /\ UNCHANGED <<vars, process, running_task_count, requests, replies>>
    BY <1>1 DEF DropResults, TakesEvent
  <1>4. \A d \in Clients : /\ loop'[d] = IF d = c THEN "over" ELSE loop[d]
                           /\ batch'[d] = IF d = c THEN {} ELSE batch[d]
    BY <1>3 DEF WorkerInv, WorkersTyped
  <1>5. /\ LoopsMatchEvents'
        /\ events' \in [Processes -> Seq(WorkerEvents)]
        /\ \A q \in Processes : \A i \in 1..Len(events'[q]) :
              \/ events'[q][i] = Exit
              \/ \E j \in 1..Len(events[q]) : events'[q][i] = events[q][j]
    <2>1. \A d \in Clients : d # c => loop'[d] = loop[d]
      BY <1>4
    <2> QED
      BY <1>1, <1>2, <1>3, <2>1, TakeMatches DEF WorkerInv
  <1>6. WorkersTyped' /\ loop' \in [Clients -> LoopStates]
    BY <1>3, <1>5 DEF WorkerInv, WorkersTyped, LoopStates
  <1>7. WorkersAreGivenTasks' /\ SizesRespected'
    <2>1. \A d \in Clients :
              /\ batch'[d] \subseteq HandedTo(d) /\ Fits(d, batch'[d])
              /\ loop'[d] \in {"compute", "computed"} => batch'[d] # {}
      BY <1>4, EmptyFits DEF WorkerInv, WorkersAreGivenTasks, SizesRespected
    <2>2. Exit.kind # "get_task"
      BY DEF Exit
    <2> QED
      BY <1>3, <1>5, <1>6, <2>1, <2>2, TasksKept
  <1>8. LoopsMatchProcess'
    BY <1>2, <1>3, <1>4 DEF WorkerInv, LoopsMatchProcess
  <1>9. CountsMatch'
    <2>1. ASSUME NEW q \in Processes, q # p
          PROVE  NodeAlive(q)' = NodeAlive(q) /\ Computing(q)' = Computing(q)
      BY <1>2, <1>3, <1>4, <2>1 DEF NodeAlive, Computing, ClientsOf, Waiting
    <2>2. ~NodeAlive(p)'
      BY <1>0, <1>2, <1>3, <1>4 DEF NodeAlive, ClientsOf, Waiting
    <2> QED
      BY <1>3, <2>1, <2>2 DEF WorkerInv, CountsMatch
  <1> QED
    BY <1>5, <1>6, <1>7, <1>8, <1>9 DEF WorkerInv

LEMMA HandleFinishComputeInv ==
    ASSUME WorkerInv, NEW p \in Processes, HandleFinishCompute(p)
    PROVE  WorkerInv'
  <1>0. Handling(p, "finish_compute")
    BY DEF HandleFinishCompute
  <1>1. CASE ~Event(p).ok
    <2>1. LoopOver(p, Event(p).client)
      BY <1>1 DEF HandleFinishCompute
    <2> QED
      BY <1>0, <2>1, LoopOverInv
  <1>2. CASE Event(p).ok
    <2>1. PICK c \in Clients : c = Event(p).client
      BY <1>0, HandledLoop DEF ClientsOf
    <2>2. /\ events[p] # <<>> /\ Event(p) # Exit /\ loop[c] = "answered" /\ Process[c] = p
          /\ process[p] \in {"up", "leaving"}
      BY <1>0, <2>1, HandledLoop DEF ClientsOf
    <2>3. PICK x \in {"over", "get_task"}, n \in 1..MaxTaskCount :
            /\ loop' = [loop EXCEPT ![c] = x]
            /\ requests' \subseteq requests \cup {GetTaskRequest(c, n)}
      BY <1>2, <2>1 DEF HandleFinishCompute, Sent
    <2>4. /\ TakesEvent(p)
          /\ UNCHANGED <<vars, process, running_task_count, batch, replies>>
      BY <1>2, <2>1 DEF HandleFinishCompute, TakesEvent
    <2>5. \A d \in Clients : loop'[d] = IF d = c THEN x ELSE loop[d]
      BY <2>3 DEF WorkerInv, WorkersTyped
    <2>6. /\ LoopsMatchEvents'
          /\ events' \in [Processes -> Seq(WorkerEvents)]
          /\ \A q \in Processes : \A i \in 1..Len(events'[q]) :
                \/ events'[q][i] = Exit
                \/ \E j \in 1..Len(events[q]) : events'[q][i] = events[q][j]
      <3>1. \A d \in Clients : d # c => loop'[d] = loop[d]
        BY <2>5
      <3> QED
        BY <2>1, <2>2, <2>4, <3>1, TakeMatches DEF WorkerInv
    <2>7. WorkersTyped' /\ loop' \in [Clients -> LoopStates]
      BY <2>3, <2>4, <2>6 DEF WorkerInv, WorkersTyped, LoopStates
    <2>8. WorkersAreGivenTasks' /\ SizesRespected'
      <3>1. \A d \in Clients :
                /\ batch'[d] \subseteq HandedTo(d) /\ Fits(d, batch'[d])
                /\ loop'[d] \in {"compute", "computed"} => batch'[d] # {}
        BY <2>4, <2>5 DEF WorkerInv, WorkersAreGivenTasks, SizesRespected
      <3>2. Exit.kind # "get_task"
        BY DEF Exit
      <3>3. /\ requests' \subseteq requests \cup GetTaskRequests \cup FinishComputeRequests
            /\ \A r \in requests' \ requests : AsksForItsSize(r)
        BY <2>3, GetTaskRequestIsRight
      <3> QED
        BY <2>4, <2>6, <2>7, <3>1, <3>2, <3>3, TasksKept
    <2>9. LoopsMatchProcess'
      BY <2>2, <2>4, <2>5 DEF WorkerInv, LoopsMatchProcess
    <2>10. CountsMatch'
      BY <2>2, <2>3, <2>4, CountsKept DEF WorkerInv, LoopStates
    <2> QED
      BY <2>6, <2>7, <2>8, <2>9, <2>10 DEF WorkerInv
  <1> QED
    BY <1>1, <1>2

LEMMA ExitWorkerInv ==
    ASSUME WorkerInv, NEW p \in Processes, ExitWorker(p)
    PROVE  WorkerInv'
  <1>1. /\ events[p] \in Seq(WorkerEvents) /\ events[p] # <<>>
        /\ Event(p) \in WorkerEvents /\ Event(p).kind = "exit"
        /\ process[p] \in {"up", "leaving"}
    BY TailFacts DEF ExitWorker, Handling, Event, WorkerInv, WorkersTyped
  <1>2. Event(p) = Exit
    BY <1>1, EventKinds
  <1>3. /\ process' = [process EXCEPT ![p] = "leaving"] /\ TakesEvent(p)
        /\ UNCHANGED <<vars, running_task_count, loop, batch, requests, replies>>
    BY DEF ExitWorker, TakesEvent
  <1>4. /\ LoopsMatchEvents'
        /\ events' \in [Processes -> Seq(WorkerEvents)]
        /\ \A q \in Processes : \A i \in 1..Len(events'[q]) :
              \/ events'[q][i] = Exit
              \/ \E j \in 1..Len(events[q]) : events'[q][i] = events[q][j]
    BY <1>1, <1>2, <1>3, TakeMatches DEF WorkerInv
  <1>5. WorkersTyped' /\ loop' \in [Clients -> LoopStates]
    BY <1>3, <1>4 DEF WorkerInv, WorkersTyped
  <1>6. WorkersAreGivenTasks' /\ SizesRespected'
    <2>1. \A d \in Clients :
              /\ batch'[d] \subseteq HandedTo(d) /\ Fits(d, batch'[d])
              /\ loop'[d] \in {"compute", "computed"} => batch'[d] # {}
      BY <1>3 DEF WorkerInv, WorkersAreGivenTasks, SizesRespected
    <2>2. Exit.kind # "get_task"
      BY DEF Exit
    <2> QED
      BY <1>3, <1>4, <1>5, <2>1, <2>2, TasksKept
  <1>7. \A q \in Processes : process'[q] = IF q = p THEN "leaving" ELSE process[q]
    BY <1>3 DEF WorkerInv, WorkersTyped
  <1>8. LoopsMatchProcess'
    BY <1>1, <1>3, <1>7, ProcessAssumption DEF WorkerInv, LoopsMatchProcess
  <1>9. CountsMatch'
    <2>1. \A q \in Processes : NodeAlive(q)' => NodeAlive(q)
      BY <1>1, <1>3, <1>7 DEF NodeAlive, ClientsOf, Waiting
    <2>2. \A q \in Processes : Computing(q)' = Computing(q)
      BY <1>3 DEF Computing
    <2> QED
      BY <1>1, <1>3, <1>7, <2>1, <2>2 DEF WorkerInv, CountsMatch
  <1> QED
    BY <1>4, <1>5, <1>6, <1>8, <1>9 DEF WorkerInv

\* A process that is gone leaves nothing behind but requests on their way.
LEMMA LeaveInv ==
    ASSUME WorkerInv, NEW p \in Processes, NEW how \in {"exited", "crashed"},
           Leave(p, how)
    PROVE  WorkerInv'
  <1>1. /\ process' = [process EXCEPT ![p] = how]
        /\ events' = [events EXCEPT ![p] = <<>>]
        /\ requests' \subseteq requests /\ replies' \subseteq replies
        /\ loop' = [c \in Clients |-> IF Process[c] = p THEN "over" ELSE loop[c]]
        /\ running_task_count' = [running_task_count EXCEPT ![p] = 0]
        /\ batch' = [c \in Clients |-> IF Process[c] = p THEN {} ELSE batch[c]]
        /\ UNCHANGED vars
    BY DEF Leave
  <1>2. /\ events' \in [Processes -> Seq(WorkerEvents)]
        /\ \A q \in Processes : events'[q] = IF q = p THEN <<>> ELSE events[q]
    BY <1>1 DEF WorkerInv, WorkersTyped
  <1>3. /\ \A q \in Processes : process'[q] = IF q = p THEN how ELSE process[q]
        /\ \A q \in Processes : q # p => running_task_count'[q] = running_task_count[q]
    BY <1>1 DEF WorkerInv, WorkersTyped
  <1>4. WorkersTyped' /\ loop' \in [Clients -> LoopStates]
    BY <1>1, <1>2 DEF WorkerInv, WorkersTyped, LoopStates
  <1>5. WorkersAreGivenTasks' /\ SizesRespected'
    <2>1. \A d \in Clients :
              /\ batch'[d] \subseteq HandedTo(d) /\ Fits(d, batch'[d])
              /\ loop'[d] \in {"compute", "computed"} => batch'[d] # {}
      BY <1>1, EmptyFits DEF WorkerInv, WorkersAreGivenTasks, SizesRespected
    <2> QED
      BY <1>1, <1>2, <1>4, <2>1, TasksKept
  <1>6. LoopsMatchEvents'
    <2>1. ASSUME NEW q \in Processes, NEW i \in 1..Len(events'[q]), events'[q][i] # Exit
          PROVE  /\ q # p /\ events'[q] = events[q]
                 /\ loop'[events[q][i].client] = loop[events[q][i].client]
      <3>1. q # p /\ events'[q] = events[q]
        BY <1>2
      <3>2. events[q][i] \in WorkerEvents
        BY <3>1 DEF WorkerInv, WorkersTyped
      <3>3. events[q][i].client \in Clients /\ Process[events[q][i].client] = q
        BY <2>1, <3>1, <3>2, EventKinds DEF WorkerInv, LoopsMatchEvents
      <3> QED
        BY <1>1, <3>1, <3>3
    <2> QED
      BY <2>1 DEF WorkerInv, LoopsMatchEvents
  <1>7. LoopsMatchProcess'
    BY <1>1, <1>3, ProcessAssumption DEF WorkerInv, LoopsMatchProcess
  <1>8. CountsMatch'
    <2>1. ASSUME NEW q \in Processes, q # p
          PROVE  NodeAlive(q)' = NodeAlive(q) /\ Computing(q)' = Computing(q)
      BY <1>1, <1>3, <2>1 DEF NodeAlive, Computing, ClientsOf, Waiting
    <2>2. ~NodeAlive(p)'
      BY <1>1, <1>3 DEF NodeAlive, ClientsOf, Waiting
    <2> QED
      BY <1>1, <1>3, <2>1, <2>2 DEF WorkerInv, CountsMatch
  <1> QED
    BY <1>4, <1>5, <1>6, <1>7, <1>8 DEF WorkerInv

-----------------------------------------------------------------------------
(***************************************************************************)
(* The invariant of the job, and the step that makes it a job of DpeMaster. *)
(***************************************************************************)
LEMMA SysInitInv == SysInit => WorkerInv
  <1> SUFFICES ASSUME SysInit PROVE WorkerInv
    OBVIOUS
  <1>1. << >> \in Seq(WorkerEvents) /\ Len(<< >>) = 0
    OBVIOUS
  <1>2. WorkersTyped
    <2>1. events \in [Processes -> Seq(WorkerEvents)]
      BY <1>1 DEF SysInit
    <2> QED
      BY <2>1 DEF SysInit, WorkersTyped, LoopStates
  <1>3. WorkersAreGivenTasks /\ LoopsMatchEvents /\ LoopsMatchProcess
    BY <1>1, ProcessAssumption
       DEF SysInit, WorkersAreGivenTasks, LoopsMatchEvents, LoopsMatchProcess
  <1>4. CountsMatch
    <2>1. \A p \in Processes : Computing(p) = {}
      BY DEF SysInit, Computing, ClientsOf
    <2> QED
      BY <2>1, FS_EmptySet DEF SysInit, CountsMatch
  <1>5. SizesRespected
    <2>1. \A p \in Processes : Len(events[p]) = 0
      BY <1>1 DEF SysInit
    <2>2. \A c \in Clients : Fits(c, batch[c])
      BY EmptyFits DEF SysInit
    <2>3. AsksForItsSize(context)
      BY DEF SysInit, Init, AsksForItsSize, NoRequest
    <2>4. \A p \in Processes : 1..Len(events[p]) = {}
      BY <2>1
    <2> QED
      BY <2>2, <2>3, <2>4 DEF SysInit, SizesRespected
  <1> QED
    BY <1>2, <1>3, <1>4, <1>5 DEF WorkerInv

\* Every step of the job leaves the workers' invariant true.
LEMMA SysNextInv == TypeOK /\ WorkerInv /\ [SysNext]_sysVars => WorkerInv'
  <1> SUFFICES ASSUME TypeOK, WorkerInv, [SysNext]_sysVars PROVE WorkerInv'
    OBVIOUS
  <1>1. CASE \/ \E r \in requests : MasterReceive(r)
             \/ \E B \in SUBSET task_pending_queue : MasterGetTask(B)
             \/ MasterFinishCompute \/ MasterOther \/ MasterFault
    BY <1>1, MasterInv
  <1>2. ASSUME NEW c \in Clients, Answered(c) \/ TimeOut(c) \/ ExecuteTask(c)
        PROVE  WorkerInv'
    BY <1>2, AnsweredInv, ExecuteTaskInv
  <1>3. CASE LoseMessage
    BY <1>3, LoseMessageInv
  <1>4. ASSUME NEW p \in Processes, WorkerStep(p) \/ WorkerCrash(p)
        PROVE  WorkerInv'
    <2>1. CASE QuitMainLoop(p)
      BY <2>1, LeaveInv DEF QuitMainLoop
    <2>2. CASE WorkerCrash(p)
      BY <2>2, LeaveInv DEF WorkerCrash
    <2> QED
      BY <1>4, <2>1, <2>2, StartWorkerInv, HandleGetTaskInv, FinishExecuteTaskInv,
         DropResultsInv, HandleFinishComputeInv, ExitWorkerInv DEF WorkerStep
  <1>5. CASE UNCHANGED sysVars
    <2>1. UNCHANGED workerVars /\ requests' = requests /\ replies' = replies
          /\ handed' = handed /\ context' = context
      BY <1>5 DEF sysVars, vars
    <2>2. AsksForItsSize(context)'
      BY <2>1 DEF WorkerInv, SizesRespected, AsksForItsSize
    <2> QED
      BY <2>1, <2>2, MasterStepInv
  <1> QED
    BY <1>1, <1>2, <1>3, <1>4, <1>5 DEF SysNext

\* A step of the job is a step of the master with arbitrary clients, or leaves
\* the master alone: a worker sends no request that DpeMaster does not expect.
LEMMA JobStep == WorkerInv /\ [SysNext]_sysVars => [Next]_vars
  <1> SUFFICES ASSUME WorkerInv, [SysNext]_sysVars PROVE [Next]_vars
    OBVIOUS
  <1>1. ASSUME NEW r \in requests, MasterReceive(r) PROVE Next
    <2>1. r \in GetTaskRequests \cup FinishComputeRequests /\ Receive(r)
      BY <1>1 DEF WorkerInv, WorkersAreGivenTasks, MasterReceive
    <2> QED
      BY <2>1 DEF Next
  <1>2. ASSUME NEW B \in SUBSET task_pending_queue, MasterGetTask(B) PROVE Next
    BY <1>2 DEF MasterGetTask, Next
  <1>3. CASE MasterFinishCompute
    BY <1>3 DEF MasterFinishCompute, Next
  <1>4. CASE MasterOther
    BY <1>4 DEF MasterOther, Next
  <1>5. CASE MasterFault
    BY <1>5 DEF MasterFault, Next
  <1>6. ASSUME NEW c \in Clients, Answered(c) \/ TimeOut(c) \/ ExecuteTask(c)
        PROVE  UNCHANGED vars
    BY <1>6 DEF Answered, TimeOut, ExecuteTask
  <1>7. CASE LoseMessage
    BY <1>7 DEF LoseMessage
  <1>8. ASSUME NEW p \in Processes, WorkerStep(p) \/ WorkerCrash(p)
        PROVE  UNCHANGED vars
    <2>1. CASE QuitMainLoop(p) \/ WorkerCrash(p)
      BY <2>1 DEF QuitMainLoop, WorkerCrash, Leave
    <2>2. CASE StartWorker(p) \/ ExitWorker(p)
      BY <2>2 DEF StartWorker, ExitWorker
    <2>3. CASE HandleGetTask(p) \/ HandleFinishCompute(p)
      BY <2>3 DEF HandleGetTask, HandleFinishCompute, LoopOver
    <2>4. CASE FinishExecuteTask(p) \/ DropResults(p)
      BY <2>4 DEF FinishExecuteTask, DropResults
    <2> QED
      BY <1>8, <2>1, <2>2, <2>3, <2>4 DEF WorkerStep
  <1>9. CASE UNCHANGED sysVars
    BY <1>9 DEF sysVars
  <1> QED
    BY <1>1, <1>2, <1>3, <1>4, <1>5, <1>6, <1>7, <1>8, <1>9 DEF SysNext

\* The types of the master and the invariant of the workers hold in every
\* reachable state of the job.
LEMMA JobInvariant == SysSpec => [](TypeOK /\ WorkerInv)
  <1>1. SysInit => TypeOK /\ WorkerInv
    BY InitTypeOK, SysInitInv DEF SysInit
  <1>2. TypeOK /\ WorkerInv /\ [SysNext]_sysVars => TypeOK' /\ WorkerInv'
    BY NextTypeOK, SysNextInv, JobStep
  <1> QED
    BY <1>1, <1>2, PTL DEF SysSpec

-----------------------------------------------------------------------------
(***************************************************************************)
(* What is proved of the job.                                              *)
(***************************************************************************)
\* The job implements DpeMaster: whatever is lost, late or crashes, the workers
\* of dpe_worker_node.cc report only tasks they were handed, with the results
\* Compute returned.
THEOREM JobImplementsMaster == SysSpec => JobIsMaster
  <1>1. SysInit => Init
    BY DEF SysInit
  <1> QED
    BY <1>1, JobStep, JobInvariant, PTL DEF SysSpec, JobIsMaster, Spec

\* running_task_count_ of a process whose node is alive is the number of its
\* loops that compute or whose results are not sent: HandleGetTask and
\* FinishExecuteTaskImpl never lose count, so LoopOver leaves only when no
\* other loop computes.
THEOREM CountIsRight == SysSpec => []CountsComputingLoops
  <1>1. ASSUME TypeOK, WorkerInv PROVE CountsComputingLoops
    <2>1. \A p \in Processes : NodeAlive(p) =>
            running_task_count[p] =
              Cardinality({c \in ClientsOf(p) : loop[c] \in {"compute", "computed"}})
      BY <1>1 DEF WorkerInv, CountsMatch, Computing
    <2>2. ASSUME NEW p \in Processes, NEW i \in DOMAIN events[p]
          PROVE  events[p][i].kind \in {"get_task", "computed", "finish_compute", "exit"}
      <3>1. events[p] \in Seq(WorkerEvents)
        BY <1>1 DEF WorkerInv, WorkersTyped
      <3>2. events[p][i] \in WorkerEvents
        BY <3>1
      <3> QED
        BY <3>2, EventKinds DEF Exit
    <2>3. ASSUME NEW r \in requests PROVE RequestOK(r) /\ r # NoRequest
      <3>1. CASE r \in GetTaskRequests
        BY <3>1 DEF RequestOK, GetTaskRequests, NoRequest
      <3>2. CASE r \in FinishComputeRequests
        <4>1. PICK c \in Clients, S \in SUBSET Tasks : r = FinishComputeRequest(c, S)
          BY <3>2 DEF FinishComputeRequests
        <4>2. r \in [kind : {"finish_compute"}, client : Clients, task_item : [S -> Int]]
          BY <4>1, AnswerAssumption DEF FinishComputeRequest
        <4> QED
          BY <4>2 DEF RequestOK, NoRequest
      <3> QED
        BY <1>1, <3>1, <3>2 DEF WorkerInv, WorkersAreGivenTasks
    <2>4. SysTypeOK
      BY <1>1, <2>2, <2>3 DEF SysTypeOK, WorkerInv, WorkersTyped, LoopStates
    <2> QED
      BY <2>1, <2>4 DEF CountsComputingLoops
  <1> QED
    BY <1>1, JobInvariant, PTL

\* Handing out tasks in the first life of the master: a step of DpeMaster keeps
\* a task with the client that was handed it.
LEMMA HandedOnceInv == TypeOK /\ HandedOnce /\ [Next]_vars => HandedOnce'
  <1> SUFFICES ASSUME TypeOK, HandedOnce, [Next]_vars PROVE HandedOnce'
    OBVIOUS
  <1>0. starts \in Nat /\ handed \subseteq Clients \X Tasks
    BY BoundsAssumption DEF TypeOK
  <1>1. CASE Bind \/ BindFails
    BY <1>0, <1>1 DEF Bind, BindFails, FreshMemory, HandedOnce, NoTaskComputedTwice
  <1>2. ASSUME NEW read_state \in BOOLEAN, StartTasks(read_state) PROVE HandedOnce'
    BY <1>0, <1>2 DEF StartTasks, HandedOnce, NoTaskComputedTwice
  <1>3. CASE ExitDpe
    BY <1>0, <1>3 DEF ExitDpe, memory, HandedOnce, NoTaskComputedTwice
  <1>4. CASE Crash \/ CrashInSave
    BY <1>0, <1>4 DEF Crash, CrashInSave, FreshMemory, HandedOnce, NoTaskComputedTwice
  <1>5. ASSUME NEW r, Receive(r) PROVE HandedOnce'
    BY <1>0, <1>5 DEF Receive, memory, HandedOnce, NoTaskComputedTwice
  <1>6. ASSUME NEW B \in SUBSET task_pending_queue, GetTask(B) PROVE HandedOnce'
    <2>c. PICK c \in Clients : c = context.client
      BY <1>6 DEF GetTask, Processing, TypeOK, RequestOK, NoRequest, GetTaskRequests
    <2>1. /\ handed' = handed \cup {<<c, t>> : t \in B} /\ starts' = starts
          /\ task_pending_queue' = task_pending_queue \ B
          /\ phase' = phase /\ phase = "up"
      BY <1>6, <2>c DEF GetTask, Processing, WithoutFront
    <2>2. B \subseteq Tasks
      BY DEF TypeOK
    <2>3. \A d \in Clients : \A t : <<d, t>> \in handed' <=>
                                 <<d, t>> \in handed \/ (d = c /\ t \in B)
      BY <2>1
    <2>4. (starts = 0 => phase = "down" /\ handed = {})'
          /\ (starts = 1 /\ phase = "starting" => handed = {})'
      BY <2>1 DEF HandedOnce
    <2>5. (starts = 1 => \A d \in Clients : \A t \in task_pending_queue :
                            <<d, t>> \notin handed)'
      BY <2>1, <2>3 DEF HandedOnce
    <2>6. ASSUME starts = 1, NEW d \in Clients, NEW e \in Clients, NEW t \in Tasks,
                 <<d, t>> \in handed', <<e, t>> \in handed'
          PROVE  d = e
      <3>1. CASE t \in B
        BY <2>3, <2>6, <3>1 DEF HandedOnce
      <3>2. CASE t \notin B
        BY <2>3, <2>6, <3>2 DEF HandedOnce, NoTaskComputedTwice
      <3> QED
        BY <3>1, <3>2
    <2> QED
      BY <2>1, <2>4, <2>5, <2>6 DEF HandedOnce, NoTaskComputedTwice
  <1>7. CASE FinishCompute
    BY <1>0, <1>7 DEF FinishCompute, TakeResults, HandedOnce, NoTaskComputedTwice
  <1>8. CASE UNCHANGED vars
    BY <1>0, <1>8 DEF vars, memory, HandedOnce, NoTaskComputedTwice
  <1> QED
    BY <1>1, <1>2, <1>3, <1>4, <1>5, <1>6, <1>7, <1>8 DEF Next

\* The tasks a loop computes are as many as its batch_size allows, however
\* requests and replies are lost or late, and in one life of the master no task
\* is handed to two loops.
THEOREM BatchesRight == SysSpec => []BatchesAreRight
  <1>1. SysInit => HandedOnce
    BY DEF SysInit, Init, HandedOnce, NoTaskComputedTwice
  <1>2. WorkerInv /\ HandedOnce => BatchesAreRight
    BY DEF WorkerInv, SizesRespected, Fits, HandedOnce, BatchesAreRight, BatchSizeRespected
  <1>3. TypeOK /\ WorkerInv /\ HandedOnce /\ [SysNext]_sysVars => HandedOnce'
    BY HandedOnceInv, JobStep
  <1> QED
    BY <1>1, <1>2, <1>3, JobInvariant, PTL DEF SysSpec

\* With a disk that works, a job that called Finish can be loaded again,
\* complete, whatever the workers and the network did.
THEOREM JobIsSaved == SysSpec => []FinishedJobIsSaved
  BY JobImplementsMaster, FinishIsSaved, PTL DEF JobIsMaster

\* The Solver of a job is told every result exactly once in a life of the
\* master, and the right one.
THEOREM JobTellsOnce == SysSpec => []SolverToldOnce
  BY JobImplementsMaster, ToldOnce, PTL DEF JobIsMaster
=============================================================================
