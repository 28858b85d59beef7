------------------------ MODULE DpeScheduler_proofs ------------------------
(***************************************************************************)
(* Proofs about a job of dpe_service, for any number of services and tasks *)
(* and whatever messages are lost, late or refused.                        *)
(***************************************************************************)
EXTENDS DpeScheduler, QueueFacts

-----------------------------------------------------------------------------
(***************************************************************************)
(* The inductive invariant.                                                *)
(***************************************************************************)
DoTasks == {DoTaskMessage(t) : t \in Tasks}
TaskReplies ==
    {NoTaskReply} \cup {TaskReply(-1, t, 0) : t \in Tasks}
                  \cup {TaskReply(0, t, Output[t]) : t \in Tasks}
\* The messages that tell the scheduler that a device is idle.
Signals == TaskReplies \cup {Reply("InitJob", 0)}

DeviceStates == {"IDLE", "READY", "INITIALIZING", "RUNNING_IDLE", "RUNNING", "FAILED"}
TaskStates == {"NONE", "PENDING", "RUNNING", "FINISH", "ERROR"}

\* A task is on its way to a device, or with it, or its answer is on the way
\* back, or the scheduler takes the device for idle: never two of these.  In all
\* but the second case an open device is idle.  (The device's own state is dev,
\* the one the scheduler holds is state, to and from are the channels.)
OneAtATime(dev, state, to, from) ==
    /\ AtMostOne(to, DoTasks)
    /\ AtMostOne(from, Signals)
    /\ ~(Has(to, DoTasks) /\ Has(from, Signals))
    /\ state = "RUNNING_IDLE" => ~Has(to, DoTasks) /\ ~Has(from, Signals)
    /\ Has(to, DoTasks) \/ Has(from, Signals) \/ state = "RUNNING_IDLE" =>
          dev \in {"RUNNING_IDLE", "none", "CLOSED"}

\* A device that was given a task is taken for busy, or for failed, until its
\* answer is handled.
GivenIsBusy(conn, dev, state, to, from) ==
    conn /\ (Has(to, DoTasks) \/ dev = "RUNNING" \/ Has(from, TaskReplies)) =>
        state \in {"RUNNING", "FAILED"}

DeviceOK(conn, dev, task, state, to, from) ==
    /\ OneAtATime(dev, state, to, from)
    /\ GivenIsBusy(conn, dev, state, to, from)
    /\ ~conn => from = <<>> /\ state = "IDLE"
    /\ dev = "RUNNING" => task \in Tasks

DeviceInv ==
    \A s \in Services : DeviceOK(connected[s], device[s], task_id[s], device_state[s],
                                 to_device[s], from_device[s])

\* The tasks are being distributed.
Distributing == job_state = "RUNNING" /\ source = "stopped"

\* Before the source has stopped, and after the job, there is nothing to do.
NothingBefore ==
    /\ ~Distributing =>
          /\ task_queue = <<>> /\ running_queue = {} /\ will_reduce = 0
          /\ \A s \in Services : device_state[s] # "RUNNING"
    /\ job_state = "RUNNING" /\ source # "stopped" => reduced = <<>>
    /\ job_state # "RUNNING" => device_list = <<>>

\* A device is in the list once, no second one of its service is asked for, and
\* a device the scheduler is subscribed to is in the list.
ListedOnce ==
    /\ \A i \in 1..Len(device_list) : creator[device_list[i]] = "has_device"
    /\ \A i, j \in 1..Len(device_list) : device_list[i] = device_list[j] => i = j
    /\ \A s \in Services : connected[s] => \E i \in 1..Len(device_list) : device_list[i] = s

\* ReduceResult is posted once, and nothing is left to do from then on.
ReducedOnce ==
    job_state = "RUNNING" =>
        /\ will_reduce + Len(reduced) <= 1
        /\ will_reduce > 0 \/ reduced # <<>> => NothingLeft

\* A task of a running job that is not finished has no result.
EmptyBefore ==
    job_state = "RUNNING" => \A t \in Tasks : task_state[t] # "FINISH" => result[t] = NoResult

ResultsInv == ResultsAreRight /\ EmptyBefore

\* What concerns the tasks and not the devices.
TaskInv ==
    /\ NothingBefore
    /\ QueuesMatchStates
    /\ BusyDevicesDiffer
    /\ ResultsInv
    /\ ReducedOnce
    /\ SinkGetsEveryResult

IInv == TypeOK /\ DeviceInv /\ ListedOnce /\ TaskInv

-----------------------------------------------------------------------------
(***************************************************************************)
(* Messages and what they do to the state of a device.                     *)
(***************************************************************************)
\* The kind of a message tells what it carries.
LEMMA ToDeviceKinds ==
    /\ DoTasks \subseteq MessagesToDevice
    /\ \A k \in {"HeartBeat", "InitJob", "CloseDevice"} :
          Message(k) \in MessagesToDevice /\ Message(k) \notin DoTasks
    /\ \A m \in MessagesToDevice : m.message = "DoTask" <=> m \in DoTasks
    /\ \A m \in DoTasks : m.task \in Tasks
  <1>1. /\ \A m \in DoTasks : m.message = "DoTask" /\ m.task \in Tasks
        /\ DoTasks \subseteq MessagesToDevice
    BY DEF MessagesToDevice, DoTasks, DoTaskMessage
  <1>2. \A k : Message(k).message = k
    BY DEF Message
  <1>3. \A k \in {"HeartBeat", "InitJob", "CloseDevice"} :
          Message(k) \in MessagesToDevice /\ Message(k) \notin DoTasks
    BY <1>1, <1>2 DEF MessagesToDevice
  <1>4. \A m \in MessagesToDevice :
           m \in DoTasks \/ \E k \in {"HeartBeat", "InitJob", "CloseDevice"} : m = Message(k)
    BY DEF MessagesToDevice, DoTasks
  <1> QED
    BY <1>1, <1>2, <1>3, <1>4

LEMMA FromDeviceKinds ==
    /\ Signals \subseteq MessagesFromDevice /\ TaskReplies \subseteq Signals
    /\ Reply("HeartBeat", 0) \in MessagesFromDevice /\ Reply("HeartBeat", 0) \notin Signals
    /\ Reply("InitJob", -1) \in MessagesFromDevice /\ Reply("InitJob", -1) \notin Signals
    /\ Reply("InitJob", 0) \in Signals /\ Reply("InitJob", 0) \notin TaskReplies
    /\ NoTaskReply \in TaskReplies
    /\ \A t \in Tasks : TaskReply(-1, t, 0) \in TaskReplies
                        /\ TaskReply(0, t, Output[t]) \in TaskReplies
    /\ \A m \in MessagesFromDevice :
          /\ m.message = "DoTask" <=> m \in TaskReplies
          /\ m.message = "InitJob" /\ m.error_code = 0 => m \in Signals
          /\ m.message = "DoTask" /\ m.error_code = 0 =>
                m.task_id \in Tasks /\ m.task_output = Output[m.task_id]
  <1>1. \A m \in TaskReplies : m.message = "DoTask"
    BY DEF TaskReplies, NoTaskReply, TaskReply
  <1>2. Signals \subseteq MessagesFromDevice /\ TaskReplies \subseteq Signals
    BY DEF Signals, TaskReplies, MessagesFromDevice
  <1>3. \A k, c : Reply(k, c).message = k /\ Reply(k, c).error_code = c
    BY DEF Reply
  <1>4. /\ Reply("HeartBeat", 0) \in MessagesFromDevice
        /\ Reply("InitJob", -1) \in MessagesFromDevice
        /\ Reply("InitJob", 0) \in Signals
    BY DEF Signals, MessagesFromDevice
  <1>5. /\ Reply("HeartBeat", 0) \notin Signals /\ Reply("InitJob", -1) \notin Signals
        /\ Reply("InitJob", 0) \notin TaskReplies
    BY <1>1, <1>3 DEF Signals
  <1>6. NoTaskReply \in TaskReplies
        /\ \A t \in Tasks : TaskReply(-1, t, 0) \in TaskReplies
                            /\ TaskReply(0, t, Output[t]) \in TaskReplies
    BY DEF TaskReplies
  <1>7. \A m \in MessagesFromDevice :
           m \in TaskReplies \/ m = Reply("HeartBeat", 0) \/ m = Reply("InitJob", 0)
                             \/ m = Reply("InitJob", -1)
    BY DEF TaskReplies, MessagesFromDevice
  <1>8. ASSUME NEW m \in TaskReplies, m.error_code = 0
        PROVE  m.task_id \in Tasks /\ m.task_output = Output[m.task_id]
    BY <1>8 DEF TaskReplies, NoTaskReply, TaskReply
  <1> QED
    BY <1>1, <1>2, <1>3, <1>4, <1>5, <1>6, <1>7, <1>8

\* A message that is not a DoTask is sent to a device.
LEMMA SendKeeps ==
    ASSUME NEW conn, NEW dev, NEW task, NEW state, NEW to \in Seq(MessagesToDevice),
           NEW from, DeviceOK(conn, dev, task, state, to, from),
           NEW m \in MessagesToDevice \ DoTasks
    PROVE  DeviceOK(conn, dev, task, state, Append(to, m), from)
  <1>1. /\ Has(Append(to, m), DoTasks) => Has(to, DoTasks)
        /\ AtMostOne(to, DoTasks) => AtMostOne(Append(to, m), DoTasks)
    <2>1. m \in MessagesToDevice /\ m \notin DoTasks
      OBVIOUS
    <2> QED
      BY <2>1, AppendOther
  <1> QED
    BY <1>1 DEF DeviceOK, OneAtATime, GivenIsBusy

\* A task is sent to a device that is taken for idle.
LEMMA GiveTask ==
    ASSUME NEW conn, NEW dev, NEW task, NEW to \in Seq(MessagesToDevice), NEW from,
           DeviceOK(conn, dev, task, "RUNNING_IDLE", to, from), NEW t \in Tasks
    PROVE  /\ DeviceOK(conn, dev, task, "RUNNING", Append(to, DoTaskMessage(t)), from)
           /\ DeviceOK(conn, dev, task, "RUNNING", to, from)
  <1>1. DoTaskMessage(t) \in DoTasks /\ DoTaskMessage(t) \in MessagesToDevice
    BY ToDeviceKinds DEF DoTasks
  <1>2. /\ Has(Append(to, DoTaskMessage(t)), DoTasks)
        /\ ~Has(to, DoTasks) => AtMostOne(Append(to, DoTaskMessage(t)), DoTasks)
    BY <1>1, AppendHas
  <1> QED
    BY <1>2 DEF DeviceOK, OneAtATime, GivenIsBusy

\* The device takes a message that is not a DoTask.
LEMMA TakeKeeps ==
    ASSUME NEW conn, NEW dev, NEW task, NEW state, NEW to \in Seq(MessagesToDevice),
           NEW from, DeviceOK(conn, dev, task, state, to, from), to # <<>>
    PROVE  DeviceOK(conn, dev, task, state, Tail(to), from)
  BY TailHas DEF DeviceOK, OneAtATime, GivenIsBusy

\* The device answers with something that is no signal.
LEMMA AnswerKeeps ==
    ASSUME NEW conn, NEW dev, NEW task, NEW state, NEW to,
           NEW from \in Seq(MessagesFromDevice),
           DeviceOK(conn, dev, task, state, to, from), conn,
           NEW m \in MessagesFromDevice \ Signals
    PROVE  DeviceOK(conn, dev, task, state, to, Append(from, m))
  <1>1. m \notin TaskReplies /\ m \in MessagesFromDevice /\ m \notin Signals
    BY FromDeviceKinds
  <1>2. /\ Has(Append(from, m), Signals) => Has(from, Signals)
        /\ AtMostOne(from, Signals) => AtMostOne(Append(from, m), Signals)
    BY <1>1, AppendOther
  <1>3. Has(Append(from, m), TaskReplies) => Has(from, TaskReplies)
    BY <1>1, AppendOther
  <1> QED
    BY <1>2, <1>3 DEF DeviceOK, OneAtATime, GivenIsBusy

\* The scheduler handles a message and leaves the state of the device.
LEMMA HandleKeeps ==
    ASSUME NEW conn, NEW dev, NEW task, NEW state, NEW to,
           NEW from \in Seq(MessagesFromDevice),
           DeviceOK(conn, dev, task, state, to, from), conn, from # <<>>
    PROVE  DeviceOK(conn, dev, task, state, to, Tail(from))
  BY TailHas DEF DeviceOK, OneAtATime, GivenIsBusy

-----------------------------------------------------------------------------
(***************************************************************************)
(* Handing out tasks.                                                      *)
(***************************************************************************)
\* What OnDeviceAvailable does: the first n tasks of tq go to the n devices d,
\* which were idle.
HandedOut(states, ts, tq, rq, n, d) ==
    /\ n \in 0..Len(tq) /\ d \in [1..n -> Services]
    /\ \A i, j \in 1..n : d[i] = d[j] => i = j
    /\ \A i \in 1..n : states[d[i]] = "RUNNING_IDLE"
    /\ device_state' = [s \in Services |-> IF \E i \in 1..n : d[i] = s THEN "RUNNING"
                                                                      ELSE states[s]]
    /\ curr_task' \in [Services -> Tasks \cup {NoTask}]
    /\ \A i \in 1..n : curr_task'[d[i]] = tq[i]
    /\ \A s \in Services : (\A i \in 1..n : d[i] # s) => curr_task'[s] = curr_task[s]
    /\ task_state' = [t \in Tasks |-> IF \E i \in 1..n : tq[i] = t THEN "RUNNING" ELSE ts[t]]
    /\ running_queue' = rq \cup {tq[i] : i \in 1..n}
    /\ task_queue' \in Seq(Tasks) /\ Len(task_queue') = Len(tq) - n
    /\ \A i \in 1..(Len(tq) - n) : task_queue'[i] = tq[i + n]
    /\ to_device' \in [Services -> Seq(MessagesToDevice)]
    /\ \A i \in 1..n : \/ to_device'[d[i]] = to_device[d[i]]
                       \/ to_device'[d[i]] = Append(to_device[d[i]], DoTaskMessage(tq[i]))
    /\ \A s \in Services : (\A i \in 1..n : d[i] # s) => to_device'[s] = to_device[s]

\* As many pairs as there are devices.
Pairs(d, q, n) == {<<d[i], q[i]>> : i \in 1..n}

LEMMA PairsCounted ==
    ASSUME NEW n \in Nat, NEW d, NEW q, \A i, j \in 1..n : d[i] = d[j] => i = j
    PROVE  Cardinality(Pairs(d, q, n)) = n
  <1> DEFINE P == {<<d[i], q[i]>> : i \in 1..n}
             f == [i \in 1..n |-> <<d[i], q[i]>>]
  <1>1. f \in Bijection(1..n, P)
    <2>1. f \in [1..n -> P]
      OBVIOUS
    <2>2. ASSUME NEW i \in 1..n, NEW j \in 1..n, f[i] = f[j] PROVE i = j
      <3>1. <<d[i], q[i]>> = <<d[j], q[j]>>
        BY <2>2
      <3> QED
        BY <3>1
    <2>3. \A p \in P : \E i \in 1..n : f[i] = p
      OBVIOUS
    <2> HIDE DEF f, P
    <2>4. f \in Injection(1..n, P)
      <3>1. \A i, j \in 1..n : f[i] = f[j] => i = j
        BY <2>2
      <3> QED
        BY <2>1, <3>1 DEF Injection, IsInjective
    <2>5. f \in Surjection(1..n, P)
      BY <2>1, <2>3 DEF Surjection
    <2> QED
      BY <2>4, <2>5 DEF Bijection
  <1>2. ExistsBijection(1..n, P)
    BY <1>1 DEF ExistsBijection
  <1> HIDE DEF P
  <1>3. Cardinality(P) = n
    BY <1>2, FS_CountingElements
  <1> QED
    BY <1>3 DEF P, Pairs

LEMMA HandOutFacts ==
    ASSUME TypeOK, ListedOnce, NEW states \in [Services -> DeviceStates],
           NEW ts \in [Tasks -> TaskStates], NEW tq \in Seq(Tasks), NEW rq \in SUBSET Tasks,
           OnDeviceAvailable(states, ts, tq, rq)
    PROVE  \E n, d : HandedOut(states, ts, tq, rq, n, d)
  <1> DEFINE idle == Idle(states)
             n == IF Len(idle) < Len(tq) THEN Len(idle) ELSE Len(tq)
             d == [i \in 1..n |-> idle[i]]
  <1>1. /\ idle \in Seq(Services) /\ Len(idle) \in Nat
        /\ \A k \in 1..Len(idle) : states[idle[k]] = "RUNNING_IDLE"
        /\ \A k, m \in 1..Len(idle) : idle[k] = idle[m] => k = m
    <2>1. device_list \in Seq(Services)
      BY DEF TypeOK
    <2>2. PICK S : S = {s \in Services : states[s] = "RUNNING_IDLE"}
      OBVIOUS
    <2>3. /\ Select(device_list, S) \in Seq(Services)
          /\ Selected(device_list, S, Len(device_list), Select(device_list, S))
      BY <2>1, SelectFacts
    <2>4. idle = Select(device_list, S)
      BY <2>2 DEF Idle
    <2>5. \A k, m \in 1..Len(idle) : idle[k] = idle[m] => k = m
      BY <2>3, <2>4 DEF Selected, ListedOnce
    <2>6. \A k \in 1..Len(idle) : idle[k] \in S
      BY <2>3, <2>4 DEF Selected
    <2> QED
      BY <2>2, <2>3, <2>4, <2>5, <2>6
  <1>t. Len(tq) \in Nat /\ \A i \in 1..Len(tq) : tq[i] \in Tasks
    OBVIOUS
  <1>2. n \in Nat /\ n <= Len(idle) /\ n <= Len(tq)
    BY <1>1, <1>t
  <1>3. /\ d \in [1..n -> Services]
        /\ \A i \in 1..n : states[d[i]] = "RUNNING_IDLE" /\ tq[i] \in Tasks
        /\ \A i, j \in 1..n : d[i] = d[j] => i = j
    BY <1>1, <1>t, <1>2
  <1> DEFINE out == HandOut(states, tq)
  <1>4. out = Pairs(d, tq, n)
    BY DEF HandOut, Pairs
  <1> HIDE DEF n, d, idle
  <1> DEFINE TaskOf(s) == (CHOOSE p \in out : p[1] = s)[2]
             busy == {p[1] : p \in out}
             taken == {p[2] : p \in out}
  <1>5. /\ device_state' = [s \in Services |-> IF s \in busy THEN "RUNNING" ELSE states[s]]
        /\ curr_task' = [s \in Services |-> IF s \in busy THEN TaskOf(s) ELSE curr_task[s]]
        /\ task_state' = [t \in Tasks |-> IF t \in taken THEN "RUNNING" ELSE ts[t]]
        /\ running_queue' = rq \cup taken
        /\ task_queue' = LeftOver(tq, Cardinality(out))
        /\ \E lost \in SUBSET busy :
             to_device' = [s \in Services |->
                             IF s \in busy \ lost /\ Open(s)
                             THEN Append(to_device[s], DoTaskMessage(TaskOf(s)))
                             ELSE to_device[s]]
    BY DEF OnDeviceAvailable
  <1> HIDE DEF out
  <1>a. /\ \A i \in 1..n : <<d[i], tq[i]>> \in out
        /\ \A p \in out : \E i \in 1..n : p[1] = d[i] /\ p[2] = tq[i]
    BY <1>4 DEF Pairs
  <1>6. /\ \A s : s \in busy <=> \E i \in 1..n : d[i] = s
        /\ \A t : t \in taken <=> \E i \in 1..n : tq[i] = t
    <2>1. \A i \in 1..n : d[i] \in busy /\ tq[i] \in taken
      <3> SUFFICES ASSUME NEW i \in 1..n PROVE d[i] \in busy /\ tq[i] \in taken
        OBVIOUS
      <3>1. PICK p \in out : p = <<d[i], tq[i]>>
        BY <1>a
      <3> QED
        BY <3>1
    <2>2. /\ \A s \in busy : \E i \in 1..n : d[i] = s
          /\ \A t \in taken : \E i \in 1..n : tq[i] = t
      BY <1>a
    <2> QED
      BY <2>1, <2>2
  <1>7. \A i \in 1..n : TaskOf(d[i]) = tq[i]
    <2> SUFFICES ASSUME NEW i \in 1..n PROVE TaskOf(d[i]) = tq[i]
      OBVIOUS
    <2>1. <<d[i], tq[i]>> \in out /\ <<d[i], tq[i]>>[1] = d[i]
      BY <1>a
    <2>2. \A p \in out : p[1] = d[i] => p[2] = tq[i]
      BY <1>3, <1>a
    <2>3. (CHOOSE p \in out : p[1] = d[i]) \in out
          /\ (CHOOSE p \in out : p[1] = d[i])[1] = d[i]
      BY <2>1
    <2> QED
      BY <2>2, <2>3
  <1>8. Cardinality(out) = n
    <2>1. \A i, j \in 1..n : d[i] = d[j] => i = j
      BY <1>3
    <2>2. Cardinality(Pairs(d, tq, n)) = n
      BY <1>2, <2>1, PairsCounted
    <2> QED
      BY <1>4, <2>2
  <1> HIDE DEF busy, taken, TaskOf
  <1>9. /\ task_queue' \in Seq(Tasks) /\ Len(task_queue') = Len(tq) - n
        /\ \A i \in 1..(Len(tq) - n) : task_queue'[i] = tq[i + n]
    <2>1. task_queue' = SubSeq(tq, n + 1, Len(tq))
      BY <1>5, <1>8 DEF LeftOver
    <2> QED
      BY <1>2, <1>t, <2>1
  <1>10. /\ \A i \in 1..n : curr_task'[d[i]] = tq[i]
         /\ \A s \in Services : (\A i \in 1..n : d[i] # s) => curr_task'[s] = curr_task[s]
         /\ curr_task' \in [Services -> Tasks \cup {NoTask}]
    <2>1. \A s \in Services : s \in busy => TaskOf(s) \in Tasks
      BY <1>3, <1>6, <1>7
    <2> QED
      BY <1>3, <1>5, <1>6, <1>7, <2>1 DEF TypeOK
  <1>11. /\ to_device' \in [Services -> Seq(MessagesToDevice)]
         /\ \A i \in 1..n :
               \/ to_device'[d[i]] = to_device[d[i]]
               \/ to_device'[d[i]] = Append(to_device[d[i]], DoTaskMessage(tq[i]))
         /\ \A s \in Services : (\A i \in 1..n : d[i] # s) => to_device'[s] = to_device[s]
    <2>1. PICK lost \in SUBSET busy :
             to_device' = [s \in Services |->
                             IF s \in busy \ lost /\ Open(s)
                             THEN Append(to_device[s], DoTaskMessage(TaskOf(s)))
                             ELSE to_device[s]]
      BY <1>5
    <2>2. to_device \in [Services -> Seq(MessagesToDevice)]
      BY DEF TypeOK, DevicesTypeOK
    <2>3. \A s \in Services : s \in busy => DoTaskMessage(TaskOf(s)) \in MessagesToDevice
      BY <1>3, <1>6, <1>7 DEF MessagesToDevice
    <2>4. \A s \in Services :
            s \in busy => Append(to_device[s], DoTaskMessage(TaskOf(s))) \in Seq(MessagesToDevice)
      BY <2>2, <2>3, AppendFacts
    <2> QED
      BY <1>3, <1>6, <1>7, <2>1, <2>2, <2>4
  <1>12. /\ device_state' = [s \in Services |-> IF \E i \in 1..n : d[i] = s THEN "RUNNING"
                                                                           ELSE states[s]]
         /\ task_state' = [t \in Tasks |-> IF \E i \in 1..n : tq[i] = t THEN "RUNNING"
                                                                        ELSE ts[t]]
    BY <1>5, <1>6
  <1>13. running_queue' = rq \cup {tq[i] : i \in 1..n}
    BY <1>5, <1>6
  <1>14. HandedOut(states, ts, tq, rq, n, d)
    BY <1>2, <1>3, <1>9, <1>10, <1>11, <1>12, <1>13, <1>t DEF HandedOut
  <1> QED
    BY <1>14

\* QueuesMatchStates and BusyDevicesDiffer for given states and queues.
Accounted(ts, tq, rq) ==
    /\ \A t \in Tasks :
          /\ ts[t] = "PENDING" <=> \E i \in 1..Len(tq) : tq[i] = t
          /\ ts[t] = "RUNNING" <=> t \in rq
    /\ \A i, j \in 1..Len(tq) : tq[i] = tq[j] => i = j

Busy(states, cur, rq) ==
    \A s \in Services : states[s] = "RUNNING" =>
        /\ cur[s] \in rq
        /\ \A r \in Services : states[r] = "RUNNING" /\ cur[r] = cur[s] => r = s

LEMMA QueuesAreAccounted ==
    ASSUME task_queue \in Seq(Tasks)
    PROVE  QueuesMatchStates <=>
             (Distributing => Accounted(task_state, task_queue, running_queue))
  <1>1. DOMAIN task_queue = 1..Len(task_queue)
        /\ \A i \in 1..Len(task_queue) : task_queue[i] \in Tasks
    OBVIOUS
  <1> QED
    BY <1>1 DEF QueuesMatchStates, Distributing, Accounted

\* Handing out moves tasks from one queue to the other.
LEMMA HandOutAccounted ==
    ASSUME NEW states, NEW ts \in [Tasks -> TaskStates], NEW tq \in Seq(Tasks),
           NEW rq \in SUBSET Tasks, NEW n, NEW d, HandedOut(states, ts, tq, rq, n, d),
           Accounted(ts, tq, rq)
    PROVE  /\ Accounted(task_state, task_queue, running_queue)'
           /\ task_state' \in [Tasks -> TaskStates]
           /\ running_queue' \subseteq Tasks
           /\ \A t \in Tasks : task_state'[t] = "FINISH" <=> ts[t] = "FINISH"
           /\ \A t \in Tasks : task_state'[t] = "NONE" <=> ts[t] = "NONE"
  <1>1. /\ n \in Nat /\ Len(tq) \in Nat /\ n <= Len(tq)
        /\ \A i \in 1..Len(tq) : tq[i] \in Tasks /\ ts[tq[i]] = "PENDING"
        /\ 1..n \subseteq 1..Len(tq)
    <2>1. n \in 0..Len(tq) /\ Len(tq) \in Nat
      BY DEF HandedOut
    <2>2. \A i \in 1..Len(tq) : tq[i] \in Tasks
      OBVIOUS
    <2> QED
      BY <2>1, <2>2 DEF Accounted
  <1>2. /\ \A t \in Tasks : task_state'[t] = IF \E i \in 1..n : tq[i] = t THEN "RUNNING"
                                                                          ELSE ts[t]
        /\ task_state' \in [Tasks -> TaskStates]
        /\ running_queue' = rq \cup {tq[i] : i \in 1..n}
        /\ Len(task_queue') = Len(tq) - n
        /\ \A i \in 1..(Len(tq) - n) : task_queue'[i] = tq[i + n]
    BY DEF HandedOut, TaskStates
  <1>3. ASSUME NEW t \in Tasks
        PROVE  (\E i \in 1..Len(task_queue') : task_queue'[i] = t) <=>
                 (ts[t] = "PENDING" /\ ~\E i \in 1..n : tq[i] = t)
    <2>1. ASSUME NEW i \in 1..Len(task_queue'), task_queue'[i] = t
          PROVE  ts[t] = "PENDING" /\ ~\E j \in 1..n : tq[j] = t
      <3>1. i + n \in 1..Len(tq) /\ tq[i + n] = t
        BY <1>1, <1>2, <2>1
      <3>2. \A j \in 1..n : tq[j] # t
        BY <1>1, <3>1 DEF Accounted
      <3> QED
        BY <1>1, <3>1, <3>2
    <2>2. ASSUME ts[t] = "PENDING", ~\E i \in 1..n : tq[i] = t
          PROVE  \E i \in 1..Len(task_queue') : task_queue'[i] = t
      <3>1. PICK j \in 1..Len(tq) : tq[j] = t
        BY <2>2 DEF Accounted
      <3>2. j - n \in 1..(Len(tq) - n) /\ (j - n) + n = j
        BY <1>1, <2>2, <3>1
      <3> QED
        BY <1>2, <3>1, <3>2
    <2> QED
      BY <2>1, <2>2
  <1>4. ASSUME NEW i \in 1..Len(task_queue'), NEW j \in 1..Len(task_queue'),
               task_queue'[i] = task_queue'[j]
        PROVE  i = j
    <2>1. i + n \in 1..Len(tq) /\ j + n \in 1..Len(tq) /\ tq[i + n] = tq[j + n]
      BY <1>1, <1>2, <1>4
    <2>2. i + n = j + n
      BY <2>1 DEF Accounted
    <2> QED
      BY <1>1, <1>2, <2>2
  <1>5. ASSUME NEW t \in Tasks
        PROVE  /\ task_state'[t] = "PENDING" <=>
                    (ts[t] = "PENDING" /\ ~\E i \in 1..n : tq[i] = t)
               /\ task_state'[t] = "RUNNING" <=> t \in running_queue'
               /\ task_state'[t] = "FINISH" <=> ts[t] = "FINISH"
               /\ task_state'[t] = "NONE" <=> ts[t] = "NONE"
    <2>1. (\E i \in 1..n : tq[i] = t) => ts[t] = "PENDING"
      BY <1>1
    <2>2. t \in running_queue' <=> t \in rq \/ \E i \in 1..n : tq[i] = t
      BY <1>2
    <2> QED
      BY <1>2, <2>1, <2>2 DEF Accounted
  <1>6. running_queue' \subseteq Tasks
    BY <1>1, <1>2
  <1>7. Accounted(task_state, task_queue, running_queue)'
    BY <1>3, <1>4, <1>5 DEF Accounted
  <1> QED
    BY <1>2, <1>5, <1>6, <1>7

\* No device gets a task another one works on.
LEMMA HandOutBusy ==
    ASSUME NEW states, NEW ts, NEW tq \in Seq(Tasks), NEW rq, NEW n, NEW d,
           HandedOut(states, ts, tq, rq, n, d), Accounted(ts, tq, rq),
           Busy(states, curr_task, rq)
    PROVE  Busy(device_state, curr_task, running_queue)'
  <1>1. /\ n \in Nat /\ 1..n \subseteq 1..Len(tq)
        /\ \A i \in 1..n : tq[i] \in Tasks /\ tq[i] \notin rq
    <2>1. n \in 0..Len(tq) /\ Len(tq) \in Nat
      BY DEF HandedOut
    <2>2. \A i \in 1..Len(tq) : tq[i] \in Tasks
      OBVIOUS
    <2> QED
      BY <2>1, <2>2 DEF Accounted
  <1>2. ASSUME NEW s \in Services, device_state'[s] = "RUNNING"
        PROVE  \/ \E i \in 1..n : d[i] = s /\ curr_task'[s] = tq[i]
               \/ states[s] = "RUNNING" /\ curr_task'[s] = curr_task[s]
    <2>1. /\ device_state'[s] = IF \E i \in 1..n : d[i] = s THEN "RUNNING" ELSE states[s]
          /\ \A i \in 1..n : curr_task'[d[i]] = tq[i]
          /\ (\A i \in 1..n : d[i] # s) => curr_task'[s] = curr_task[s]
      BY DEF HandedOut
    <2> QED
      BY <1>2, <2>1
  <1>3. running_queue' = rq \cup {tq[i] : i \in 1..n}
    BY DEF HandedOut
  <1> SUFFICES ASSUME NEW s \in Services, device_state'[s] = "RUNNING"
               PROVE  /\ curr_task'[s] \in running_queue'
                      /\ \A r \in Services : device_state'[r] = "RUNNING"
                                             /\ curr_task'[r] = curr_task'[s] => r = s
    BY DEF Busy
  <1>4. curr_task'[s] \in running_queue'
    BY <1>2, <1>3 DEF Busy
  <1>5. ASSUME NEW r \in Services, device_state'[r] = "RUNNING", curr_task'[r] = curr_task'[s]
        PROVE  r = s
    <2>1. \A i, j \in 1..n : tq[i] = tq[j] => i = j
      BY <1>1 DEF Accounted
    <2>2. CASE \E i \in 1..n : d[i] = s /\ curr_task'[s] = tq[i]
      BY <1>1, <1>2, <1>5, <2>1, <2>2 DEF Busy
    <2>3. CASE states[s] = "RUNNING" /\ curr_task'[s] = curr_task[s]
      BY <1>1, <1>2, <1>5, <2>3 DEF Busy
    <2> QED
      BY <1>2, <2>2, <2>3
  <1> QED
    BY <1>4, <1>5

\* The devices that get a task were idle, and stay consistent.
LEMMA HandOutDevices ==
    ASSUME TypeOK, NEW states \in [Services -> DeviceStates], NEW ts, NEW tq \in Seq(Tasks),
           NEW rq, NEW n, NEW d, HandedOut(states, ts, tq, rq, n, d), NEW from,
           \A s \in Services : DeviceOK(connected[s], device[s], task_id[s], states[s],
                                        to_device[s], from[s])
    PROVE  /\ \A s \in Services :
                 DeviceOK(connected[s], device[s], task_id[s], device_state'[s],
                          to_device'[s], from[s])
           /\ device_state' \in [Services -> DeviceStates]
  <1>1. ASSUME NEW s \in Services
        PROVE  DeviceOK(connected[s], device[s], task_id[s], device_state'[s],
                        to_device'[s], from[s])
    <2>1. DeviceOK(connected[s], device[s], task_id[s], states[s], to_device[s], from[s])
          /\ to_device[s] \in Seq(MessagesToDevice)
      BY DEF TypeOK, DevicesTypeOK
    <2>2. CASE \A i \in 1..n : d[i] # s
      BY <2>1, <2>2 DEF HandedOut
    <2>3. ASSUME NEW i \in 1..n, d[i] = s
          PROVE  DeviceOK(connected[s], device[s], task_id[s], device_state'[s],
                          to_device'[s], from[s])
      <3>1. /\ device_state'[s] = "RUNNING" /\ states[s] = "RUNNING_IDLE"
            /\ \/ to_device'[s] = to_device[s]
               \/ to_device'[s] = Append(to_device[s], DoTaskMessage(tq[i]))
        BY <2>3 DEF HandedOut
      <3>2. tq[i] \in Tasks
        <4>1. n \in 0..Len(tq) /\ Len(tq) \in Nat
          BY DEF HandedOut
        <4> QED
          BY <4>1
      <3>3. /\ DeviceOK(connected[s], device[s], task_id[s], "RUNNING",
                        Append(to_device[s], DoTaskMessage(tq[i])), from[s])
            /\ DeviceOK(connected[s], device[s], task_id[s], "RUNNING", to_device[s], from[s])
        BY <2>1, <3>1, <3>2, GiveTask
      <3> QED
        BY <3>1, <3>3
    <2> QED
      BY <2>2, <2>3
  <1>2. device_state' \in [Services -> DeviceStates]
    BY DEF HandedOut, DeviceStates
  <1> QED
    BY <1>1, <1>2

-----------------------------------------------------------------------------
(***************************************************************************)
(* Steps of a device.                                                      *)
(***************************************************************************)
\* A device that was not idle becomes idle, and may say so.
LEMMA BecomesIdle ==
    ASSUME NEW conn, NEW dev, NEW task, NEW state, NEW to,
           NEW from \in Seq(MessagesFromDevice),
           DeviceOK(conn, dev, task, state, to, from),
           dev \notin {"RUNNING_IDLE", "none", "CLOSED"}, NEW m \in Signals,
           m \in TaskReplies => dev = "RUNNING"
    PROVE  /\ DeviceOK(conn, "RUNNING_IDLE", task, state, to, from)
           /\ conn => DeviceOK(conn, "RUNNING_IDLE", task, state, to, Append(from, m))
  <1>1. /\ ~Has(to, DoTasks) /\ ~Has(from, Signals) /\ state # "RUNNING_IDLE"
        /\ AtMostOne(to, DoTasks) /\ AtMostOne(from, Signals)
        /\ ~conn => from = <<>> /\ state = "IDLE"
        /\ conn /\ (dev = "RUNNING" \/ Has(from, TaskReplies)) => state \in {"RUNNING", "FAILED"}
    BY DEF DeviceOK, OneAtATime, GivenIsBusy
  <1>2. m \in MessagesFromDevice
    BY FromDeviceKinds
  <1>3. AtMostOne(Append(from, m), Signals)
    BY <1>1, <1>2, AppendHas
  <1>4. m \notin TaskReplies => (Has(Append(from, m), TaskReplies) => Has(from, TaskReplies))
    BY <1>2, AppendOther
  <1>5. DeviceOK(conn, "RUNNING_IDLE", task, state, to, from)
    BY <1>1 DEF DeviceOK, OneAtATime, GivenIsBusy
  <1>6. conn => DeviceOK(conn, "RUNNING_IDLE", task, state, to, Append(from, m))
    BY <1>1, <1>3, <1>4 DEF DeviceOK, OneAtATime, GivenIsBusy
  <1> QED
    BY <1>5, <1>6

\* A device that was not idle begins to compile, or fails.
LEMMA BecomesOther ==
    ASSUME NEW conn, NEW dev, NEW task, NEW state, NEW to, NEW from,
           DeviceOK(conn, dev, task, state, to, from),
           dev \notin {"RUNNING_IDLE", "none", "CLOSED"},
           NEW other \in {"INITIALIZING", "FAILED"}
    PROVE  DeviceOK(conn, other, task, state, to, from)
  BY DEF DeviceOK, OneAtATime, GivenIsBusy

\* A DoTask is refused, and the refusal may get lost.
LEMMA RefusesTask ==
    ASSUME NEW conn, NEW dev, NEW task, NEW state, NEW to \in Seq(MessagesToDevice),
           NEW from \in Seq(MessagesFromDevice),
           DeviceOK(conn, dev, task, state, to, from), to # <<>>, Head(to) \in DoTasks
    PROVE  conn => DeviceOK(conn, dev, task, state, Tail(to), Append(from, NoTaskReply))
  <1>1. /\ Has(to, DoTasks) /\ ~Has(Tail(to), DoTasks) /\ AtMostOne(Tail(to), DoTasks)
    BY TailHas DEF DeviceOK, OneAtATime
  <1>2. ~Has(from, Signals) /\ state # "RUNNING_IDLE" /\ dev \in {"RUNNING_IDLE", "none", "CLOSED"}
        /\ (conn => state \in {"RUNNING", "FAILED"})
    BY <1>1 DEF DeviceOK, OneAtATime, GivenIsBusy
  <1>3. NoTaskReply \in MessagesFromDevice
    BY FromDeviceKinds
  <1>4. AtMostOne(Append(from, NoTaskReply), Signals)
    BY <1>2, <1>3, AppendHas
  <1> QED
    BY <1>1, <1>2, <1>4 DEF DeviceOK, OneAtATime, GivenIsBusy

\* A DoTask is accepted.
LEMMA AcceptsTask ==
    ASSUME NEW conn, NEW dev, NEW task, NEW state, NEW to \in Seq(MessagesToDevice),
           NEW from, DeviceOK(conn, dev, task, state, to, from), to # <<>>,
           Head(to) \in DoTasks, NEW t \in Tasks
    PROVE  DeviceOK(conn, "RUNNING", t, state, Tail(to), from)
  <1>1. /\ Has(to, DoTasks) /\ ~Has(Tail(to), DoTasks) /\ AtMostOne(Tail(to), DoTasks)
    BY TailHas DEF DeviceOK, OneAtATime
  <1> QED
    BY <1>1 DEF DeviceOK, OneAtATime, GivenIsBusy

\* A device is closed.
LEMMA Closes ==
    ASSUME NEW conn, NEW dev, NEW task, NEW state, NEW to, NEW from,
           DeviceOK(conn, dev, task, state, to, from)
    PROVE  DeviceOK(conn, "CLOSED", NoTask, state, <<>>, from)
  BY EmptyHas DEF DeviceOK, OneAtATime, GivenIsBusy

LEMMA AnswerWithFacts ==
    ASSUME from_device \in [Services -> Seq(MessagesFromDevice)], NEW s \in Services,
           NEW m \in MessagesFromDevice, AnswerWith(s, m)
    PROVE  /\ from_device' \in [Services -> Seq(MessagesFromDevice)]
           /\ \A r \in Services : r # s => from_device'[r] = from_device[r]
           /\ \/ from_device'[s] = from_device[s]
              \/ connected[s] /\ from_device'[s] = Append(from_device[s], m)
  <1>1. PICK c \in Published(from_device[s], m) :
          from_device' = IF connected[s] THEN [from_device EXCEPT ![s] = c] ELSE from_device
    BY DEF AnswerWith
  <1>2. from_device[s] \in Seq(MessagesFromDevice)
        /\ Append(from_device[s], m) \in Seq(MessagesFromDevice)
    BY AppendFacts
  <1>3. c = Append(from_device[s], m) \/ c = from_device[s]
    BY DEF Published
  <1> QED
    BY <1>1, <1>2, <1>3

LEMMA ConsumeFacts ==
    ASSUME to_device \in [Services -> Seq(MessagesToDevice)], NEW s \in Services,
           NEW kind, Arrives(s, kind), Consume(s)
    PROVE  /\ to_device' \in [Services -> Seq(MessagesToDevice)]
           /\ \A r \in Services : r # s => to_device'[r] = to_device[r]
           /\ to_device'[s] = Tail(to_device[s])
           /\ to_device[s] # <<>> /\ to_device[s] \in Seq(MessagesToDevice)
           /\ Head(to_device[s]) \in MessagesToDevice
           /\ Head(to_device[s]).message = kind /\ Open(s)
  <1>1. to_device[s] \in Seq(MessagesToDevice) /\ to_device[s] # <<>>
    BY DEF Arrives
  <1>2. Tail(to_device[s]) \in Seq(MessagesToDevice) /\ Head(to_device[s]) \in MessagesToDevice
    BY <1>1, TailFacts
  <1> QED
    BY <1>1, <1>2 DEF Arrives, Consume

\* A device leaves the other devices alone.
OnlyDevice(s) ==
    /\ DevicesTypeOK'
    /\ connected' = connected
    /\ \A r \in Services : r # s => /\ device'[r] = device[r] /\ task_id'[r] = task_id[r]
                                    /\ to_device'[r] = to_device[r]
                                    /\ from_device'[r] = from_device[r]
    /\ DeviceOK(connected[s], device'[s], task_id'[s], device_state[s], to_device'[s],
                from_device'[s])

LEMMA DeviceStepFacts ==
    ASSUME TypeOK, NEW s \in Services, DeviceStep(s) \/ DeviceDies(s),
           DeviceOK(connected[s], device[s], task_id[s], device_state[s], to_device[s],
                    from_device[s])
    PROVE  OnlyDevice(s)
  <1>0. DevicesTypeOK /\ to_device \in [Services -> Seq(MessagesToDevice)]
        /\ from_device \in [Services -> Seq(MessagesFromDevice)]
        /\ to_device[s] \in Seq(MessagesToDevice) /\ from_device[s] \in Seq(MessagesFromDevice)
        /\ compiled \in [Services -> BOOLEAN] /\ connected \in [Services -> BOOLEAN]
    BY DEF TypeOK, DevicesTypeOK
  <1>1. CASE HandleHeartBeat(s) \/ RefuseInitJob(s)
    <2>1. PICK kind, m : /\ Arrives(s, kind) /\ Consume(s) /\ AnswerWith(s, m)
                         /\ m \in MessagesFromDevice /\ m \notin Signals
                         /\ UNCHANGED <<device, task_id, compiled, connected>>
      BY <1>1, FromDeviceKinds DEF HandleHeartBeat, RefuseInitJob
    <2>2. DeviceOK(connected[s], device[s], task_id[s], device_state[s], Tail(to_device[s]),
                   from_device[s])
      BY <1>0, <2>1, ConsumeFacts, TakeKeeps
    <2>3. connected[s] => DeviceOK(connected[s], device[s], task_id[s], device_state[s],
                                   Tail(to_device[s]), Append(from_device[s], m))
      <3>1. m \in MessagesFromDevice \ Signals
        BY <2>1
      <3> QED
        BY <1>0, <2>2, <3>1, AnswerKeeps
    <2> QED
      BY <1>0, <2>1, <2>2, <2>3, ConsumeFacts, AnswerWithFacts DEF OnlyDevice, DevicesTypeOK
  <1>2. CASE AcceptInitJob(s)
    <2>1. Arrives(s, "InitJob") /\ Consume(s) /\ device[s] = "WAITING"
          /\ UNCHANGED <<task_id, compiled, connected>>
      BY <1>2 DEF AcceptInitJob
    <2>2. DeviceOK(connected[s], "WAITING", task_id[s], device_state[s], Tail(to_device[s]),
                   from_device[s])
      BY <1>0, <2>1, ConsumeFacts, TakeKeeps
    <2>3. CASE compiled[s]
      <3>1. device' = [device EXCEPT ![s] = "RUNNING_IDLE"]
            /\ AnswerWith(s, Reply("InitJob", 0))
        BY <1>2, <2>3 DEF AcceptInitJob
      <3>2. Reply("InitJob", 0) \in Signals /\ Reply("InitJob", 0) \notin TaskReplies
            /\ Reply("InitJob", 0) \in MessagesFromDevice
        BY FromDeviceKinds
      <3>3. /\ DeviceOK(connected[s], "RUNNING_IDLE", task_id[s], device_state[s],
                        Tail(to_device[s]), from_device[s])
            /\ connected[s] => DeviceOK(connected[s], "RUNNING_IDLE", task_id[s],
                                        device_state[s], Tail(to_device[s]),
                                        Append(from_device[s], Reply("InitJob", 0)))
        <4>1. PICK to : to = Tail(to_device[s])
          OBVIOUS
        <4>2. "WAITING" \notin {"RUNNING_IDLE", "none", "CLOSED"} /\ "WAITING" # "RUNNING"
          OBVIOUS
        <4>3. DeviceOK(connected[s], "WAITING", task_id[s], device_state[s], to, from_device[s])
          BY <2>2, <4>1
        <4>4. /\ DeviceOK(connected[s], "RUNNING_IDLE", task_id[s], device_state[s], to,
                          from_device[s])
              /\ connected[s] => DeviceOK(connected[s], "RUNNING_IDLE", task_id[s],
                                          device_state[s], to,
                                          Append(from_device[s], Reply("InitJob", 0)))
          BY <1>0, <3>2, <4>2, <4>3, BecomesIdle
        <4> QED
          BY <4>1, <4>4
      <3> QED
        BY <1>0, <2>1, <3>1, <3>2, <3>3, ConsumeFacts, AnswerWithFacts
           DEF OnlyDevice, DevicesTypeOK
    <2>4. CASE ~compiled[s]
      <3>1. device' = [device EXCEPT ![s] = "INITIALIZING"] /\ from_device' = from_device
        BY <1>2, <2>4 DEF AcceptInitJob
      <3>2. DeviceOK(connected[s], "INITIALIZING", task_id[s], device_state[s],
                     Tail(to_device[s]), from_device[s])
        BY <2>2, BecomesOther
      <3> QED
        BY <1>0, <2>1, <3>1, <3>2, ConsumeFacts DEF OnlyDevice, DevicesTypeOK
    <2> QED
      BY <2>3, <2>4
  <1>3. CASE RefuseDoTask(s)
    <2>1. Arrives(s, "DoTask") /\ Consume(s) /\ AnswerWith(s, NoTaskReply)
          /\ UNCHANGED <<device, task_id, compiled, connected>>
      BY <1>3 DEF RefuseDoTask
    <2>2. to_device[s] # <<>> /\ Head(to_device[s]) \in DoTasks
      BY <1>0, <2>1, ConsumeFacts, ToDeviceKinds
    <2>3. NoTaskReply \in MessagesFromDevice
      BY FromDeviceKinds
    <2>4. /\ DeviceOK(connected[s], device[s], task_id[s], device_state[s],
                      Tail(to_device[s]), from_device[s])
          /\ connected[s] => DeviceOK(connected[s], device[s], task_id[s], device_state[s],
                                      Tail(to_device[s]), Append(from_device[s], NoTaskReply))
      BY <1>0, <2>2, RefusesTask, TakeKeeps
    <2> QED
      BY <1>0, <2>1, <2>3, <2>4, ConsumeFacts, AnswerWithFacts DEF OnlyDevice, DevicesTypeOK
  <1>4. CASE AcceptDoTask(s)
    <2>1. Arrives(s, "DoTask") /\ Consume(s)
          /\ device' = [device EXCEPT ![s] = "RUNNING"]
          /\ task_id' = [task_id EXCEPT ![s] = Head(to_device[s]).task]
          /\ UNCHANGED <<compiled, connected, from_device>>
      BY <1>4 DEF AcceptDoTask
    <2>2. to_device[s] # <<>> /\ Head(to_device[s]) \in DoTasks
          /\ Head(to_device[s]).task \in Tasks
      BY <1>0, <2>1, ConsumeFacts, ToDeviceKinds
    <2>3. DeviceOK(connected[s], "RUNNING", Head(to_device[s]).task, device_state[s],
                   Tail(to_device[s]), from_device[s])
      BY <1>0, <2>2, AcceptsTask
    <2> QED
      BY <1>0, <2>1, <2>2, <2>3, ConsumeFacts DEF OnlyDevice, DevicesTypeOK
  <1>5. ASSUME NEW ok \in BOOLEAN, OnCompileFinished(s, ok) PROVE OnlyDevice(s)
    <2>1. /\ device[s] = "INITIALIZING"
          /\ device' = [device EXCEPT ![s] = IF ok THEN "RUNNING_IDLE" ELSE "FAILED"]
          /\ compiled' = [compiled EXCEPT ![s] = ok]
          /\ AnswerWith(s, Reply("InitJob", IF ok THEN 0 ELSE -1))
          /\ UNCHANGED <<task_id, connected, to_device>>
      BY <1>5 DEF OnCompileFinished
    <2>2. CASE ok
      <3>1. Reply("InitJob", 0) \in Signals /\ Reply("InitJob", 0) \notin TaskReplies
            /\ Reply("InitJob", 0) \in MessagesFromDevice
        BY FromDeviceKinds
      <3>2. /\ DeviceOK(connected[s], "RUNNING_IDLE", task_id[s], device_state[s],
                        to_device[s], from_device[s])
            /\ connected[s] => DeviceOK(connected[s], "RUNNING_IDLE", task_id[s],
                                        device_state[s], to_device[s],
                                        Append(from_device[s], Reply("InitJob", 0)))
        BY <1>0, <2>1, <3>1, BecomesIdle
      <3> QED
        BY <1>0, <2>1, <2>2, <3>1, <3>2, AnswerWithFacts DEF OnlyDevice, DevicesTypeOK
    <2>3. CASE ~ok
      <3>1. Reply("InitJob", -1) \in MessagesFromDevice \ Signals
            /\ Reply("InitJob", -1) \in MessagesFromDevice
        BY FromDeviceKinds
      <3>2. DeviceOK(connected[s], "FAILED", task_id[s], device_state[s],
                     to_device[s], from_device[s])
        BY <2>1, BecomesOther
      <3>3. connected[s] => DeviceOK(connected[s], "FAILED", task_id[s], device_state[s],
                                     to_device[s],
                                     Append(from_device[s], Reply("InitJob", -1)))
        BY <1>0, <3>1, <3>2, AnswerKeeps
      <3> QED
        BY <1>0, <2>1, <2>3, <3>1, <3>2, <3>3, AnswerWithFacts DEF OnlyDevice, DevicesTypeOK
    <2> QED
      BY <2>2, <2>3
  <1>6. ASSUME NEW ok \in BOOLEAN, OnStop(s, ok) PROVE OnlyDevice(s)
    <2>1. PICK m : /\ AnswerWith(s, m)
                   /\ m = IF ok THEN TaskReply(0, task_id[s], TaskOutput(s))
                          ELSE TaskReply(-1, task_id[s], 0)
      BY <1>6 DEF OnStop
    <2>2. /\ device[s] = "RUNNING"
          /\ device' = [device EXCEPT ![s] = "RUNNING_IDLE"]
          /\ UNCHANGED <<task_id, compiled, connected, to_device>>
      BY <1>6 DEF OnStop, AfterTask
    <2>3. task_id[s] \in Tasks
      BY <2>2 DEF DeviceOK
    <2>4. m \in TaskReplies /\ m \in Signals /\ m \in MessagesFromDevice
      BY <2>1, <2>3, FromDeviceKinds DEF TaskOutput
    <2>5. /\ DeviceOK(connected[s], "RUNNING_IDLE", task_id[s], device_state[s],
                      to_device[s], from_device[s])
          /\ connected[s] => DeviceOK(connected[s], "RUNNING_IDLE", task_id[s],
                                      device_state[s], to_device[s],
                                      Append(from_device[s], m))
      BY <1>0, <2>2, <2>4, BecomesIdle
    <2> QED
      BY <1>0, <2>1, <2>2, <2>4, <2>5, AnswerWithFacts DEF OnlyDevice, DevicesTypeOK
  <1>7. CASE CloseDevice(s)
    <2>1. DeviceOK(connected[s], "CLOSED", NoTask, device_state[s], <<>>, from_device[s])
      BY Closes
    <2>2. << >> \in Seq(MessagesToDevice)
      OBVIOUS
    <2>3. /\ device' = [device EXCEPT ![s] = "CLOSED"]
          /\ task_id' = [task_id EXCEPT ![s] = NoTask]
          /\ to_device' = [to_device EXCEPT ![s] = <<>>]
          /\ UNCHANGED <<compiled, connected, from_device>>
      BY <1>7 DEF CloseDevice
    <2> QED
      BY <1>0, <2>1, <2>2, <2>3 DEF OnlyDevice, DevicesTypeOK
  <1> QED
    BY <1>1, <1>2, <1>3, <1>4, <1>5, <1>6, <1>7
       DEF DeviceStep, DeviceDies, HandleMessageOfDevice, ProcessEnds,
           CheckHeartBeatOfDevice, HandleCloseDevice

-----------------------------------------------------------------------------
(***************************************************************************)
(* Steps that leave the tasks alone.                                       *)
(***************************************************************************)
\* No device becomes busy.
LEMMA JobUnchanged ==
    ASSUME TaskInv, UNCHANGED jobVars,
           \A s \in Services : device_state'[s] = "RUNNING" =>
              device_state[s] = "RUNNING" /\ curr_task'[s] = curr_task[s],
           job_state # "RUNNING" => device_list' = <<>>
    PROVE  TaskInv'
  <1>1. NothingBefore'
    BY DEF TaskInv, NothingBefore, Distributing, jobVars
  <1>2. BusyDevicesDiffer'
    BY DEF TaskInv, BusyDevicesDiffer, jobVars
  <1>3. QueuesMatchStates' /\ ResultsInv' /\ ReducedOnce' /\ SinkGetsEveryResult'
    BY DEF TaskInv, QueuesMatchStates, ResultsInv, ResultsAreRight, EmptyBefore, ReducedOnce, NothingLeft,
           SinkGetsEveryResult, jobVars
  <1> QED
    BY <1>1, <1>2, <1>3 DEF TaskInv

LEMMA DeviceSideInv ==
    ASSUME IInv, NEW s \in Services, DeviceStep(s) \/ DeviceDies(s),
           UNCHANGED <<proxyVars, jobVars>>
    PROVE  IInv'
  <1>1. OnlyDevice(s)
    BY DeviceStepFacts DEF IInv, DeviceInv
  <1>2. TypeOK'
    BY <1>1 DEF IInv, TypeOK, OnlyDevice, proxyVars, jobVars
  <1>3. DeviceInv'
    <2> SUFFICES ASSUME NEW r \in Services
                 PROVE  DeviceOK(connected'[r], device'[r], task_id'[r], device_state'[r],
                                 to_device'[r], from_device'[r])
      BY DEF DeviceInv
    <2>1. DeviceOK(connected[r], device[r], task_id[r], device_state[r], to_device[r],
                   from_device[r])
      BY DEF IInv, DeviceInv
    <2>2. device_state' = device_state /\ connected' = connected
      BY <1>1 DEF OnlyDevice, proxyVars
    <2> QED
      BY <1>1, <2>1, <2>2 DEF OnlyDevice
  <1>4. ListedOnce'
    BY <1>1 DEF IInv, ListedOnce, OnlyDevice, proxyVars
  <1>5. TaskInv'
    BY JobUnchanged DEF IInv, TaskInv, NothingBefore, proxyVars
  <1> QED
    BY <1>2, <1>3, <1>4, <1>5 DEF IInv

\* The scheduler unsubscribes from a device.
LEMMA Disconnects ==
    ASSUME NEW conn, NEW dev, NEW task, NEW state, NEW to, NEW from,
           DeviceOK(conn, dev, task, state, to, from)
    PROVE  DeviceOK(FALSE, dev, task, "IDLE", to, <<>>)
  BY EmptyHas DEF DeviceOK, OneAtATime, GivenIsBusy

LEMMA SendFacts ==
    ASSUME to_device \in [Services -> Seq(MessagesToDevice)], NEW s \in Services,
           NEW m \in MessagesToDevice, Send(s, m)
    PROVE  /\ to_device' \in [Services -> Seq(MessagesToDevice)]
           /\ \A r \in Services : r # s => to_device'[r] = to_device[r]
           /\ \/ to_device'[s] = to_device[s]
              \/ to_device'[s] = Append(to_device[s], m)
  <1>1. PICK c \in Published(to_device[s], m) :
          to_device' = IF Open(s) THEN [to_device EXCEPT ![s] = c] ELSE to_device
    BY DEF Send
  <1>2. to_device[s] \in Seq(MessagesToDevice)
        /\ Append(to_device[s], m) \in Seq(MessagesToDevice)
    BY AppendFacts
  <1>3. c = Append(to_device[s], m) \/ c = to_device[s]
    BY DEF Published
  <1> QED
    BY <1>1, <1>2, <1>3

\* The scheduler is dropped, whatever became of the tasks.
LEMMA DropInv ==
    ASSUME IInv, DropScheduler, job_state' \in {"PREPARE", "FINISH", "FAILED"},
           task_state' \in [Tasks -> TaskStates], result' \in [Tasks -> Int],
           saved' \in [Tasks -> Int], ResultsAreRight', UNCHANGED <<reduced, hung, jobs>>
    PROVE  IInv'
  <1>0. TypeOK /\ DevicesTypeOK
    BY DEF IInv, TypeOK
  <1>1. PICK lost \in SUBSET Services :
           to_device' = [s \in Services |->
                            IF connected[s] /\ Open(s) /\ s \notin lost
                            THEN Append(to_device[s], Message("CloseDevice"))
                            ELSE to_device[s]]
    BY DEF DropScheduler
  <1>2. Message("CloseDevice") \in MessagesToDevice \ DoTasks
        /\ Message("CloseDevice") \in MessagesToDevice
    BY ToDeviceKinds
  <1>3. ASSUME NEW s \in Services
        PROVE  /\ to_device'[s] \in Seq(MessagesToDevice)
               /\ \/ to_device'[s] = to_device[s]
                  \/ to_device'[s] = Append(to_device[s], Message("CloseDevice"))
    <2>1. to_device[s] \in Seq(MessagesToDevice)
      BY <1>0 DEF DevicesTypeOK
    <2>2. Append(to_device[s], Message("CloseDevice")) \in Seq(MessagesToDevice)
      BY <1>2, <2>1, AppendFacts
    <2> QED
      BY <1>1, <2>1, <2>2
  <1>4. DevicesTypeOK'
    <2>1. to_device' \in [Services -> Seq(MessagesToDevice)]
      <3>1. PICK f : to_device' = [s \in Services |-> f[s]]
        BY <1>1
      <3> QED
        BY <1>3, <3>1
    <2>2. << >> \in Seq(MessagesFromDevice)
      OBVIOUS
    <2> QED
      BY <1>0, <2>1, <2>2 DEF DevicesTypeOK, DropScheduler
  <1>5. TypeOK'
    <2>1. /\ << >> \in Seq(Services) /\ << >> \in Seq(Tasks) /\ 0 \in 0..MaxInitSends
      BY SchedulerBounds
    <2>2. /\ creator' \in [Services -> {"none", "idle", "creating", "has_device"}]
          /\ device_list' \in Seq(Services)
          /\ device_state' \in [Services -> {"IDLE", "READY", "INITIALIZING", "RUNNING_IDLE",
                                             "RUNNING", "FAILED"}]
          /\ curr_task' \in [Services -> Tasks \cup {NoTask}]
          /\ init_sends' \in [Services -> 0..MaxInitSends]
          /\ has_reply' \in [Services -> BOOLEAN]
          /\ source' \in {"none", "running", "stopped"} /\ sink' \in {"none", "running"}
          /\ task_queue' \in Seq(Tasks)
          /\ running_queue' \subseteq Tasks
          /\ will_reduce' \in Nat
      BY <2>1 DEF DropScheduler
    <2> QED
      BY <1>0, <1>4, <2>2 DEF TypeOK, TaskStates
  <1>6. DeviceInv'
    <2> SUFFICES ASSUME NEW s \in Services
                 PROVE  DeviceOK(FALSE, device[s], task_id[s], "IDLE", to_device'[s], <<>>)
      BY DEF DeviceInv, DropScheduler
    <2>1. DeviceOK(FALSE, device[s], task_id[s], "IDLE", to_device[s], <<>>)
      BY Disconnects DEF IInv, DeviceInv
    <2>2. to_device[s] \in Seq(MessagesToDevice)
      BY <1>0 DEF DevicesTypeOK
    <2>3. DeviceOK(FALSE, device[s], task_id[s], "IDLE",
                   Append(to_device[s], Message("CloseDevice")), <<>>)
      BY <1>2, <2>1, <2>2, SendKeeps
    <2> QED
      BY <1>3, <2>1, <2>3
  <1>7. ListedOnce'
    BY DEF ListedOnce, DropScheduler
  <1>8. TaskInv'
    <2>1. NothingBefore' /\ BusyDevicesDiffer'
      BY DEF DropScheduler, NothingBefore, BusyDevicesDiffer, Distributing
    <2>2. QueuesMatchStates' /\ ReducedOnce' /\ SinkGetsEveryResult'
      BY DEF IInv, TaskInv, QueuesMatchStates, ReducedOnce, SinkGetsEveryResult
    <2>3. ResultsInv'
      BY DEF ResultsInv, EmptyBefore
    <2> QED
      BY <2>1, <2>2, <2>3 DEF TaskInv
  <1> QED
    BY <1>5, <1>6, <1>7, <1>8 DEF IInv

\* Before the job runs nothing but its state changes.
LEMMA ControllerInv ==
    ASSUME IInv, Start \/ OnCompileError
    PROVE  IInv'
  <1>1. /\ job_state # "RUNNING" /\ job_state' \in {"PREPARE", "COMPILING", "FAILED"}
        /\ jobs' \in 0..MaxJobs
        /\ UNCHANGED <<deviceVars, proxyVars, source, sink, task_state, result, task_queue,
                       running_queue, will_reduce, reduced, saved, hung>>
    BY SchedulerBounds DEF IInv, TypeOK, Start, OnCompileError
  <1>2. TypeOK'
    BY <1>1 DEF IInv, TypeOK, DevicesTypeOK, deviceVars, proxyVars
  <1>3. DeviceInv' /\ ListedOnce'
    BY <1>1 DEF IInv, DeviceInv, ListedOnce, deviceVars, proxyVars
  <1>4. TaskInv'
    BY <1>1 DEF IInv, TaskInv, NothingBefore, Distributing, BusyDevicesDiffer,
                QueuesMatchStates, ResultsInv, ResultsAreRight, EmptyBefore, ReducedOnce, SinkGetsEveryResult,
                proxyVars
  <1> QED
    BY <1>2, <1>3, <1>4 DEF IInv

LEMMA OnCompileSuccessInv ==
    ASSUME IInv, OnCompileSuccess
    PROVE  IInv'
  <1>1. /\ job_state = "COMPILING"
        /\ UNCHANGED <<deviceVars, device_list, device_state, curr_task, init_sends,
                       has_reply, sink, task_queue, running_queue, will_reduce, saved,
                       hung, jobs>>
    BY DEF OnCompileSuccess
  <1>2. /\ device_list = <<>> /\ task_queue = <<>> /\ running_queue = {} /\ will_reduce = 0
        /\ \A s \in Services : device_state[s] # "RUNNING"
        /\ \A s \in Services : ~connected[s]
    <2>1. /\ device_list = <<>> /\ task_queue = <<>> /\ running_queue = {} /\ will_reduce = 0
          /\ \A s \in Services : device_state[s] # "RUNNING"
      BY <1>1 DEF IInv, TaskInv, NothingBefore, Distributing
    <2> QED
      BY <2>1 DEF IInv, ListedOnce
  <1>3. DeviceInv'
    BY <1>1 DEF IInv, DeviceInv, deviceVars
  <1>4. CASE Run
    <2>1. TypeOK'
      <3>1. /\ creator' \in [Services -> {"none", "idle", "creating", "has_device"}]
            /\ task_state' \in [Tasks -> {"NONE", "PENDING", "RUNNING", "FINISH", "ERROR"}]
            /\ result' \in [Tasks -> Int]
            /\ reduced' \in Seq([Tasks -> Int])
            /\ source' = "running" /\ job_state' = "RUNNING"
        BY <1>4 DEF Run, NoResult
      <3> QED
        BY <1>1, <3>1 DEF IInv, TypeOK, DevicesTypeOK, deviceVars
    <2>2. ListedOnce'
      BY <1>1, <1>2 DEF ListedOnce, deviceVars
    <2>3. TaskInv'
      <3>1. /\ job_state' = "RUNNING" /\ source' = "running" /\ reduced' = <<>>
            /\ \A t \in Tasks : task_state'[t] # "FINISH" /\ result'[t] = NoResult
            /\ UNCHANGED saved
        BY <1>1, <1>4 DEF Run
      <3>2. NothingBefore' /\ BusyDevicesDiffer' /\ QueuesMatchStates'
        BY <1>1, <1>2, <3>1 DEF NothingBefore, Distributing, BusyDevicesDiffer,
                                QueuesMatchStates
      <3>3. ResultsInv'
        BY <3>1 DEF IInv, TaskInv, ResultsInv, ResultsAreRight, EmptyBefore
      <3>4. ReducedOnce' /\ SinkGetsEveryResult'
        BY <1>1, <1>2, <3>1 DEF ReducedOnce, SinkGetsEveryResult
      <3> QED
        BY <3>2, <3>3, <3>4 DEF TaskInv
    <2> QED
      BY <1>3, <2>1, <2>2, <2>3 DEF IInv
  <1>5. CASE job_state' = "FAILED" /\ UNCHANGED <<creator, source, task_state, result, reduced>>
    <2>1. TypeOK'
      BY <1>1, <1>5 DEF IInv, TypeOK, DevicesTypeOK, deviceVars
    <2>2. ListedOnce'
      BY <1>1, <1>2 DEF ListedOnce, deviceVars
    <2>3. TaskInv'
      BY <1>1, <1>2, <1>5 DEF IInv, TaskInv, NothingBefore, Distributing, BusyDevicesDiffer,
                QueuesMatchStates, ResultsInv, ResultsAreRight, EmptyBefore, ReducedOnce, SinkGetsEveryResult
    <2> QED
      BY <1>3, <2>1, <2>2, <2>3 DEF IInv
  <1> QED
    BY <1>4, <1>5 DEF OnCompileSuccess

-----------------------------------------------------------------------------
(***************************************************************************)
(* Getting devices.                                                        *)
(***************************************************************************)
LEMMA RequestInv ==
    ASSUME IInv, NEW s \in Services, RequestNewDevice(s) \/ CreateDeviceFails(s)
    PROVE  IInv'
  <1>1. /\ creator[s] # "has_device"
        /\ \E c \in {"idle", "creating"} : creator' = [creator EXCEPT ![s] = c]
        /\ UNCHANGED <<deviceVars, device_list, device_state, curr_task, init_sends,
                       has_reply, jobVars>>
    BY DEF RequestNewDevice, CreateDeviceFails
  <1>2. TypeOK'
    BY <1>1 DEF IInv, TypeOK, DevicesTypeOK, deviceVars, jobVars
  <1>3. DeviceInv'
    BY <1>1 DEF IInv, DeviceInv, deviceVars
  <1>4. ListedOnce'
    <2>1. \A i \in 1..Len(device_list) : device_list[i] \in Services /\ device_list[i] # s
      BY <1>1 DEF IInv, TypeOK, ListedOnce
    <2>2. \A r \in Services : r # s => creator'[r] = creator[r]
      BY <1>1 DEF IInv, TypeOK
    <2> QED
      BY <1>1, <2>1, <2>2 DEF IInv, ListedOnce, deviceVars
  <1>5. TaskInv'
    BY <1>1, JobUnchanged DEF IInv, TaskInv, NothingBefore
  <1> QED
    BY <1>2, <1>3, <1>4, <1>5 DEF IInv

\* A new device is idle nowhere, and its channels are empty.
LEMMA OpensDevice ==
    ASSUME NEW state \in {"READY", "INITIALIZING"}
    PROVE  DeviceOK(TRUE, "WAITING", NoTask, state, <<>>, <<>>)
  BY EmptyHas DEF DeviceOK, OneAtATime, GivenIsBusy

LEMMA CreateDeviceInv ==
    ASSUME IInv, NEW s \in Services, CreateDevice(s)
    PROVE  IInv'
  <1>1. /\ Running /\ creator[s] = "creating"
        /\ creator' = [creator EXCEPT ![s] = "has_device"]
        /\ device' = [device EXCEPT ![s] = "WAITING"]
        /\ task_id' = [task_id EXCEPT ![s] = NoTask]
        /\ to_device' = [to_device EXCEPT ![s] = <<>>]
        /\ connected' = [connected EXCEPT ![s] = TRUE]
        /\ from_device' = [from_device EXCEPT ![s] = <<>>]
        /\ has_reply' = [has_reply EXCEPT ![s] = TRUE]
        /\ device_list' = Append(device_list, s)
        /\ UNCHANGED <<compiled, curr_task, jobVars>>
    BY DEF CreateDevice, OpenDevice
  <1>2. PICK state \in {"READY", "INITIALIZING"} :
           device_state' = [device_state EXCEPT ![s] = state]
    BY DEF CreateDevice, InitJob
  <1>3. init_sends' \in [Services -> 0..MaxInitSends]
    BY SchedulerBounds DEF CreateDevice, InitJob, IInv, TypeOK
  <1>4. /\ device_list \in Seq(Services) /\ Len(device_list) \in Nat
        /\ device_list' \in Seq(Services)
        /\ Len(device_list') = Len(device_list) + 1
        /\ \A i \in 1..Len(device_list) : device_list'[i] = device_list[i]
        /\ device_list'[Len(device_list) + 1] = s
        /\ \A i \in 1..Len(device_list) : device_list[i] \in Services
    <2>1. device_list \in Seq(Services)
      BY DEF IInv, TypeOK
    <2> QED
      BY <1>1, <2>1, AppendFacts
  <1>5. DevicesTypeOK'
    <2>1. << >> \in Seq(MessagesToDevice) /\ << >> \in Seq(MessagesFromDevice)
      OBVIOUS
    <2> QED
      BY <1>1, <2>1 DEF IInv, TypeOK, DevicesTypeOK
  <1>6. TypeOK'
    BY <1>1, <1>2, <1>3, <1>4, <1>5 DEF IInv, TypeOK, jobVars
  <1>7. DeviceInv'
    <2> SUFFICES ASSUME NEW r \in Services
                 PROVE  DeviceOK(connected'[r], device'[r], task_id'[r], device_state'[r],
                                 to_device'[r], from_device'[r])
      BY DEF DeviceInv
    <2>1. CASE r # s
      <3>1. DeviceOK(connected[r], device[r], task_id[r], device_state[r], to_device[r],
                     from_device[r])
        BY DEF IInv, DeviceInv
      <3>2. /\ connected'[r] = connected[r] /\ device'[r] = device[r]
            /\ task_id'[r] = task_id[r] /\ device_state'[r] = device_state[r]
            /\ to_device'[r] = to_device[r] /\ from_device'[r] = from_device[r]
        BY <1>1, <1>2, <2>1 DEF IInv, TypeOK, DevicesTypeOK
      <3> QED
        BY <3>1, <3>2
    <2>2. CASE r = s
      <3>1. DeviceOK(TRUE, "WAITING", NoTask, state, <<>>, <<>>)
        BY OpensDevice
      <3>2. /\ connected'[r] = TRUE /\ device'[r] = "WAITING"
            /\ task_id'[r] = NoTask /\ device_state'[r] = state
            /\ to_device'[r] = <<>> /\ from_device'[r] = <<>>
        BY <1>1, <1>2, <2>2 DEF IInv, TypeOK, DevicesTypeOK
      <3> QED
        BY <3>1, <3>2
    <2> QED
      BY <2>1, <2>2
  <1>8. ListedOnce'
    <2>1. \A i \in 1..Len(device_list) : device_list[i] # s
      BY <1>1 DEF IInv, ListedOnce
    <2>2. \A i \in 1..Len(device_list') : i \in 1..Len(device_list) \/ i = Len(device_list) + 1
      BY <1>4
    <2>3. /\ \A r \in Services : r # s => creator'[r] = creator[r]
          /\ creator'[s] = "has_device"
      BY <1>1 DEF IInv, TypeOK
    <2>4. \A i \in 1..Len(device_list') : creator'[device_list'[i]] = "has_device"
      BY <1>4, <2>1, <2>2, <2>3 DEF IInv, ListedOnce
    <2>5. \A i, j \in 1..Len(device_list') : device_list'[i] = device_list'[j] => i = j
      BY <1>4, <2>1, <2>2 DEF IInv, ListedOnce
    <2>6. ASSUME NEW r \in Services, connected'[r]
          PROVE  \E i \in 1..Len(device_list') : device_list'[i] = r
      <3>1. r = s \/ connected[r]
        BY <1>1, <2>6 DEF IInv, TypeOK, DevicesTypeOK
      <3>2. /\ Len(device_list) + 1 \in 1..Len(device_list')
            /\ 1..Len(device_list) \subseteq 1..Len(device_list')
        BY <1>4
      <3> QED
        BY <1>4, <3>1, <3>2 DEF IInv, ListedOnce
    <2> QED
      BY <2>4, <2>5, <2>6 DEF ListedOnce
  <1>9. TaskInv'
    <2>1. \A r \in Services : device_state'[r] = "RUNNING" => device_state[r] = "RUNNING"
      BY <1>2 DEF IInv, TypeOK
    <2> QED
      BY <1>1, <2>1, JobUnchanged DEF IInv, Running
  <1> QED
    BY <1>6, <1>7, <1>8, <1>9 DEF IInv

\* Repeated InitJob messages and heart beats disturb nothing.
LEMMA SendInv ==
    ASSUME IInv, NEW s \in Services, SendInitJob(s) \/ SendHeartBeat(s)
    PROVE  IInv'
  <1>1. PICK m \in MessagesToDevice \ DoTasks : Send(s, m)
    BY ToDeviceKinds DEF SendInitJob, SendHeartBeat
  <1>2. UNCHANGED <<device, task_id, compiled, connected, from_device, creator,
                    device_list, device_state, curr_task, jobVars>>
    BY DEF SendInitJob, SendHeartBeat
  <1>3. /\ init_sends' \in [Services -> 0..MaxInitSends]
        /\ has_reply' \in [Services -> BOOLEAN]
    <2>0. init_sends \in [Services -> 0..MaxInitSends] /\ has_reply \in [Services -> BOOLEAN]
      BY DEF IInv, TypeOK
    <2>1. CASE SendInitJob(s)
      <3>1. init_sends[s] - 1 \in 0..MaxInitSends
        BY <2>0, <2>1, SchedulerBounds DEF SendInitJob
      <3> QED
        BY <2>0, <2>1, <3>1 DEF SendInitJob
    <2>2. CASE SendHeartBeat(s)
      BY <2>0, <2>2 DEF SendHeartBeat
    <2> QED
      BY <2>1, <2>2
  <1>4. /\ to_device \in [Services -> Seq(MessagesToDevice)]
        /\ to_device' \in [Services -> Seq(MessagesToDevice)]
        /\ \A r \in Services : r # s => to_device'[r] = to_device[r]
        /\ to_device'[s] = to_device[s] \/ to_device'[s] = Append(to_device[s], m)
    <2>1. m \in MessagesToDevice /\ to_device \in [Services -> Seq(MessagesToDevice)]
      BY DEF IInv, TypeOK, DevicesTypeOK
    <2> QED
      BY <1>1, <2>1, SendFacts
  <1>5. TypeOK'
    BY <1>2, <1>3, <1>4 DEF IInv, TypeOK, DevicesTypeOK, jobVars
  <1>6. DeviceInv'
    <2> SUFFICES ASSUME NEW r \in Services
                 PROVE  DeviceOK(connected[r], device[r], task_id[r], device_state[r],
                                 to_device'[r], from_device[r])
      BY <1>2 DEF DeviceInv
    <2>1. /\ DeviceOK(connected[r], device[r], task_id[r], device_state[r], to_device[r],
                      from_device[r])
          /\ to_device[r] \in Seq(MessagesToDevice)
      BY <1>4 DEF IInv, DeviceInv
    <2>2. DeviceOK(connected[r], device[r], task_id[r], device_state[r],
                   Append(to_device[r], m), from_device[r])
      BY <2>1, SendKeeps
    <2> QED
      BY <1>4, <2>1, <2>2
  <1>7. ListedOnce'
    BY <1>2 DEF IInv, ListedOnce
  <1>8. TaskInv'
    BY <1>2, JobUnchanged DEF IInv, TaskInv, NothingBefore
  <1> QED
    BY <1>5, <1>6, <1>7, <1>8 DEF IInv

-----------------------------------------------------------------------------
(***************************************************************************)
(* Messages of the devices.                                                *)
(***************************************************************************)
LEMMA ReplyFacts ==
    ASSUME TypeOK, NEW s \in Services, NEW kind, ReplyArrives(s, kind)
    PROVE  /\ connected[s] /\ from_device[s] # <<>>
           /\ from_device[s] \in Seq(MessagesFromDevice)
           /\ Head(from_device[s]) \in MessagesFromDevice
           /\ Tail(from_device[s]) \in Seq(MessagesFromDevice)
           /\ Head(from_device[s]).message = kind
           /\ job_state = "RUNNING"
  <1>1. from_device[s] \in Seq(MessagesFromDevice) /\ from_device[s] # <<>>
    BY DEF TypeOK, DevicesTypeOK, ReplyArrives
  <1> QED
    BY <1>1, TailFacts DEF ReplyArrives, Running

\* A message that is handled without handing out tasks.
LEMMA QuietReplyInv ==
    ASSUME IInv, NEW s \in Services,
           IgnoreMessage(s) \/ HandleHeartBeatReply(s) \/ InitJobFails(s)
    PROVE  IInv'
  <1>1. PICK kind : ReplyArrives(s, kind)
    BY DEF IgnoreMessage, HandleHeartBeatReply, InitJobFails
  <1>2. /\ from_device' = [from_device EXCEPT ![s] = Tail(from_device[s])]
        /\ UNCHANGED <<device, task_id, compiled, connected, to_device, creator, device_list,
                       curr_task, init_sends, jobVars>>
    BY DEF IgnoreMessage, HandleHeartBeatReply, InitJobFails, ConsumeReply, proxyVars
  <1>3. /\ device_state \in [Services -> DeviceStates]
        /\ \/ device_state' = device_state
           \/ device_state' = [device_state EXCEPT ![s] = "FAILED"]
        /\ has_reply' \in [Services -> BOOLEAN]
    BY DEF IgnoreMessage, HandleHeartBeatReply, InitJobFails, proxyVars, IInv, TypeOK,
           DeviceStates
  <1>4. /\ connected[s] /\ from_device[s] # <<>>
        /\ from_device[s] \in Seq(MessagesFromDevice)
        /\ Tail(from_device[s]) \in Seq(MessagesFromDevice)
    BY <1>1, ReplyFacts DEF IInv
  <1>5. TypeOK'
    <2>1. DevicesTypeOK'
      BY <1>2, <1>4 DEF IInv, TypeOK, DevicesTypeOK
    <2> QED
      BY <1>2, <1>3, <2>1 DEF IInv, TypeOK, jobVars, DeviceStates
  <1>6. DeviceInv'
    <2> SUFFICES ASSUME NEW r \in Services
                 PROVE  DeviceOK(connected[r], device[r], task_id[r], device_state'[r],
                                 to_device[r], from_device'[r])
      BY <1>2 DEF DeviceInv
    <2>1. DeviceOK(connected[r], device[r], task_id[r], device_state[r], to_device[r],
                   from_device[r])
      BY DEF IInv, DeviceInv
    <2>2. CASE r # s
      BY <1>2, <1>3, <2>1, <2>2 DEF IInv, TypeOK, DevicesTypeOK
    <2>3. CASE r = s
      <3>1. from_device'[s] = Tail(from_device[s])
        BY <1>2 DEF IInv, TypeOK, DevicesTypeOK
      <3>2. DeviceOK(connected[s], device[s], task_id[s], device_state[s], to_device[s],
                     from_device'[s])
        BY <1>4, <2>1, <2>3, <3>1, HandleKeeps
      <3>3. connected[s] => DeviceOK(connected[s], device[s], task_id[s], "FAILED",
                                     to_device[s], from_device'[s])
        BY <3>2 DEF DeviceOK, OneAtATime, GivenIsBusy
      <3> QED
        BY <1>3, <1>4, <2>3, <3>2, <3>3
    <2> QED
      BY <2>2, <2>3
  <1>7. ListedOnce'
    BY <1>2 DEF IInv, ListedOnce
  <1>8. TaskInv'
    <2>1. \A r \in Services : device_state'[r] = "RUNNING" => device_state[r] = "RUNNING"
      BY <1>3
    <2> QED
      BY <1>2, <2>1, JobUnchanged DEF IInv, TaskInv, NothingBefore
  <1> QED
    BY <1>5, <1>6, <1>7, <1>8 DEF IInv

\* With no task in the queue nothing is handed out.
LEMMA HandOutNothing ==
    ASSUME TypeOK, ListedOnce, NEW states \in [Services -> DeviceStates],
           NEW ts \in [Tasks -> TaskStates], NEW rq \in SUBSET Tasks,
           OnDeviceAvailable(states, ts, <<>>, rq)
    PROVE  /\ device_state' = states /\ task_state' = ts /\ running_queue' = rq
           /\ task_queue' = <<>> /\ curr_task' = curr_task /\ to_device' = to_device
  <1>1. << >> \in Seq(Tasks) /\ Len(<< >>) = 0
    OBVIOUS
  <1>2. PICK n, d : HandedOut(states, ts, <<>>, rq, n, d)
    BY <1>1, HandOutFacts
  <1>3. n = 0 /\ 1..n = {}
    BY <1>1, <1>2 DEF HandedOut
  <1>4. /\ device_state' = states /\ task_state' = ts /\ running_queue' = rq
    BY <1>2, <1>3 DEF HandedOut
  <1>5. task_queue' = <<>>
    <2>1. task_queue' \in Seq(Tasks) /\ Len(task_queue') = 0
      BY <1>1, <1>2, <1>3 DEF HandedOut
    <2> QED
      BY <2>1
  <1>6. curr_task' = curr_task /\ to_device' = to_device
    <2>1. /\ curr_task \in [Services -> Tasks \cup {NoTask}]
          /\ to_device \in [Services -> Seq(MessagesToDevice)]
      BY DEF TypeOK, DevicesTypeOK
    <2>2. /\ curr_task' \in [Services -> Tasks \cup {NoTask}]
          /\ to_device' \in [Services -> Seq(MessagesToDevice)]
          /\ \A s \in Services : curr_task'[s] = curr_task[s] /\ to_device'[s] = to_device[s]
      BY <1>2, <1>3 DEF HandedOut
    <2>3. curr_task' = curr_task
      BY <2>1, <2>2
    <2>4. to_device' = to_device
      BY <2>1, <2>2
    <2> QED
      BY <2>3, <2>4
  <1> QED
    BY <1>4, <1>5, <1>6

\* What handing out leaves right.
LEMMA HandOutInv ==
    ASSUME TypeOK, ListedOnce, NEW states \in [Services -> DeviceStates],
           NEW ts \in [Tasks -> TaskStates], NEW tq \in Seq(Tasks), NEW rq \in SUBSET Tasks,
           OnDeviceAvailable(states, ts, tq, rq), Accounted(ts, tq, rq),
           Busy(states, curr_task, rq), UNCHANGED <<device, task_id, connected>>,
           \A s \in Services : DeviceOK(connected[s], device[s], task_id[s], states[s],
                                        to_device[s], from_device'[s])
    PROVE  /\ DeviceInv' /\ QueuesMatchStates' /\ BusyDevicesDiffer'
           /\ device_state' \in [Services -> DeviceStates]
           /\ curr_task' \in [Services -> Tasks \cup {NoTask}]
           /\ task_state' \in [Tasks -> TaskStates]
           /\ task_queue' \in Seq(Tasks)
           /\ running_queue' \subseteq Tasks
           /\ to_device' \in [Services -> Seq(MessagesToDevice)]
           /\ \A t \in Tasks : task_state'[t] = "FINISH" <=> ts[t] = "FINISH"
  <1>1. PICK n, d : HandedOut(states, ts, tq, rq, n, d)
    BY HandOutFacts
  <1>2. /\ Accounted(task_state, task_queue, running_queue)'
        /\ task_state' \in [Tasks -> TaskStates]
        /\ running_queue' \subseteq Tasks
        /\ \A t \in Tasks : task_state'[t] = "FINISH" <=> ts[t] = "FINISH"
    BY <1>1, HandOutAccounted
  <1>3. Busy(device_state, curr_task, running_queue)'
    BY <1>1, HandOutBusy
  <1>4. PICK from : from = from_device'
    OBVIOUS
  <1>5. /\ \A s \in Services :
              DeviceOK(connected[s], device[s], task_id[s], device_state'[s],
                       to_device'[s], from[s])
        /\ device_state' \in [Services -> DeviceStates]
    <2>1. \A s \in Services : DeviceOK(connected[s], device[s], task_id[s], states[s],
                                       to_device[s], from[s])
      BY <1>4
    <2> QED
      BY <1>1, <2>1, HandOutDevices
  <1>6. DeviceInv'
    BY <1>4, <1>5 DEF DeviceInv
  <1>7. /\ task_queue' \in Seq(Tasks) /\ curr_task' \in [Services -> Tasks \cup {NoTask}]
        /\ to_device' \in [Services -> Seq(MessagesToDevice)]
    BY <1>1 DEF HandedOut
  <1>8. QueuesMatchStates'
    <2>1. DOMAIN task_queue' = 1..Len(task_queue')
      BY <1>7
    <2> QED
      BY <1>2, <2>1 DEF QueuesMatchStates, Accounted
  <1>9. BusyDevicesDiffer'
    BY <1>3 DEF BusyDevicesDiffer, Busy
  <1> QED
    BY <1>2, <1>5, <1>6, <1>7, <1>8, <1>9

\* The scheduler hears that a device is idle.
LEMMA HearsSignal ==
    ASSUME NEW conn, NEW dev, NEW task, NEW state, NEW to,
           NEW from \in Seq(MessagesFromDevice),
           DeviceOK(conn, dev, task, state, to, from), conn, from # <<>>,
           Head(from) \in Signals
    PROVE  DeviceOK(conn, dev, task, "RUNNING_IDLE", to, Tail(from))
  <1>1. Has(from, Signals) /\ ~Has(Tail(from), Signals) /\ AtMostOne(Tail(from), Signals)
    BY TailHas DEF DeviceOK, OneAtATime
  <1>2. ~Has(Tail(from), TaskReplies)
    BY <1>1, FromDeviceKinds DEF Has
  <1>3. ~Has(to, DoTasks) /\ AtMostOne(to, DoTasks)
        /\ dev \in {"RUNNING_IDLE", "none", "CLOSED"}
    BY <1>1 DEF DeviceOK, OneAtATime
  <1> QED
    BY <1>1, <1>2, <1>3 DEF DeviceOK, OneAtATime, GivenIsBusy

LEMMA SignalFacts ==
    ASSUME IInv, NEW s \in Services, NEW kind, ReplyArrives(s, kind),
           Head(from_device[s]) \in Signals, ConsumeReply(s),
           UNCHANGED <<device, task_id, compiled, connected>>
    PROVE  /\ from_device' \in [Services -> Seq(MessagesFromDevice)]
           /\ [device_state EXCEPT ![s] = "RUNNING_IDLE"] \in [Services -> DeviceStates]
           /\ \A r \in Services :
                 DeviceOK(connected[r], device[r], task_id[r],
                          [device_state EXCEPT ![s] = "RUNNING_IDLE"][r], to_device[r],
                          from_device'[r])
  <1>1. /\ from_device \in [Services -> Seq(MessagesFromDevice)]
        /\ device_state \in [Services -> DeviceStates]
    BY DEF IInv, TypeOK, DevicesTypeOK, DeviceStates
  <1>2. /\ connected[s] /\ from_device[s] # <<>>
        /\ from_device[s] \in Seq(MessagesFromDevice)
        /\ Tail(from_device[s]) \in Seq(MessagesFromDevice)
    BY ReplyFacts DEF IInv
  <1>3. from_device' = [from_device EXCEPT ![s] = Tail(from_device[s])]
    BY DEF ConsumeReply
  <1>4. ASSUME NEW r \in Services
        PROVE  DeviceOK(connected[r], device[r], task_id[r],
                        [device_state EXCEPT ![s] = "RUNNING_IDLE"][r], to_device[r],
                        from_device'[r])
    <2>1. DeviceOK(connected[r], device[r], task_id[r], device_state[r], to_device[r],
                   from_device[r])
      BY DEF IInv, DeviceInv
    <2>2. CASE r # s
      BY <1>1, <1>3, <2>1, <2>2
    <2>3. CASE r = s
      <3>1. DeviceOK(connected[s], device[s], task_id[s], "RUNNING_IDLE", to_device[s],
                     Tail(from_device[s]))
        BY <1>2, <2>1, <2>3, HearsSignal
      <3> QED
        BY <1>1, <1>3, <2>3, <3>1
    <2> QED
      BY <2>2, <2>3
  <1>5. /\ from_device' \in [Services -> Seq(MessagesFromDevice)]
        /\ [device_state EXCEPT ![s] = "RUNNING_IDLE"] \in [Services -> DeviceStates]
    BY <1>1, <1>2, <1>3 DEF DeviceStates
  <1> QED
    BY <1>4, <1>5

LEMMA InitJobSucceedsInv ==
    ASSUME IInv, NEW s \in Services, InitJobSucceeds(s)
    PROVE  IInv'
  <1> DEFINE states == [device_state EXCEPT ![s] = "RUNNING_IDLE"]
  <1>0. TypeOK /\ ListedOnce
    BY DEF IInv
  <1>1. /\ ReplyArrives(s, "InitJob")
        /\ Head(from_device[s]).error_code = 0
        /\ OnDeviceAvailable(states, task_state, task_queue, running_queue)
        /\ init_sends' = [init_sends EXCEPT ![s] = 0]
        /\ ConsumeReply(s)
        /\ UNCHANGED <<device, task_id, compiled, connected, creator, device_list, has_reply,
                       job_state, source, sink, result, will_reduce, reduced, saved, hung,
                       jobs>>
    BY DEF InitJobSucceeds
  <1>2. Head(from_device[s]) \in Signals /\ job_state = "RUNNING"
    BY <1>0, <1>1, ReplyFacts, FromDeviceKinds
  <1>3. /\ from_device' \in [Services -> Seq(MessagesFromDevice)]
        /\ states \in [Services -> DeviceStates]
        /\ \A r \in Services :
              DeviceOK(connected[r], device[r], task_id[r], states[r], to_device[r],
                       from_device'[r])
    BY <1>1, <1>2, SignalFacts
  <1>4. /\ task_state \in [Tasks -> TaskStates] /\ task_queue \in Seq(Tasks)
        /\ running_queue \in SUBSET Tasks
        /\ curr_task \in [Services -> Tasks \cup {NoTask}]
        /\ to_device \in [Services -> Seq(MessagesToDevice)]
    BY <1>0 DEF TypeOK, DevicesTypeOK, TaskStates
  <1>5. ListedOnce'
    BY <1>0, <1>1 DEF ListedOnce
  <1>6. \A r \in Services : states[r] = "RUNNING" => device_state[r] = "RUNNING"
    BY <1>0 DEF TypeOK
  <1> HIDE DEF states
  <1>7. init_sends' \in [Services -> 0..MaxInitSends]
    BY <1>0, <1>1, SchedulerBounds DEF TypeOK
  <1>8. ASSUME device_state' \in [Services -> DeviceStates],
               curr_task' \in [Services -> Tasks \cup {NoTask}],
               task_state' \in [Tasks -> TaskStates],
               task_queue' \in Seq(Tasks), running_queue' \subseteq Tasks,
               to_device' \in [Services -> Seq(MessagesToDevice)]
        PROVE  TypeOK'
    BY <1>0, <1>1, <1>3, <1>7, <1>8 DEF TypeOK, DevicesTypeOK, DeviceStates, TaskStates
  <1>9. CASE task_queue = <<>>
    <2>1. /\ device_state' = states /\ task_state' = task_state
          /\ running_queue' = running_queue
          /\ task_queue' = <<>> /\ curr_task' = curr_task /\ to_device' = to_device
      BY <1>0, <1>1, <1>3, <1>4, <1>9, HandOutNothing
    <2>2. TypeOK'
      BY <1>3, <1>4, <1>8, <1>9, <2>1
    <2>3. DeviceInv'
      BY <1>1, <1>3, <2>1 DEF DeviceInv
    <2>4. TaskInv'
      <3>1. UNCHANGED jobVars
        BY <1>1, <1>9, <2>1 DEF jobVars
      <3> QED
        BY <1>2, <1>6, <2>1, <3>1, JobUnchanged DEF IInv
    <2> QED
      BY <1>5, <2>2, <2>3, <2>4 DEF IInv
  <1>10. CASE task_queue # <<>>
    <2>1. Distributing /\ will_reduce = 0 /\ reduced = <<>>
      <3>1. Distributing
        BY <1>10 DEF IInv, TaskInv, NothingBefore
      <3>2. will_reduce \in Nat
        BY <1>0 DEF TypeOK
      <3> QED
        BY <1>2, <1>10, <3>1, <3>2 DEF IInv, TaskInv, ReducedOnce, NothingLeft
    <2>2. Accounted(task_state, task_queue, running_queue)
      BY <1>4, <2>1, QueuesAreAccounted DEF IInv, TaskInv
    <2>3. Busy(states, curr_task, running_queue)
      BY <1>6 DEF IInv, TaskInv, BusyDevicesDiffer, Busy
    <2>4. /\ DeviceInv' /\ QueuesMatchStates' /\ BusyDevicesDiffer'
          /\ device_state' \in [Services -> DeviceStates]
          /\ curr_task' \in [Services -> Tasks \cup {NoTask}]
          /\ task_state' \in [Tasks -> TaskStates]
          /\ task_queue' \in Seq(Tasks)
          /\ running_queue' \subseteq Tasks
          /\ to_device' \in [Services -> Seq(MessagesToDevice)]
          /\ \A t \in Tasks : task_state'[t] = "FINISH" <=> task_state[t] = "FINISH"
      BY <1>0, <1>1, <1>3, <1>4, <2>2, <2>3, HandOutInv
    <2>5. NothingBefore' /\ ReducedOnce' /\ SinkGetsEveryResult'
      BY <1>1, <1>2, <2>1 DEF NothingBefore, Distributing, ReducedOnce, SinkGetsEveryResult
    <2>6. ResultsInv'
      BY <1>1, <2>4 DEF IInv, TaskInv, ResultsInv, ResultsAreRight, EmptyBefore
    <2> QED
      BY <1>5, <1>8, <2>4, <2>5, <2>6 DEF IInv, TaskInv
  <1> QED
    BY <1>9, <1>10

LEMMA OnTaskFailedInv ==
    ASSUME IInv, NEW s \in Services, OnTaskFailed(s)
    PROVE  IInv'
  <1>0. /\ task_state \in [Tasks -> TaskStates] /\ result \in [Tasks -> Int]
        /\ saved \in [Tasks -> Int] /\ curr_task[s] \in Tasks \cup {NoTask}
    BY DEF IInv, TypeOK, TaskStates
  <1>1. /\ task_state' = [t \in Tasks |-> IF t \in Found(curr_task[s]) THEN "ERROR"
                                                                      ELSE task_state[t]]
        /\ saved' = Finished(task_state', result)
        /\ job_state' = "FAILED" /\ DropScheduler
        /\ UNCHANGED <<result, reduced, hung, jobs>>
    BY DEF OnTaskFailed, OnRunningError
  <1>2. /\ task_state' \in [Tasks -> TaskStates]
        /\ \A t \in Tasks : task_state'[t] = "FINISH" => task_state[t] = "FINISH"
    BY <1>0, <1>1 DEF TaskStates
  <1>3. saved' \in [Tasks -> Int] /\ ResultsAreRight'
    BY <1>0, <1>1, <1>2 DEF Finished, NoResult, IInv, TaskInv, ResultsInv, ResultsAreRight, EmptyBefore
  <1> QED
    BY <1>0, <1>1, <1>2, <1>3, DropInv

LEMMA OnTaskSucceedInv ==
    ASSUME IInv, NEW s \in Services, OnTaskSucceed(s)
    PROVE  IInv'
  <1> DEFINE states == [device_state EXCEPT ![s] = "RUNNING_IDLE"]
             cur == curr_task[s]
             ts == [t \in Tasks |-> IF t \in Found(cur) THEN "FINISH" ELSE task_state[t]]
             rq == running_queue \ Found(cur)
  <1>0. TypeOK /\ ListedOnce
    BY DEF IInv
  <1>1. /\ ReplyArrives(s, "DoTask") /\ Listens(s) /\ IsResult(s)
        /\ result' = [t \in Tasks |-> IF t \in Found(cur)
                                      THEN Head(from_device[s]).task_output ELSE result[t]]
        /\ ConsumeReply(s)
        /\ UNCHANGED <<device, task_id, compiled, connected, creator, device_list, init_sends,
                       has_reply, job_state, source, sink, reduced, saved, hung, jobs>>
    BY DEF OnTaskSucceed
  <1>a. IF task_queue = <<>> /\ rq = {}
        THEN /\ task_state' = ts
             /\ device_state' = states
             /\ running_queue' = rq
             /\ will_reduce' = will_reduce + 1
             /\ UNCHANGED <<curr_task, task_queue, to_device>>
        ELSE /\ OnDeviceAvailable(states, ts, task_queue, rq)
             /\ UNCHANGED will_reduce
    BY DEF OnTaskSucceed, DoneWith
  <1>2. /\ Head(from_device[s]) \in Signals /\ Head(from_device[s]) \in TaskReplies
        /\ job_state = "RUNNING" /\ connected[s]
        /\ cur \in Tasks /\ Head(from_device[s]).task_output = Output[cur]
    BY <1>0, <1>1, ReplyFacts, FromDeviceKinds DEF IsResult
  <1>3. /\ from_device' \in [Services -> Seq(MessagesFromDevice)]
        /\ states \in [Services -> DeviceStates]
        /\ \A r \in Services :
              DeviceOK(connected[r], device[r], task_id[r], states[r], to_device[r],
                       from_device'[r])
    BY <1>1, <1>2, SignalFacts
  <1>4. /\ task_state \in [Tasks -> TaskStates] /\ task_queue \in Seq(Tasks)
        /\ running_queue \in SUBSET Tasks /\ result \in [Tasks -> Int]
        /\ curr_task \in [Services -> Tasks \cup {NoTask}]
        /\ to_device \in [Services -> Seq(MessagesToDevice)]
        /\ device_state \in [Services -> DeviceStates]
        /\ will_reduce \in Nat
    BY <1>0 DEF TypeOK, DevicesTypeOK, TaskStates, DeviceStates
  <1>5. device_state[s] = "RUNNING" /\ cur \in running_queue
    <2>1. Has(from_device[s], TaskReplies)
      BY <1>0, <1>1, <1>2, ReplyFacts, TailHas
    <2>2. device_state[s] \in {"RUNNING", "FAILED"}
      BY <1>2, <2>1 DEF IInv, DeviceInv, DeviceOK, GivenIsBusy
    <2> QED
      BY <1>1, <2>2 DEF Listens, IInv, TaskInv, BusyDevicesDiffer
  <1>6. Distributing /\ will_reduce = 0 /\ reduced = <<>>
    <2>1. Distributing
      BY <1>5 DEF IInv, TaskInv, NothingBefore
    <2> QED
      BY <1>2, <1>4, <1>5, <2>1 DEF IInv, TaskInv, ReducedOnce, NothingLeft
  <1>7. /\ ts \in [Tasks -> TaskStates] /\ rq \in SUBSET Tasks
        /\ Accounted(ts, task_queue, rq)
    <2>1. Accounted(task_state, task_queue, running_queue)
      BY <1>4, <1>6, QueuesAreAccounted DEF IInv, TaskInv
    <2>2. task_state[cur] = "RUNNING" /\ ~\E i \in 1..Len(task_queue) : task_queue[i] = cur
      BY <1>2, <1>5, <2>1 DEF Accounted
    <2>3. /\ \A t \in Tasks : ts[t] = IF t \in Found(cur) THEN "FINISH" ELSE task_state[t]
          /\ ts \in [Tasks -> TaskStates]
          /\ \A t \in Found(cur) : t = cur
      BY <1>2, <1>4 DEF TaskStates, Found
    <2> HIDE DEF ts
    <2>4. Accounted(ts, task_queue, rq)
      BY <2>1, <2>2, <2>3 DEF Accounted
    <2> QED
      BY <1>4, <2>3, <2>4
  <1>8. Busy(states, curr_task, rq)
    <2>1. \A r \in Services : states[r] = "RUNNING" => device_state[r] = "RUNNING" /\ r # s
      BY <1>4
    <2>2. \A t \in Found(cur) : t = cur
      BY DEF Found
    <2> HIDE DEF states
    <2> QED
      BY <1>5, <2>1, <2>2 DEF IInv, TaskInv, BusyDevicesDiffer, Busy
  <1>9. /\ result' \in [Tasks -> Int]
        /\ \A t \in Tasks : ts[t] = "FINISH" => result'[t] = Output[t]
        /\ \A t \in Tasks : ts[t] # "FINISH" => result'[t] = NoResult
    <2>1. \A t \in Found(cur) : t = cur
      BY DEF Found
    <2>2. \A t \in Tasks : /\ task_state[t] = "FINISH" => result[t] = Output[t]
                           /\ task_state[t] # "FINISH" => result[t] = NoResult
      BY <1>2 DEF IInv, TaskInv, ResultsInv, ResultsAreRight, EmptyBefore
    <2> QED
      BY <1>1, <1>2, <1>4, <2>1, <2>2, TasksAssumption
  <1>10. ListedOnce'
    BY <1>0, <1>1 DEF ListedOnce
  <1> HIDE DEF states, ts, rq, cur
  <1>11. ASSUME device_state' \in [Services -> DeviceStates],
                curr_task' \in [Services -> Tasks \cup {NoTask}],
                task_state' \in [Tasks -> TaskStates],
                task_queue' \in Seq(Tasks), running_queue' \subseteq Tasks,
                to_device' \in [Services -> Seq(MessagesToDevice)], will_reduce' \in Nat
         PROVE  TypeOK'
    BY <1>0, <1>1, <1>3, <1>9, <1>11 DEF TypeOK, DevicesTypeOK, DeviceStates, TaskStates
  <1>12. NothingBefore' /\ SinkGetsEveryResult'
    BY <1>1, <1>2, <1>6 DEF NothingBefore, Distributing, SinkGetsEveryResult
  <1>13. (\A t \in Tasks : task_state'[t] = "FINISH" <=> ts[t] = "FINISH") => ResultsInv'
    BY <1>1, <1>9 DEF IInv, TaskInv, ResultsInv, ResultsAreRight, EmptyBefore
  <1>14. CASE task_queue = <<>> /\ rq = {}
    <2>1. /\ task_state' = ts /\ device_state' = states /\ running_queue' = {}
          /\ will_reduce' = 1 /\ task_queue' = <<>>
          /\ UNCHANGED <<curr_task, task_queue, to_device>>
      BY <1>a, <1>6, <1>14
    <2>2. TypeOK'
      BY <1>3, <1>4, <1>7, <1>11, <2>1
    <2>3. DeviceInv'
      BY <1>1, <1>3, <2>1 DEF DeviceInv
    <2>4. QueuesMatchStates' /\ BusyDevicesDiffer'
      <3>1. DOMAIN task_queue' = 1..Len(task_queue')
        BY <2>1
      <3> QED
        BY <1>7, <1>8, <1>14, <2>1, <3>1 DEF QueuesMatchStates, BusyDevicesDiffer, Accounted, Busy
    <2>5. ReducedOnce'
      BY <1>1, <1>6, <2>1 DEF ReducedOnce, NothingLeft
    <2>6. ResultsInv'
      BY <1>13, <2>1
    <2> QED
      BY <1>10, <1>12, <2>2, <2>3, <2>4, <2>5, <2>6 DEF IInv, TaskInv
  <1>15. CASE ~(task_queue = <<>> /\ rq = {})
    <2>1. OnDeviceAvailable(states, ts, task_queue, rq) /\ will_reduce' = 0
      BY <1>a, <1>6, <1>15
    <2>2. /\ DeviceInv' /\ QueuesMatchStates' /\ BusyDevicesDiffer'
          /\ device_state' \in [Services -> DeviceStates]
          /\ curr_task' \in [Services -> Tasks \cup {NoTask}]
          /\ task_state' \in [Tasks -> TaskStates]
          /\ task_queue' \in Seq(Tasks)
          /\ running_queue' \subseteq Tasks
          /\ to_device' \in [Services -> Seq(MessagesToDevice)]
          /\ \A t \in Tasks : task_state'[t] = "FINISH" <=> ts[t] = "FINISH"
      BY <1>0, <1>1, <1>3, <1>4, <1>7, <1>8, <2>1, HandOutInv
    <2>3. TypeOK'
      BY <1>11, <2>1, <2>2
    <2>4. ReducedOnce'
      BY <1>1, <1>6, <2>1 DEF ReducedOnce
    <2> QED
      BY <1>10, <1>12, <1>13, <2>2, <2>3, <2>4 DEF IInv, TaskInv
  <1> QED
    BY <1>14, <1>15

-----------------------------------------------------------------------------
(***************************************************************************)
(* Losing a device.                                                        *)
(***************************************************************************)
\* The task of a lost device goes from the running queue to the other one.
LEMMA PutBackAccounted ==
    ASSUME NEW t \in Tasks, task_queue \in Seq(Tasks), task_state \in [Tasks -> TaskStates],
           running_queue \subseteq Tasks, t \in running_queue,
           Accounted(task_state, task_queue, running_queue),
           task_state' = [u \in Tasks |-> IF u = t THEN "PENDING" ELSE task_state[u]],
           running_queue' = running_queue \ {t},
           task_queue' = Append(task_queue, t)
    PROVE  /\ Accounted(task_state, task_queue, running_queue)'
           /\ task_queue' \in Seq(Tasks)
  <1>1. /\ task_queue' \in Seq(Tasks) /\ Len(task_queue) \in Nat
        /\ Len(task_queue') = Len(task_queue) + 1
        /\ \A i \in 1..Len(task_queue) : task_queue'[i] = task_queue[i]
        /\ task_queue'[Len(task_queue) + 1] = t
    BY AppendFacts
  <1>2. /\ \A i \in 1..Len(task_queue') : i \in 1..Len(task_queue) \/ i = Len(task_queue) + 1
        /\ 1..Len(task_queue) \subseteq 1..Len(task_queue')
        /\ Len(task_queue) + 1 \in 1..Len(task_queue')
    BY <1>1
  <1>3. \A i \in 1..Len(task_queue) : task_queue[i] # t
    BY DEF Accounted
  <1>4. ASSUME NEW u \in Tasks
        PROVE  /\ task_state'[u] = "PENDING" <=>
                     \E i \in 1..Len(task_queue') : task_queue'[i] = u
               /\ task_state'[u] = "RUNNING" <=> u \in running_queue'
    BY <1>1, <1>2 DEF Accounted
  <1>5. \A i, j \in 1..Len(task_queue') : task_queue'[i] = task_queue'[j] => i = j
    BY <1>1, <1>2, <1>3 DEF Accounted
  <1> QED
    BY <1>1, <1>4, <1>5 DEF Accounted

LEMMA RemoveKeepsList ==
    ASSUME TypeOK, ListedOnce, NEW s \in Services, connected[s], RemoveFromList(s),
           connected' = [connected EXCEPT ![s] = FALSE], creator' = creator
    PROVE  /\ ListedOnce' /\ device_list' \in Seq(Services) /\ hung' \in BOOLEAN
  <1>0. /\ device_list \in Seq(Services) /\ connected \in [Services -> BOOLEAN]
        /\ hung \in BOOLEAN
    BY DEF TypeOK, DevicesTypeOK
  <1>1. device_list # <<>>
    BY DEF ListedOnce
  <1>2. /\ Len(device_list) \in Nat /\ Head(device_list) = device_list[1]
        /\ Tail(device_list) \in Seq(Services)
        /\ Len(Tail(device_list)) = Len(device_list) - 1
        /\ \A i \in 1..(Len(device_list) - 1) : Tail(device_list)[i] = device_list[i + 1]
    BY <1>0, <1>1, TailFacts
  <1>3. CASE Head(device_list) = s
    <2>1. device_list' = Tail(device_list) /\ hung' = hung
      BY <1>3 DEF RemoveFromList
    <2>2. \A i \in 1..Len(device_list') : i + 1 \in 1..Len(device_list)
                                          /\ device_list'[i] = device_list[i + 1]
      BY <1>2, <2>1
    <2>3. \A i \in 1..Len(device_list') : creator'[device_list'[i]] = "has_device"
      BY <2>2 DEF ListedOnce
    <2>4. \A i, j \in 1..Len(device_list') : device_list'[i] = device_list'[j] => i = j
      <3> SUFFICES ASSUME NEW i \in 1..Len(device_list'), NEW j \in 1..Len(device_list'),
                          device_list'[i] = device_list'[j]
                   PROVE  i = j
        OBVIOUS
      <3>1. i + 1 = j + 1
        BY <2>2 DEF ListedOnce
      <3> QED
        BY <3>1
    <2>5. ASSUME NEW r \in Services, connected'[r]
          PROVE  \E i \in 1..Len(device_list') : device_list'[i] = r
      <3>1. r # s /\ connected[r]
        BY <1>0, <2>5
      <3>2. PICK i \in 1..Len(device_list) : device_list[i] = r
        BY <3>1 DEF ListedOnce
      <3>3. i # 1
        BY <1>2, <1>3, <3>1, <3>2
      <3>4. i - 1 \in 1..Len(device_list') /\ (i - 1) + 1 = i
        BY <1>2, <2>1, <3>3
      <3> QED
        BY <2>2, <3>2, <3>4
    <2> QED
      BY <1>0, <1>2, <2>1, <2>3, <2>4, <2>5 DEF ListedOnce
  <1>4. CASE Head(device_list) # s
    <2>1. device_list' = device_list /\ hung' = TRUE
      BY <1>4 DEF RemoveFromList
    <2>2. \A r \in Services : connected'[r] => connected[r]
      BY <1>0
    <2> QED
      BY <1>0, <2>1, <2>2 DEF ListedOnce
  <1> QED
    BY <1>3, <1>4

LEMMA LoseDeviceInv ==
    ASSUME IInv, NEW s \in Services, LoseDevice(s)
    PROVE  IInv'
  <1>0. TypeOK /\ ListedOnce
    BY DEF IInv
  <1>1. /\ Running /\ connected[s]
        /\ task_state' = [t \in Tasks |-> IF PutBack(s) = <<t>> THEN "PENDING"
                                                                ELSE task_state[t]]
        /\ running_queue' = {t \in running_queue : PutBack(s) # <<t>>}
        /\ task_queue' = task_queue \o PutBack(s)
        /\ Send(s, Message("CloseDevice"))
        /\ connected' = [connected EXCEPT ![s] = FALSE]
        /\ from_device' = [from_device EXCEPT ![s] = <<>>]
        /\ device_state' = [device_state EXCEPT ![s] = "IDLE"]
        /\ init_sends' = [init_sends EXCEPT ![s] = 0]
        /\ RemoveFromList(s)
        /\ UNCHANGED <<device, task_id, compiled, creator, curr_task, has_reply, job_state,
                       source, sink, result, will_reduce, reduced, saved, jobs>>
    BY DEF LoseDevice, StopDevice
  <1>2. /\ ListedOnce' /\ device_list' \in Seq(Services) /\ hung' \in BOOLEAN
    BY <1>0, <1>1, RemoveKeepsList
  <1>3. /\ task_state \in [Tasks -> TaskStates] /\ task_queue \in Seq(Tasks)
        /\ running_queue \in SUBSET Tasks
        /\ curr_task \in [Services -> Tasks \cup {NoTask}]
        /\ to_device \in [Services -> Seq(MessagesToDevice)]
        /\ device_state \in [Services -> DeviceStates]
        /\ init_sends' \in [Services -> 0..MaxInitSends]
        /\ will_reduce \in Nat
    BY <1>0, <1>1, SchedulerBounds DEF TypeOK, DevicesTypeOK, TaskStates, DeviceStates
  <1>4. Message("CloseDevice") \in MessagesToDevice \ DoTasks
        /\ Message("CloseDevice") \in MessagesToDevice
    BY ToDeviceKinds
  <1>5. /\ to_device' \in [Services -> Seq(MessagesToDevice)]
        /\ \A r \in Services : r # s => to_device'[r] = to_device[r]
        /\ \/ to_device'[s] = to_device[s]
           \/ to_device'[s] = Append(to_device[s], Message("CloseDevice"))
    BY <1>1, <1>3, <1>4, SendFacts
  <1>6. DevicesTypeOK'
    <2>1. << >> \in Seq(MessagesFromDevice)
      OBVIOUS
    <2> QED
      BY <1>0, <1>1, <1>5, <2>1 DEF TypeOK, DevicesTypeOK
  <1>7. ASSUME task_state' \in [Tasks -> TaskStates], task_queue' \in Seq(Tasks),
               running_queue' \subseteq Tasks
        PROVE  TypeOK'
    BY <1>0, <1>1, <1>2, <1>3, <1>6, <1>7 DEF TypeOK, TaskStates
  <1>8. DeviceInv'
    <2> SUFFICES ASSUME NEW r \in Services
                 PROVE  DeviceOK(connected'[r], device[r], task_id[r], device_state'[r],
                                 to_device'[r], from_device'[r])
      BY <1>1 DEF DeviceInv
    <2>1. DeviceOK(connected[r], device[r], task_id[r], device_state[r], to_device[r],
                   from_device[r])
      BY DEF IInv, DeviceInv
    <2>2. CASE r # s
      <3>1. /\ connected'[r] = connected[r] /\ device_state'[r] = device_state[r]
            /\ to_device'[r] = to_device[r] /\ from_device'[r] = from_device[r]
        BY <1>0, <1>1, <1>5, <2>2 DEF TypeOK, DevicesTypeOK
      <3> QED
        BY <2>1, <3>1
    <2>3. CASE r = s
      <3>1. connected'[s] = FALSE /\ device_state'[s] = "IDLE" /\ from_device'[s] = <<>>
        BY <1>0, <1>1 DEF TypeOK, DevicesTypeOK
      <3>2. /\ DeviceOK(FALSE, device[s], task_id[s], "IDLE", to_device[s], <<>>)
            /\ to_device[s] \in Seq(MessagesToDevice)
        BY <1>3, <2>1, <2>3, Disconnects
      <3>3. DeviceOK(FALSE, device[s], task_id[s], "IDLE",
                     Append(to_device[s], Message("CloseDevice")), <<>>)
        BY <1>4, <3>2, SendKeeps
      <3> QED
        BY <1>5, <2>3, <3>1, <3>2, <3>3
    <2> QED
      BY <2>2, <2>3
  <1>9. /\ \A r \in Services : device_state'[r] = "RUNNING" =>
              device_state[r] = "RUNNING" /\ r # s
        /\ job_state = "RUNNING" /\ job_state' = "RUNNING"
    BY <1>1, <1>3 DEF Running
  <1>10. CASE device_state[s] = "RUNNING" /\ curr_task[s] \in Found(curr_task[s])
    <2>1. /\ curr_task[s] \in running_queue /\ curr_task[s] \in Tasks
          /\ Distributing /\ will_reduce = 0 /\ reduced = <<>>
      <3>1. curr_task[s] \in running_queue /\ curr_task[s] \in Tasks /\ Distributing
        BY <1>3, <1>10 DEF IInv, TaskInv, BusyDevicesDiffer, NothingBefore
      <3> QED
        BY <1>3, <1>9, <3>1 DEF IInv, TaskInv, ReducedOnce, NothingLeft
    <2>2. Accounted(task_state, task_queue, running_queue)
      BY <1>3, <2>1, QueuesAreAccounted DEF IInv, TaskInv
    <2>3. /\ task_state' = [u \in Tasks |-> IF u = curr_task[s] THEN "PENDING" ELSE task_state[u]]
          /\ running_queue' = running_queue \ {curr_task[s]}
          /\ task_queue' = Append(task_queue, curr_task[s])
      <3>1. PutBack(s) = <<curr_task[s]>>
        BY <1>10 DEF PutBack
      <3>2. \A t : PutBack(s) = <<t>> <=> t = curr_task[s]
        BY <3>1
      <3>3. /\ task_state' = [u \in Tasks |-> IF u = curr_task[s] THEN "PENDING"
                                                                  ELSE task_state[u]]
            /\ running_queue' = running_queue \ {curr_task[s]}
        BY <1>1, <3>2
      <3>4. task_queue' = Append(task_queue, curr_task[s])
        BY <1>1, <1>3, <2>1, <3>1
      <3> QED
        BY <3>3, <3>4
    <2>4. Accounted(task_state, task_queue, running_queue)' /\ task_queue' \in Seq(Tasks)
      BY <1>3, <2>1, <2>2, <2>3, PutBackAccounted
    <2>5. TypeOK'
      BY <1>3, <1>7, <2>3, <2>4 DEF TaskStates
    <2>6. QueuesMatchStates'
      <3>1. DOMAIN task_queue' = 1..Len(task_queue')
        BY <2>4
      <3> QED
        BY <2>4, <3>1 DEF QueuesMatchStates, Accounted
    <2>7. BusyDevicesDiffer'
      BY <1>1, <1>9, <1>10, <2>3 DEF IInv, TaskInv, BusyDevicesDiffer
    <2>8. NothingBefore' /\ ReducedOnce' /\ SinkGetsEveryResult'
      BY <1>1, <1>9, <2>1 DEF NothingBefore, Distributing, ReducedOnce, SinkGetsEveryResult
    <2>9. ResultsInv'
      <3>1. task_state[curr_task[s]] = "RUNNING"
        BY <2>1, <2>2 DEF Accounted
      <3> QED
        BY <1>1, <1>9, <2>3, <3>1 DEF IInv, TaskInv, ResultsInv, ResultsAreRight, EmptyBefore
    <2> QED
      BY <1>2, <1>8, <2>5, <2>6, <2>7, <2>8, <2>9 DEF IInv, TaskInv
  <1>11. CASE ~(device_state[s] = "RUNNING" /\ curr_task[s] \in Found(curr_task[s]))
    <2>1. task_state' = task_state /\ running_queue' = running_queue /\ task_queue' = task_queue
      <3>1. PutBack(s) = <<>>
        BY <1>11 DEF PutBack
      <3>2. \A t : PutBack(s) # <<t>>
        BY <3>1
      <3>3. task_state' = task_state /\ running_queue' = running_queue
        BY <1>1, <1>3, <3>2
      <3>4. task_queue' = task_queue
        BY <1>1, <1>3, <3>1
      <3> QED
        BY <3>3, <3>4
    <2>2. TypeOK'
      BY <1>3, <1>7, <2>1
    <2>3. TaskInv'
      <3>1. NothingBefore'
        BY <1>1, <1>9, <2>1 DEF IInv, TaskInv, NothingBefore, Distributing
      <3>2. BusyDevicesDiffer'
        BY <1>1, <1>9, <2>1 DEF IInv, TaskInv, BusyDevicesDiffer
      <3>3. QueuesMatchStates' /\ ResultsInv' /\ ReducedOnce' /\ SinkGetsEveryResult'
        BY <1>1, <2>1 DEF IInv, TaskInv, QueuesMatchStates, ResultsInv, ResultsAreRight, EmptyBefore, ReducedOnce,
                          NothingLeft, SinkGetsEveryResult
      <3> QED
        BY <3>1, <3>2, <3>3 DEF TaskInv
    <2> QED
      BY <1>2, <1>8, <2>2, <2>3 DEF IInv
  <1> QED
    BY <1>10, <1>11

-----------------------------------------------------------------------------
(***************************************************************************)
(* The source and the sink.                                                *)
(***************************************************************************)
LEMMA ReduceResultInv ==
    ASSUME IInv, ReduceResult
    PROVE  IInv'
  <1>0. /\ will_reduce \in Nat /\ reduced \in Seq([Tasks -> Int]) /\ Len(reduced) \in Nat
        /\ result \in [Tasks -> Int] /\ task_queue \in Seq(Tasks)
        /\ task_state \in [Tasks -> TaskStates]
    BY DEF IInv, TypeOK, TaskStates
  <1>1. /\ job_state = "RUNNING" /\ will_reduce > 0
        /\ will_reduce' = will_reduce - 1
        /\ reduced' = IF NothingLeft THEN Append(reduced, result) ELSE reduced
        /\ UNCHANGED <<deviceVars, proxyVars, job_state, source, sink, task_state, result,
                       task_queue, running_queue, saved, hung, jobs>>
    BY DEF ReduceResult, Running
  <1>2. /\ will_reduce = 1 /\ Len(reduced) = 0 /\ NothingLeft /\ Distributing
    BY <1>0, <1>1 DEF IInv, TaskInv, ReducedOnce, NothingBefore
  <1>3. /\ reduced' \in Seq([Tasks -> Int]) /\ Len(reduced') = 1 /\ reduced'[1] = result
        /\ will_reduce' = 0
    <2>1. reduced' = Append(reduced, result)
      BY <1>1, <1>2
    <2> QED
      BY <1>0, <1>1, <1>2, <2>1, AppendFacts
  <1>4. TypeOK'
    BY <1>1, <1>3 DEF IInv, TypeOK, DevicesTypeOK, deviceVars, proxyVars
  <1>5. DeviceInv' /\ ListedOnce'
    BY <1>1 DEF IInv, DeviceInv, ListedOnce, deviceVars, proxyVars
  <1>6. SinkGetsEveryResult'
    <2>1. Accounted(task_state, task_queue, running_queue)
      BY <1>0, <1>2, QueuesAreAccounted DEF IInv, TaskInv
    <2>2. \A t \in Tasks : task_state[t] \in {"NONE", "FINISH", "ERROR"}
      <3>1. Len(task_queue) = 0 /\ running_queue = {}
        BY <1>2 DEF NothingLeft
      <3> QED
        BY <1>0, <2>1, <3>1 DEF Accounted, TaskStates
    <2> QED
      BY <1>1, <1>3, <2>2 DEF IInv, TaskInv, ResultsInv, ResultsAreRight, EmptyBefore, SinkGetsEveryResult
  <1>7. TaskInv'
    <2>1. NothingBefore' /\ ReducedOnce'
      BY <1>1, <1>2, <1>3 DEF NothingBefore, Distributing, ReducedOnce, NothingLeft
    <2>2. QueuesMatchStates' /\ BusyDevicesDiffer' /\ ResultsInv'
      BY <1>1 DEF IInv, TaskInv, QueuesMatchStates, BusyDevicesDiffer, ResultsInv, ResultsAreRight, EmptyBefore,
                  proxyVars
    <2> QED
      BY <1>6, <2>1, <2>2 DEF TaskInv
  <1> QED
    BY <1>4, <1>5, <1>7 DEF IInv

LEMMA EndInv ==
    ASSUME IInv, Stop \/ \E ok \in BOOLEAN : SinkStops(ok)
    PROVE  IInv'
  <1>0. /\ task_state \in [Tasks -> TaskStates] /\ result \in [Tasks -> Int]
        /\ saved \in [Tasks -> Int]
    BY DEF IInv, TypeOK, TaskStates
  <1>1. /\ DropScheduler /\ job_state' \in {"PREPARE", "FINISH", "FAILED"}
        /\ saved' = saved \/ saved' = Finished(task_state, result)
        /\ UNCHANGED <<task_state, result, reduced, hung, jobs>>
    BY DEF Stop, SinkStops
  <1>2. saved' \in [Tasks -> Int] /\ ResultsAreRight'
    BY <1>0, <1>1 DEF Finished, NoResult, IInv, TaskInv, ResultsInv, ResultsAreRight, EmptyBefore
  <1> QED
    BY <1>0, <1>1, <1>2, DropInv

\* MakeTaskQueue: every pending task, once.
LEMMA PendingQueueFacts ==
    ASSUME NEW ts \in [Tasks -> TaskStates],
           \A t \in Tasks : ts[t] # "RUNNING"
    PROVE  PendingQueue(ts) \in Seq(Tasks) /\ Accounted(ts, PendingQueue(ts), {})
  <1>1. PICK l : l = [i \in 1..TaskCount |-> i]
    OBVIOUS
  <1>2. PICK S : S = {t \in Tasks : ts[t] = "PENDING"}
    OBVIOUS
  <1>3. /\ TaskCount \in Nat /\ l \in Seq(Tasks) /\ Len(l) = TaskCount
        /\ \A i \in 1..TaskCount : l[i] = i
    BY <1>1, TasksAssumption DEF Tasks
  <1>4. PICK q : q = Select(l, S)
    OBVIOUS
  <1>5. q \in Seq(Tasks) /\ Selected(l, S, Len(l), q)
    BY <1>3, <1>4, SelectFacts
  <1>6. PendingQueue(ts) = q
    BY <1>1, <1>2, <1>4 DEF PendingQueue
  <1>7. \A k \in 1..Len(q) : q[k] \in S
    BY <1>5 DEF Selected
  <1>8. \A t \in S : \E k \in 1..Len(q) : q[k] = t
    <2> SUFFICES ASSUME NEW t \in S PROVE \E k \in 1..Len(q) : q[k] = t
      OBVIOUS
    <2>1. t \in 1..Len(l) /\ l[t] = t
      BY <1>2, <1>3 DEF Tasks
    <2> QED
      BY <1>5, <2>1 DEF Selected
  <1>9. \A k, m \in 1..Len(q) : q[k] = q[m] => k = m
    BY <1>3, <1>5 DEF Selected
  <1>10. Accounted(ts, q, {})
    BY <1>2, <1>7, <1>8, <1>9 DEF Accounted
  <1> QED
    BY <1>5, <1>6, <1>10

LEMMA SourceStopsInv ==
    ASSUME IInv, NEW n \in 0..TaskCount, NEW bad \in SUBSET (1..n), SourceStops(n, bad)
    PROVE  IInv'
  <1> DEFINE ts == LoadSavedState(AddInputData(n, bad))
             tq == PendingQueue(ts)
  <1>0. /\ TypeOK /\ ListedOnce /\ saved \in [Tasks -> Int] /\ will_reduce \in Nat
        /\ device_state \in [Services -> DeviceStates]
    BY DEF IInv, TypeOK, DeviceStates
  <1>1. /\ job_state = "RUNNING" /\ source = "running" /\ result' = Finished(ts, saved)
        /\ UNCHANGED <<reduced, hung, jobs>>
    BY DEF SourceStops, Running
  <1>2. /\ ts \in [Tasks -> TaskStates]
        /\ \A t \in Tasks : ts[t] # "RUNNING"
        /\ \A t \in Tasks : ts[t] = "FINISH" => saved[t] # NoResult
    BY DEF LoadSavedState, AddInputData, TaskStates
  <1>3. tq \in Seq(Tasks) /\ Accounted(ts, tq, {})
    BY <1>2, PendingQueueFacts
  <1>4. /\ result' \in [Tasks -> Int]
        /\ \A t \in Tasks : result'[t] \in {NoResult, Output[t]}
        /\ \A t \in Tasks : ts[t] = "FINISH" => result'[t] = Output[t]
        /\ \A t \in Tasks : ts[t] # "FINISH" => result'[t] = NoResult
    BY <1>0, <1>1, <1>2 DEF Finished, NoResult, IInv, TaskInv, ResultsInv, ResultsAreRight, EmptyBefore
  <1>5. /\ task_queue = <<>> /\ running_queue = {} /\ will_reduce = 0 /\ reduced = <<>>
        /\ \A s \in Services : device_state[s] # "RUNNING"
    BY <1>1 DEF IInv, TaskInv, NothingBefore, Distributing
  <1> HIDE DEF ts, tq
  <1>6. CASE /\ source' = "stopped" /\ sink' = "running"
             /\ IF tq = <<>>
                THEN /\ task_state' = ts
                     /\ will_reduce' = will_reduce + 1
                     /\ UNCHANGED <<device_state, curr_task, running_queue, task_queue,
                                    to_device>>
                ELSE /\ OnDeviceAvailable(device_state, ts, tq, {})
                     /\ UNCHANGED will_reduce
             /\ UNCHANGED <<device, task_id, compiled, connected, from_device, creator,
                            device_list, init_sends, has_reply, job_state, saved>>
    <2>1. ListedOnce'
      BY <1>0, <1>6 DEF ListedOnce
    <2>2. (\A t \in Tasks : task_state'[t] = "FINISH" <=> ts[t] = "FINISH") => ResultsInv'
      BY <1>4, <1>6 DEF IInv, TaskInv, ResultsInv, ResultsAreRight, EmptyBefore
    <2>3. NothingBefore' /\ SinkGetsEveryResult'
      BY <1>1, <1>5, <1>6 DEF NothingBefore, Distributing, SinkGetsEveryResult
    <2>4. ASSUME device_state' \in [Services -> DeviceStates],
                 curr_task' \in [Services -> Tasks \cup {NoTask}],
                 task_state' \in [Tasks -> TaskStates],
                 task_queue' \in Seq(Tasks), running_queue' \subseteq Tasks,
                 to_device' \in [Services -> Seq(MessagesToDevice)], will_reduce' \in Nat
          PROVE  TypeOK'
      BY <1>0, <1>1, <1>4, <1>6, <2>4 DEF TypeOK, DevicesTypeOK, DeviceStates, TaskStates
    <2>5. CASE tq = <<>>
      <3>1. /\ task_state' = ts /\ will_reduce' = 1
            /\ UNCHANGED <<device_state, curr_task, running_queue, task_queue, to_device>>
        BY <1>5, <1>6, <2>5
      <3>2. TypeOK'
        BY <1>0, <1>2, <2>4, <3>1 DEF TypeOK, DevicesTypeOK
      <3>3. DeviceInv'
        BY <1>6, <3>1 DEF IInv, DeviceInv
      <3>4. QueuesMatchStates' /\ BusyDevicesDiffer'
        <4>1. DOMAIN task_queue' = 1..Len(task_queue') /\ task_queue' = tq /\ running_queue' = {}
          BY <1>5, <2>5, <3>1
        <4> QED
          BY <1>3, <1>5, <3>1, <4>1 DEF QueuesMatchStates, BusyDevicesDiffer, Accounted
      <3>5. ReducedOnce'
        BY <1>1, <1>5, <3>1 DEF ReducedOnce, NothingLeft
      <3>6. ResultsInv'
        BY <2>2, <3>1
      <3> QED
        BY <2>1, <2>3, <3>2, <3>3, <3>4, <3>5, <3>6 DEF IInv, TaskInv
    <2>6. CASE tq # <<>>
      <3>1. OnDeviceAvailable(device_state, ts, tq, {}) /\ will_reduce' = 0
        BY <1>5, <1>6, <2>6
      <3>2. Busy(device_state, curr_task, {})
        BY <1>5 DEF Busy
      <3>3. \A s \in Services : DeviceOK(connected[s], device[s], task_id[s],
                                         device_state[s], to_device[s], from_device'[s])
        BY <1>6 DEF IInv, DeviceInv
      <3>4. /\ DeviceInv' /\ QueuesMatchStates' /\ BusyDevicesDiffer'
            /\ device_state' \in [Services -> DeviceStates]
            /\ curr_task' \in [Services -> Tasks \cup {NoTask}]
            /\ task_state' \in [Tasks -> TaskStates]
            /\ task_queue' \in Seq(Tasks)
            /\ running_queue' \subseteq Tasks
            /\ to_device' \in [Services -> Seq(MessagesToDevice)]
            /\ \A t \in Tasks : task_state'[t] = "FINISH" <=> ts[t] = "FINISH"
        <4>1. {} \in SUBSET Tasks
          OBVIOUS
        <4> QED
          BY <1>0, <1>2, <1>3, <1>6, <3>1, <3>2, <3>3, <4>1, HandOutInv
      <3>5. TypeOK'
        BY <2>4, <3>1, <3>4
      <3>6. ReducedOnce'
        BY <1>1, <1>5, <3>1 DEF ReducedOnce
      <3> QED
        BY <2>1, <2>2, <2>3, <3>4, <3>5, <3>6 DEF IInv, TaskInv
    <2> QED
      BY <2>5, <2>6
  <1>7. CASE task_state' = ts /\ saved' = result' /\ OnRunningError
    <2>1. ResultsAreRight'
      BY <1>4, <1>7 DEF ResultsInv, ResultsAreRight, EmptyBefore
    <2>2. job_state' = "FAILED" /\ DropScheduler
      BY <1>7 DEF OnRunningError
    <2> QED
      BY <1>1, <1>2, <1>4, <1>7, <2>1, <2>2, DropInv
  <1> QED
    BY <1>6, <1>7 DEF SourceStops, ts, tq

-----------------------------------------------------------------------------
(***************************************************************************)
(* The theorems.                                                           *)
(***************************************************************************)
LEMMA InitIInv == Init => IInv
  <1> SUFFICES ASSUME Init PROVE IInv
    OBVIOUS
  <1>1. /\ << >> \in Seq(MessagesToDevice) /\ << >> \in Seq(MessagesFromDevice)
        /\ << >> \in Seq(Services) /\ << >> \in Seq(Tasks) /\ << >> \in Seq([Tasks -> Int])
        /\ 0 \in 0..MaxInitSends /\ 0 \in 0..MaxJobs
    BY SchedulerBounds
  <1>2. TypeOK
    <2>1. compiled \in [Services -> BOOLEAN]
      <3>1. compiled = [s \in Services |-> s \in Prepared]
        BY DEF Init, DevicesInit
      <3>2. \A s : (s \in Prepared) \in BOOLEAN
        OBVIOUS
      <3> QED
        BY <3>1, <3>2
    <2>2. DevicesTypeOK
      BY <1>1, <2>1 DEF Init, DevicesInit, DevicesTypeOK
    <2>3. /\ creator \in [Services -> {"none", "idle", "creating", "has_device"}]
          /\ device_list \in Seq(Services)
          /\ device_state \in [Services -> {"IDLE", "READY", "INITIALIZING", "RUNNING_IDLE",
                                            "RUNNING", "FAILED"}]
          /\ curr_task \in [Services -> Tasks \cup {NoTask}]
          /\ init_sends \in [Services -> 0..MaxInitSends]
      BY <1>1 DEF Init
    <2>4. has_reply \in [Services -> BOOLEAN] /\ hung \in BOOLEAN
      BY DEF Init
    <2>5. /\ task_state \in [Tasks -> {"NONE", "PENDING", "RUNNING", "FINISH", "ERROR"}]
          /\ result \in [Tasks -> Int] /\ saved \in [Tasks -> Int]
      BY DEF Init, NoResult
    <2>6. /\ task_queue \in Seq(Tasks) /\ running_queue \subseteq Tasks
          /\ will_reduce \in Nat /\ reduced \in Seq([Tasks -> Int]) /\ jobs \in 0..MaxJobs
      BY <1>1 DEF Init
    <2> QED
      BY <2>2, <2>3, <2>4, <2>5, <2>6 DEF Init, TypeOK
  <1>3. DeviceInv
    BY EmptyHas DEF Init, DevicesInit, DeviceInv, DeviceOK, OneAtATime, GivenIsBusy
  <1>4. ListedOnce
    BY DEF Init, DevicesInit, ListedOnce
  <1>5. TaskInv
    BY DEF Init, TaskInv, NothingBefore, Distributing, QueuesMatchStates, BusyDevicesDiffer,
           ResultsInv, ResultsAreRight, EmptyBefore, ReducedOnce, SinkGetsEveryResult, NoResult
  <1> QED
    BY <1>2, <1>3, <1>4, <1>5 DEF IInv

LEMMA NextIInv == IInv /\ [Next]_vars => IInv'
  <1> SUFFICES ASSUME IInv, [Next]_vars PROVE IInv'
    OBVIOUS
  <1>1. CASE Start \/ OnCompileError
    BY <1>1, ControllerInv
  <1>2. CASE OnCompileSuccess
    BY <1>2, OnCompileSuccessInv
  <1>3. CASE Stop \/ \E ok \in BOOLEAN : SinkStops(ok)
    BY <1>3, EndInv
  <1>4. CASE \E n \in 0..TaskCount : \E bad \in SUBSET (1..n) : SourceStops(n, bad)
    BY <1>4, SourceStopsInv
  <1>5. CASE ReduceResult
    BY <1>5, ReduceResultInv
  <1>6. ASSUME NEW s \in Services, ProxyStep(s) PROVE IInv'
    <2>1. CASE RequestNewDevice(s) \/ CreateDeviceFails(s)
      BY <2>1, RequestInv
    <2>2. CASE CreateDevice(s)
      BY <2>2, CreateDeviceInv
    <2>3. CASE SendInitJob(s) \/ SendHeartBeat(s)
      BY <2>3, SendInv
    <2>4. CASE LoseDevice(s)
      BY <2>4, LoseDeviceInv
    <2>5. CASE IgnoreMessage(s) \/ HandleHeartBeatReply(s) \/ InitJobFails(s)
      BY <2>5, QuietReplyInv
    <2>6. CASE InitJobSucceeds(s)
      BY <2>6, InitJobSucceedsInv
    <2>7. CASE OnTaskFailed(s)
      BY <2>7, OnTaskFailedInv
    <2>8. CASE OnTaskSucceed(s)
      BY <2>8, OnTaskSucceedInv
    <2> QED
      BY <1>6, <2>1, <2>2, <2>3, <2>4, <2>5, <2>6, <2>7, <2>8 DEF ProxyStep, HandleMessage
  <1>7. ASSUME NEW s \in Services, DeviceStep(s) \/ DeviceDies(s),
               UNCHANGED <<proxyVars, jobVars>>
        PROVE  IInv'
    BY <1>7, DeviceSideInv
  <1>8. CASE UNCHANGED vars
    <2>1. UNCHANGED <<deviceVars, proxyVars, jobVars>>
      BY <1>8 DEF vars
    <2>2. TypeOK'
      BY <2>1 DEF IInv, TypeOK, DevicesTypeOK, deviceVars, proxyVars, jobVars
    <2>3. DeviceInv' /\ ListedOnce'
      BY <2>1 DEF IInv, DeviceInv, ListedOnce, deviceVars, proxyVars
    <2>4. TaskInv'
      BY <2>1, JobUnchanged DEF IInv, TaskInv, NothingBefore, proxyVars
    <2> QED
      BY <2>2, <2>3, <2>4 DEF IInv
  <1> QED
    BY <1>1, <1>2, <1>3, <1>4, <1>5, <1>6, <1>7, <1>8 DEF Next, SchedulerStep

LEMMA SchedulerInv == Spec => []IInv
  BY InitIInv, NextIInv, PTL DEF Spec

\* In a job of dpe_service the queues of dpe_scheduler.cc, the states of the
\* tasks and the tasks each RemoteDPEDevice was given agree, however many
\* services and tasks there are and whatever is lost, late or refused.
THEOREM TasksAccounted == Spec => []TasksAreAccounted
  <1>1. IInv => TasksAreAccounted
    BY DEF IInv, TaskInv, TasksAreAccounted
  <1> QED
    BY <1>1, SchedulerInv, PTL

\* No result is ever taken for the result of another task, also not one that
\* was saved in dpe_state.txt by an earlier run of the job.
THEOREM ResultsRight == Spec => []ResultsAreRight
  <1>1. IInv => ResultsAreRight
    BY DEF IInv, TaskInv, ResultsInv
  <1> QED
    BY <1>1, SchedulerInv, PTL

\* ReduceResult writes the results once, and only when every task the source
\* printed has its result; the lines that were no tasks are written empty.
THEOREM SinkGetsAll == Spec => []SinkGetsEveryResult
  <1>1. IInv => SinkGetsEveryResult
    BY DEF IInv, TaskInv
  <1> QED
    BY <1>1, SchedulerInv, PTL

\* A device of dpe_device_impl.cc is never told to do a task while it compiles,
\* computes or has failed.
THEOREM DeviceIsIdle == Spec => []DoTaskFindsIdleDevice
  <1>1. ASSUME IInv, NEW s \in Services, Arrives(s, "DoTask")
        PROVE  device[s] = "RUNNING_IDLE"
    <2>1. /\ to_device[s] \in Seq(MessagesToDevice) /\ to_device[s] # <<>>
          /\ Head(to_device[s]).message = "DoTask"
          /\ device[s] \notin {"none", "CLOSED"}
      BY <1>1 DEF IInv, TypeOK, DevicesTypeOK, Arrives, Open
    <2>2. Head(to_device[s]) \in DoTasks
      BY <2>1, TailFacts, ToDeviceKinds
    <2>3. Has(to_device[s], DoTasks)
      BY <2>1, <2>2, TailHas
    <2> QED
      BY <1>1, <2>1, <2>3 DEF IInv, DeviceInv, DeviceOK, OneAtATime
  <1>2. IInv => DoTaskFindsIdleDevice
    BY <1>1 DEF DoTaskFindsIdleDevice
  <1> QED
    BY <1>2, SchedulerInv, PTL
=============================================================================
