---------------------------- MODULE DpeScheduler ----------------------------
(***************************************************************************)
(* A job of dpe_service: the controller that compiles and runs it          *)
(* (dpe_model/dpe_controller.cc) and the scheduler that gets devices from  *)
(* the services, hands them the tasks the source program printed, and      *)
(* passes the results to the sink program (dpe_model/dpe_scheduler.cc).    *)
(*                                                                         *)
(* The scheduler keeps a RemoteDPEDevice for the device of each service:   *)
(* it repeats InitJob until it is answered, and gives the device up when a *)
(* heart beat is not answered within a minute.  All of it runs on one UI   *)
(* thread.  A scheduler is dropped when its job ends or is stopped.        *)
(***************************************************************************)
EXTENDS RemoteDevices, Selection

CONSTANTS
    WideIds,        \* the tasks whose 64 bit ids do not fit into 32 bits
    MaxInitSends,   \* bound: how often InitJob is sent (21 times in the code)
    MaxJobs         \* bound: how often the job is started

ASSUME IdsAssumption == WideIds \subseteq Tasks
ASSUME SchedulerBounds == MaxInitSends \in Nat \ {0} /\ MaxJobs \in Nat

VARIABLES
    job_state,      \* of the controller
    creator,        \* creating_ and device_list_ of each RemoteDPEDeviceCreator
    device_list,    \* of the manager, in order of creation
    device_state, curr_task, init_sends, has_reply,     \* of a RemoteDPEDevice
    source, sink,   \* the two processes of the job
    task_state, result,         \* DPEProjectState
    task_queue, running_queue,
    will_reduce,    \* how many ReduceResult are posted
    reduced,        \* what was written to the sink, once for each time
    saved,          \* the results in dpe_state.txt
    hung,           \* the UI thread is in a loop that does not end
    jobs            \* how often the job was started

proxyVars == <<creator, device_list, device_state, curr_task, init_sends, has_reply>>
jobVars == <<job_state, source, sink, task_state, result, task_queue, running_queue,
             will_reduce, reduced, saved, hung, jobs>>
vars == <<deviceVars, proxyVars, jobVars>>

NoResult == 0

Init ==
    /\ DevicesInit
    /\ job_state = "PREPARE"
    /\ creator = [s \in Services |-> "none"]
    /\ device_list = <<>>
    /\ device_state = [s \in Services |-> "IDLE"]
    /\ curr_task = [s \in Services |-> NoTask]
    /\ init_sends = [s \in Services |-> 0]
    /\ has_reply = [s \in Services |-> TRUE]
    /\ source = "none" /\ sink = "none"
    /\ task_state = [t \in Tasks |-> "NONE"]
    /\ result = [t \in Tasks |-> NoResult]
    /\ task_queue = <<>>
    /\ running_queue = {}
    /\ will_reduce = 0
    /\ reduced = <<>>
    /\ saved = [t \in Tasks |-> NoResult]
    /\ hung = FALSE
    /\ jobs = 0

(***************************************************************************)
(* The controller.                                                         *)
(***************************************************************************)
\* Start: the project file is read, which may fail, and its programs are
\* compiled, unless the compiler does not start.
Start ==
    /\ ~hung
    /\ job_state \in {"PREPARE", "FINISH", "FAILED"}
    /\ jobs < MaxJobs
    /\ jobs' = jobs + 1
    /\ \/ job_state' = "COMPILING"
       \/ Faults /\ job_state' \in {"PREPARE", "FAILED"}
    /\ UNCHANGED <<deviceVars, proxyVars, source, sink, task_state, result, task_queue,
                   running_queue, will_reduce, reduced, saved, hung>>

\* The source, worker or sink program does not compile, or its compiler does
\* not start.
OnCompileError ==
    /\ ~hung
    /\ Faults
    /\ job_state = "COMPILING"
    /\ job_state' = "FAILED"
    /\ UNCHANGED <<deviceVars, proxyVars, source, sink, task_state, result, task_queue,
                   running_queue, will_reduce, reduced, saved, hung, jobs>>

\* Run of the scheduler: a new project state, the source process, and a creator
\* for each service.
Run ==
    /\ job_state' = "RUNNING"
    /\ creator' = [s \in Services |-> "idle"]
    /\ source' = "running"
    /\ task_state' = [t \in Tasks |-> "NONE"]
    /\ result' = [t \in Tasks |-> NoResult]
    /\ reduced' = <<>>

\* All three programs are compiled; the source process may not start.
OnCompileSuccess ==
    /\ ~hung
    /\ job_state = "COMPILING"
    /\ \/ Run
       \/ /\ Faults
          /\ job_state' = "FAILED"
          /\ UNCHANGED <<creator, source, task_state, result, reduced>>
    /\ UNCHANGED <<deviceVars, device_list, device_state, curr_task, init_sends,
                   has_reply, sink, task_queue, running_queue, will_reduce, saved,
                   hung, jobs>>

\* The scheduler goes, with its queues, its processes and its devices: the
\* destructor of a RemoteDPEDevice sends CloseDevice.
DropScheduler ==
    /\ creator' = [s \in Services |-> "none"]
    /\ device_list' = <<>>
    /\ device_state' = [s \in Services |-> "IDLE"]
    /\ curr_task' = [s \in Services |-> NoTask]
    /\ init_sends' = [s \in Services |-> 0]
    /\ has_reply' = [s \in Services |-> TRUE]
    /\ source' = "none" /\ sink' = "none"
    /\ task_queue' = <<>>
    /\ running_queue' = {}
    /\ will_reduce' = 0
    /\ connected' = [s \in Services |-> FALSE]
    /\ from_device' = [s \in Services |-> <<>>]
    /\ \E lost \in SUBSET Services :
         /\ Loss \/ lost = {}
         /\ to_device' = [s \in Services |->
                            IF connected[s] /\ Open(s) /\ s \notin lost
                            THEN Append(to_device[s], Message("CloseDevice"))
                            ELSE to_device[s]]
    /\ UNCHANGED <<device, task_id, compiled>>

\* Stop, when the user asks for it.
Stop ==
    /\ ~hung
    /\ Faults
    /\ job_state # "PREPARE"
    /\ job_state' = "PREPARE"
    /\ DropScheduler
    /\ UNCHANGED <<task_state, result, reduced, saved, hung, jobs>>

\* SaveProject: what dpe_state.txt holds afterwards.
Finished(states, results) ==
    [t \in Tasks |-> IF states[t] = "FINISH" THEN results[t] ELSE NoResult]

\* OnRunningError
OnRunningError ==
    /\ job_state' = "FAILED"
    /\ DropScheduler

(***************************************************************************)
(* Getting devices.                                                        *)
(***************************************************************************)
Running == ~hung /\ job_state = "RUNNING"

\* RefreshDeviceState asks each service that has not given a device yet.
RequestNewDevice(s) ==
    /\ Running
    /\ creator[s] = "idle"
    /\ creator' = [creator EXCEPT ![s] = "creating"]
    /\ UNCHANGED <<deviceVars, device_list, device_state, curr_task, init_sends,
                   has_reply, jobVars>>

\* The request fails, times out, or its device cannot be connected to.
CreateDeviceFails(s) ==
    /\ Running
    /\ Faults
    /\ creator[s] = "creating"
    /\ creator' = [creator EXCEPT ![s] = "idle"]
    /\ UNCHANGED <<deviceVars, device_list, device_state, curr_task, init_sends,
                   has_reply, jobVars>>

\* InitJob, which fails when the worker's source is not readable.
InitJob(s) ==
    \/ /\ device_state' = [device_state EXCEPT ![s] = "INITIALIZING"]
       /\ init_sends' = [init_sends EXCEPT ![s] = MaxInitSends]
    \/ /\ Faults
       /\ device_state' = [device_state EXCEPT ![s] = "READY"]
       /\ UNCHANGED init_sends

\* The service opens a device; the scheduler starts a RemoteDPEDevice for it,
\* which subscribes to the device, and calls InitJob.
CreateDevice(s) ==
    /\ Running
    /\ creator[s] = "creating"
    /\ creator' = [creator EXCEPT ![s] = "has_device"]
    /\ OpenDevice(s)
    /\ connected' = [connected EXCEPT ![s] = TRUE]
    /\ from_device' = [from_device EXCEPT ![s] = <<>>]
    /\ has_reply' = [has_reply EXCEPT ![s] = TRUE]
    /\ device_list' = Append(device_list, s)
    /\ InitJob(s)
    /\ UNCHANGED <<compiled, curr_task, jobVars>>

\* SendMessage of the scheduler.
Send(s, m) ==
    \E c \in Published(to_device[s], m) :
        to_device' = IF Open(s) THEN [to_device EXCEPT ![s] = c] ELSE to_device

\* An InitJob or its answer is under way.
InitJobUnderWay(s) ==
    \/ \E i \in DOMAIN to_device[s] : to_device[s][i].message = "InitJob"
    \/ \E i \in DOMAIN from_device[s] : from_device[s][i].message = "InitJob"

\* TrySendInitJobMessage: at once, then after every 100 ms, later 10 seconds.
SendInitJob(s) ==
    /\ Running
    /\ device_state[s] = "INITIALIZING"
    /\ init_sends[s] > 0
    /\ Slow \/ ~InitJobUnderWay(s)
    /\ init_sends' = [init_sends EXCEPT ![s] = @ - 1]
    /\ Send(s, Message("InitJob"))
    /\ UNCHANGED <<device, task_id, compiled, connected, from_device, creator,
                   device_list, device_state, curr_task, has_reply, jobVars>>

\* CheckHeartBeat when the last heart beat is answered: the next one.
SendHeartBeat(s) ==
    /\ Running
    /\ connected[s]
    /\ has_reply[s]
    /\ has_reply' = [has_reply EXCEPT ![s] = FALSE]
    /\ Send(s, Message("HeartBeat"))
    /\ UNCHANGED <<device, task_id, compiled, connected, from_device, creator,
                   device_list, device_state, curr_task, init_sends, jobVars>>

(***************************************************************************)
(* Handing out tasks.                                                      *)
(***************************************************************************)
\* OnDeviceAvailable: the tasks of queue tq go, from its front, to the idle
\* devices in the order of device_list, as far as both reach.
Idle(states) == Select(device_list, {s \in Services : states[s] = "RUNNING_IDLE"})

HandOut(states, tq) ==
    LET idle == Idle(states)
        n == IF Len(idle) < Len(tq) THEN Len(idle) ELSE Len(tq)
    IN  {<<idle[i], tq[i]>> : i \in 1..n}

\* Mutation: the tasks stay in the queue.
LeftOverAll(tq, n) == tq

\* task_queue_ after n pops.
LeftOver(tq, n) == SubSeq(tq, n + 1, Len(tq))

OnDeviceAvailable(states, ts, tq, rq) ==
    LET out == HandOut(states, tq)
        busy == {p[1] : p \in out}
        taken == {p[2] : p \in out}
        TaskOf(s) == (CHOOSE p \in out : p[1] = s)[2]
    IN  /\ device_state' = [s \in Services |-> IF s \in busy THEN "RUNNING"
                                                             ELSE states[s]]
        /\ curr_task' = [s \in Services |-> IF s \in busy THEN TaskOf(s)
                                                          ELSE curr_task[s]]
        /\ task_state' = [t \in Tasks |-> IF t \in taken THEN "RUNNING" ELSE ts[t]]
        /\ running_queue' = rq \cup taken
        /\ task_queue' = LeftOver(tq, Cardinality(out))
        /\ \E lost \in SUBSET busy :
             /\ Loss \/ lost = {}
             /\ to_device' = [s \in Services |->
                                IF s \in busy \ lost /\ Open(s)
                                THEN Append(to_device[s], DoTaskMessage(TaskOf(s)))
                                ELSE to_device[s]]

\* AddInputData: the tasks of the job are the lines the source printed, the first
\* n; a line without a colon (those in bad) is a task that is never run.
AddInputData(n, bad) ==
    [t \in Tasks |-> IF t > n THEN "NONE" ELSE IF t \in bad THEN "ERROR" ELSE "PENDING"]

\* LoadSavedState: tasks with a saved result need not be done again.
LoadSavedState(ts) ==
    [t \in Tasks |-> IF ts[t] = "PENDING" /\ saved[t] # NoResult THEN "FINISH" ELSE ts[t]]

\* Mutation: the last line is forgotten.
PendingQueueShort(ts) ==
    Select([i \in 1..(TaskCount - 1) |-> i], {t \in Tasks : ts[t] = "PENDING"})

\* MakeTaskQueue
PendingQueue(ts) ==
    Select([i \in 1..TaskCount |-> i], {t \in Tasks : ts[t] = "PENDING"})

\* OnStop of the source process, whose exit code is not looked at, so that it may
\* have printed only some of the tasks, or broken lines.  The sink is started, and
\* the tasks go to the devices there are.
SourceStops(n, bad) ==
    LET ts == LoadSavedState(AddInputData(n, bad)) IN
    /\ Running
    /\ source = "running"
    /\ (n = TaskCount /\ bad = {}) \/ Faults
    /\ result' = Finished(ts, saved)
    /\ \/ /\ source' = "stopped"
          /\ sink' = "running"
          /\ IF PendingQueue(ts) = <<>>
             THEN /\ task_state' = ts
                  /\ will_reduce' = will_reduce + 1
                  /\ UNCHANGED <<device_state, curr_task, running_queue, task_queue,
                                 to_device>>
             ELSE /\ OnDeviceAvailable(device_state, ts, PendingQueue(ts), {})
                  /\ UNCHANGED will_reduce
          /\ UNCHANGED <<device, task_id, compiled, connected, from_device, creator,
                         device_list, init_sends, has_reply, job_state, saved>>
       \/ \* The sink does not start.
          /\ Faults
          /\ task_state' = ts
          /\ saved' = result'
          /\ OnRunningError
    /\ UNCHANGED <<reduced, hung, jobs>>

(***************************************************************************)
(* Messages of the devices: RemoteDPEDevice::handle_message.               *)
(***************************************************************************)
\* The next message of the device of s is of this kind.
ReplyArrives(s, kind) ==
    /\ Running
    /\ connected[s]
    /\ from_device[s] # <<>>
    /\ Head(from_device[s]).message = kind

ConsumeReply(s) == from_device' = [from_device EXCEPT ![s] = Tail(@)]

Listens(s) == device_state[s] # "FAILED"

\* A failed RemoteDPEDevice does not look at its messages.
IgnoreMessage(s) ==
    /\ \E kind \in {"InitJob", "DoTask", "HeartBeat"} : ReplyArrives(s, kind)
    /\ ~Listens(s)
    /\ ConsumeReply(s)
    /\ UNCHANGED <<device, task_id, compiled, connected, to_device, proxyVars, jobVars>>

HandleHeartBeatReply(s) ==
    /\ ReplyArrives(s, "HeartBeat")
    /\ Listens(s)
    /\ has_reply' = [has_reply EXCEPT ![s] = TRUE]
    /\ ConsumeReply(s)
    /\ UNCHANGED <<device, task_id, compiled, connected, to_device, creator, device_list,
                   device_state, curr_task, init_sends, jobVars>>

InitJobFails(s) ==
    /\ ReplyArrives(s, "InitJob")
    /\ Listens(s)
    /\ Head(from_device[s]).error_code # 0
    /\ device_state' = [device_state EXCEPT ![s] = "FAILED"]
    /\ ConsumeReply(s)
    /\ UNCHANGED <<device, task_id, compiled, connected, to_device, creator, device_list,
                   curr_task, init_sends, has_reply, jobVars>>

InitJobSucceeds(s) ==
    /\ ReplyArrives(s, "InitJob")
    /\ Listens(s)
    /\ Head(from_device[s]).error_code = 0
    /\ OnDeviceAvailable([device_state EXCEPT ![s] = "RUNNING_IDLE"], task_state,
                         task_queue, running_queue)
    /\ init_sends' = [init_sends EXCEPT ![s] = 0]
    /\ ConsumeReply(s)
    /\ UNCHANGED <<device, task_id, compiled, connected, creator, device_list, has_reply,
                   job_state, source, sink, result, will_reduce, reduced, saved, hung,
                   jobs>>

\* The tasks that GetTask and running_queue_ know by atoi(curr_task_id_), for a
\* device that was given t: t itself, or none, as atoi cuts its id short.
Found(t) == {t} \ WideIds

\* The answer is a result of the task the device was given.
IsResult(s) ==
    /\ Head(from_device[s]).error_code = 0
    /\ Head(from_device[s]).task_id = curr_task[s]

\* OnTaskFailed: one task that fails is the end of the job.
OnTaskFailed(s) ==
    /\ ReplyArrives(s, "DoTask")
    /\ Listens(s)
    /\ ~IsResult(s)
    /\ task_state' = [t \in Tasks |-> IF t \in Found(curr_task[s]) THEN "ERROR"
                                                                  ELSE task_state[t]]
    /\ saved' = Finished(task_state', result)
    /\ OnRunningError
    /\ UNCHANGED <<result, reduced, hung, jobs>>

\* Mutation: the task stays in the running queue.
DoneWithForgotten(t) == running_queue

\* running_queue_.erase(id)
DoneWith(t) == running_queue \ Found(t)

\* OnTaskSucceed: the result is kept; the device gets the next task, or the
\* results go to the sink.
OnTaskSucceed(s) ==
    /\ ReplyArrives(s, "DoTask")
    /\ Listens(s)
    /\ IsResult(s)
    /\ result' = [t \in Tasks |-> IF t \in Found(curr_task[s])
                                  THEN Head(from_device[s]).task_output ELSE result[t]]
    /\ LET ts == [t \in Tasks |-> IF t \in Found(curr_task[s]) THEN "FINISH"
                                                               ELSE task_state[t]]
           ds == [device_state EXCEPT ![s] = "RUNNING_IDLE"]
           rq == DoneWith(curr_task[s])
       IN  IF task_queue = <<>> /\ rq = {}
           THEN /\ task_state' = ts
                /\ device_state' = ds
                /\ running_queue' = rq
                /\ will_reduce' = will_reduce + 1
                /\ UNCHANGED <<curr_task, task_queue, to_device>>
           ELSE /\ OnDeviceAvailable(ds, ts, task_queue, rq)
                /\ UNCHANGED will_reduce
    /\ ConsumeReply(s)
    /\ UNCHANGED <<device, task_id, compiled, connected, creator, device_list, init_sends,
                   has_reply, job_state, source, sink, reduced, saved, hung, jobs>>

(***************************************************************************)
(* Losing a device.                                                        *)
(***************************************************************************)
\* OnDeviceLose: the task that goes to the end of the queue, if there is one.
\* (A task that is not found is pushed with an id that OnDeviceAvailable does not
\* find either, and pops; as that task stays in the running queue, it makes no
\* difference how long the entry is there, and the model leaves it out.)
PutBack(s) ==
    IF device_state[s] = "RUNNING" /\ curr_task[s] \in Found(curr_task[s])
    THEN <<curr_task[s]>> ELSE <<>>

\* Stop of a RemoteDPEDevice: it closes the device and unsubscribes.
StopDevice(s) ==
    /\ Send(s, Message("CloseDevice"))
    /\ connected' = [connected EXCEPT ![s] = FALSE]
    /\ from_device' = [from_device EXCEPT ![s] = <<>>]
    /\ device_state' = [device_state EXCEPT ![s] = "IDLE"]
    /\ init_sends' = [init_sends EXCEPT ![s] = 0]

\* The loop over device_list that removes s does not advance: it never gets
\* past a device that is not s.
RemoveFromList(s) ==
    IF Head(device_list) = s
    THEN device_list' = Tail(device_list) /\ UNCHANGED hung
    ELSE hung' = TRUE /\ UNCHANGED device_list

\* The heart beat is not answered for more than 60 seconds: it was lost, its
\* device is gone, the answer is not looked at, or everything is slow.  The
\* task goes to the end of the queue, and the device is closed and removed.
LoseDevice(s) ==
    /\ Running
    /\ connected[s]
    /\ ~has_reply[s]
    /\ \/ Slow
       \/ ~HeartBeatUnderWay(to_device[s]) /\ ~HeartBeatUnderWay(from_device[s])
    /\ task_state' = [t \in Tasks |-> IF PutBack(s) = <<t>> THEN "PENDING" ELSE task_state[t]]
    /\ running_queue' = {t \in running_queue : PutBack(s) # <<t>>}
    /\ task_queue' = task_queue \o PutBack(s)
    /\ StopDevice(s)
    /\ RemoveFromList(s)
    /\ UNCHANGED <<device, task_id, compiled, creator, curr_task, has_reply, job_state,
                   source, sink, result, will_reduce, reduced, saved, jobs>>

(***************************************************************************)
(* The end of the job.                                                     *)
(***************************************************************************)
NothingLeft == task_queue = <<>> /\ running_queue = {}

\* ReduceResult: all results are written to the sink.
ReduceResult ==
    /\ Running
    /\ will_reduce > 0
    /\ will_reduce' = will_reduce - 1
    /\ reduced' = IF NothingLeft THEN Append(reduced, result) ELSE reduced
    /\ UNCHANGED <<deviceVars, proxyVars, job_state, source, sink, task_state, result,
                   task_queue, running_queue, saved, hung, jobs>>

\* OnStop of the sink process: it has read all results and ends; or, when it is
\* at fault, it fails, or ends well before it was given them.
SinkStops(ok) ==
    /\ Running
    /\ sink = "running"
    /\ (ok /\ reduced # <<>>) \/ Faults
    /\ saved' = IF ok THEN Finished(task_state, result) ELSE saved
    /\ job_state' = IF ok THEN "FINISH" ELSE "FAILED"
    /\ DropScheduler
    /\ UNCHANGED <<task_state, result, reduced, hung, jobs>>

HandleMessage(s) ==
    \/ IgnoreMessage(s) \/ HandleHeartBeatReply(s)
    \/ InitJobFails(s) \/ InitJobSucceeds(s)
    \/ OnTaskFailed(s) \/ OnTaskSucceed(s)

ProxyStep(s) ==
    \/ RequestNewDevice(s) \/ CreateDevice(s) \/ CreateDeviceFails(s)
    \/ SendInitJob(s) \/ SendHeartBeat(s) \/ LoseDevice(s)
    \/ HandleMessage(s)

SchedulerStep ==
    \/ OnCompileError \/ OnCompileSuccess
    \/ (\E n \in 0..TaskCount : \E bad \in SUBSET (1..n) : SourceStops(n, bad))
    \/ ReduceResult \/ \E ok \in BOOLEAN : SinkStops(ok)

Next ==
    \/ Start \/ Stop
    \/ SchedulerStep
    \/ \E s \in Services : ProxyStep(s)
    \/ /\ \E s \in Services : DeviceStep(s) \/ DeviceDies(s)
       /\ UNCHANGED <<proxyVars, jobVars>>

Spec == Init /\ [][Next]_vars

(***************************************************************************)
(* Fairness: both UI threads handle what arrives, every timer that is set  *)
(* fires, and the processes that were started end, the sink when it was    *)
(* given the results.                                                      *)
(***************************************************************************)
FairSpec ==
    /\ Spec
    /\ WF_vars(OnCompileError \/ OnCompileSuccess)
    /\ WF_vars(\E n \in 0..TaskCount : \E bad \in SUBSET (1..n) : SourceStops(n, bad))
    /\ WF_vars(ReduceResult)
    /\ WF_vars(reduced # <<>> /\ \E ok \in BOOLEAN : SinkStops(ok))
    /\ \A s \in Services :
         /\ WF_vars(RequestNewDevice(s) \/ CreateDevice(s) \/ CreateDeviceFails(s))
         /\ WF_vars(SendInitJob(s))
         /\ WF_vars(SendHeartBeat(s))
         /\ WF_vars(LoseDevice(s))
         /\ WF_vars(HandleMessage(s))
         /\ WF_vars(HandleMessageOfDevice(s) /\ UNCHANGED <<proxyVars, jobVars>>)
         /\ WF_vars(ProcessEnds(s) /\ UNCHANGED <<proxyVars, jobVars>>)
         /\ WF_vars(CheckHeartBeatOfDevice(s) /\ UNCHANGED <<proxyVars, jobVars>>)

-----------------------------------------------------------------------------
\* The variables stay in their types.
TypeOK ==
    /\ DevicesTypeOK
    /\ job_state \in {"PREPARE", "COMPILING", "RUNNING", "FINISH", "FAILED"}
    /\ creator \in [Services -> {"none", "idle", "creating", "has_device"}]
    /\ device_list \in Seq(Services)
    /\ device_state \in [Services -> {"IDLE", "READY", "INITIALIZING", "RUNNING_IDLE",
                                      "RUNNING", "FAILED"}]
    /\ curr_task \in [Services -> Tasks \cup {NoTask}]
    /\ init_sends \in [Services -> 0..MaxInitSends]
    /\ has_reply \in [Services -> BOOLEAN]
    /\ source \in {"none", "running", "stopped"} /\ sink \in {"none", "running"}
    /\ task_state \in [Tasks -> {"NONE", "PENDING", "RUNNING", "FINISH", "ERROR"}]
    /\ result \in [Tasks -> Int]
    /\ task_queue \in Seq(Tasks)
    /\ running_queue \subseteq Tasks
    /\ will_reduce \in Nat
    /\ reduced \in Seq([Tasks -> Int])
    /\ saved \in [Tasks -> Int]
    /\ hung \in BOOLEAN
    /\ jobs \in 0..MaxJobs

\* While a job runs, the state of a task says where it is: PENDING tasks are in
\* the queue, once, RUNNING ones in the running queue, and nothing else is in
\* either, whatever devices were lost, failed or answered late.
QueuesMatchStates ==
    job_state = "RUNNING" /\ source = "stopped" =>
        \A t \in Tasks :
            /\ task_state[t] = "PENDING" <=> \E i \in DOMAIN task_queue : task_queue[i] = t
            /\ \A i, j \in DOMAIN task_queue :
                  task_queue[i] = t /\ task_queue[j] = t => i = j
            /\ task_state[t] = "RUNNING" <=> t \in running_queue

\* A device that the scheduler takes for busy was given a task of the running
\* queue, and no two were given the same one: when a device is lost and its task
\* is given to another, the first one is no longer taken for busy.
BusyDevicesDiffer ==
    \A s \in Services : device_state[s] = "RUNNING" =>
        /\ curr_task[s] \in running_queue
        /\ \A r \in Services :
              device_state[r] = "RUNNING" /\ curr_task[r] = curr_task[s] => r = s

\* The queues, the states of the tasks and what each RemoteDPEDevice was given
\* agree: a task is in one place and with one device.
TasksAreAccounted == TypeOK /\ QueuesMatchStates /\ BusyDevicesDiffer

\* Every result that is kept, saved or loaded is the output of the worker for
\* that very task: an answer is never taken for the answer to another task.
ResultsAreRight ==
    /\ \A t \in Tasks : task_state[t] = "FINISH" => result[t] = Output[t]
    /\ \A t \in Tasks : saved[t] \in {NoResult, Output[t]}

\* The sink is given the results once, a line for each line that the source
\* printed: the output of the worker for every task, and an empty line for
\* every line that was no task.
SinkGetsEveryResult ==
    /\ Len(reduced) <= 1
    /\ reduced # <<>> /\ job_state = "RUNNING" =>
          \A t \in Tasks :
             /\ task_state[t] \in {"NONE", "FINISH", "ERROR"}
             /\ reduced[1][t] = IF task_state[t] = "FINISH" THEN Output[t] ELSE NoResult

\* A DoTask always finds its device idle, so that no task (and with it the job)
\* fails because a device is busy or not initialized.
DoTaskFindsIdleDevice ==
    \A s \in Services : Arrives(s, "DoTask") => device[s] = "RUNNING_IDLE"

\* The device of s was given t, and the DoTask, the worker process or the answer
\* is under way.
WorksOn(s, t) ==
    /\ device_state[s] = "RUNNING" /\ curr_task[s] = t
    /\ \/ Open(s) /\ \E i \in DOMAIN to_device[s] : to_device[s][i] = DoTaskMessage(t)
       \/ device[s] = "RUNNING" /\ task_id[s] = t
       \/ \E i \in DOMAIN from_device[s] : from_device[s][i].message = "DoTask"

\* The device of s has a task or may still get one.
CanWork(s) ==
    \/ device_state[s] \in {"RUNNING_IDLE", "RUNNING"}
    \/ /\ device_state[s] = "INITIALIZING"
       /\ init_sends[s] > 0 \/ InitJobUnderWay(s) \/ device[s] = "INITIALIZING"

\* What the code never gets out of by itself: the UI thread hangs; a running task
\* whose DoTask or answer was lost, whose device was failed, or whose id is too
\* wide; tasks and no device for them, as a lost one is not replaced; or tasks
\* that were put back and idle devices, which nobody hands them out to.
Waits ==
    \/ hung
    \/ \E t \in Tasks : task_state[t] = "RUNNING" /\ \A s \in Services : ~WorksOn(s, t)
    \/ task_queue # <<>> /\ \A s \in Services : ~CanWork(s)
    \/ task_queue # <<>> /\ Idle(device_state) # <<>>

\* A job that never ends is one that waits for ever for something of that kind:
\* no other order of lost messages, lost devices, repetitions, failures and
\* timers keeps it from its end.
JobEndsUnlessItWaits == <>[](job_state = "RUNNING") => <>[]Waits

\* A device does not outlive its job: it is closed although CloseDevice may be
\* lost and may find it compiling or computing.  (The model forgets it when the
\* next job has a new device of the same service.)
DevicesClose == \A s \in Services : ~connected[s] ~> (~Open(s) \/ connected[s])
=============================================================================
