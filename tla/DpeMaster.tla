----------------------------- MODULE DpeMaster -----------------------------
(***************************************************************************)
(* The master node of a dpe job (src/dpe/dpe_master_node.cc): it hands the *)
(* tasks of a Solver to the workers that ask for them, collects their      *)
(* results, passes every result on to the Solver, keeps a state file on    *)
(* disk and leaves the program when the last task is done.                 *)
(*                                                                         *)
(* Two threads of the master process matter.  The ZMQ poll thread receives *)
(* a request into the only ServerContext and posts ProcessRequest to the   *)
(* UI thread; everything else (Start, the request handler, ExitDpeImpl)    *)
(* runs on the UI thread in the order in which it was posted.  The process *)
(* may die at any moment and be started again by its user.                 *)
(*                                                                         *)
(* The workers are left open here: a client asks for tasks whenever it     *)
(* likes, and reports any tasks it was ever handed, as late and as often   *)
(* as it likes.  DpeSystem closes the model with the worker's own code.    *)
(***************************************************************************)
EXTENDS Integers, Sequences, FiniteSets

CONSTANTS
    TaskQueue,      \* task_queue_: the ids GenerateTasks returns, in its order
    Clients,        \* request loops that may send a request
    WorkerId,       \* WorkerId[c]: my_ip of the process client c belongs to
    Answer,         \* Answer[t]: what Solver::Compute returns for task t
    MaxTaskCount,   \* bound: the largest max_task_count a client asks for
    MaxStarts,      \* bound: how often the master process is started
    DiskFaults      \* TRUE: a save may fail or be cut short

Tasks == {TaskQueue[i] : i \in DOMAIN TaskQueue}
WorkerIds == {WorkerId[c] : c \in Clients}

ASSUME TaskQueueAssumption ==
    /\ TaskQueue \in Seq(Int)
    /\ \A i, j \in DOMAIN TaskQueue : TaskQueue[i] = TaskQueue[j] => i = j
ASSUME ClientsAssumption == WorkerId \in [Clients -> Int]
ASSUME AnswerAssumption == Answer \in [Tasks -> Int]
ASSUME BoundsAssumption ==
    MaxTaskCount \in Nat /\ MaxStarts \in Nat /\ DiskFaults \in BOOLEAN

VARIABLES
    phase,          \* where the master process is
    ui_queue,       \* closures posted to the UI thread, in posting order
    context,        \* the ServerContext: the request being processed, or none
    task_pending_queue, task_running_queue,
    status, result,               \* task_map_
    worker_ids, running_task, finished_task,    \* worker_map_
    last_save_time, \* FALSE stands for 0, "no save since the process started"
    file,           \* state.txtproto
    told,           \* the values SetResult passed to the Solver for each task
    finishes,       \* calls of Solver::Finish by this process
    handed,         \* history: which client was ever handed which task
    starts          \* how often the process was started

memory == <<task_pending_queue, task_running_queue, status, result, worker_ids,
            running_task, finished_task, last_save_time, told, finishes>>
vars == <<phase, ui_queue, context, memory, file, handed, starts>>

(***************************************************************************)
(* Requests of the workers and the state file.                             *)
(***************************************************************************)
NoRequest == [kind |-> "none"]

GetTaskRequests ==
    [kind : {"get_task"}, client : Clients, max_task_count : 1..MaxTaskCount]

FinishComputeRequest(c, S) ==
    [kind |-> "finish_compute", client |-> c,
     task_item |-> [t \in S |-> Answer[t]]]

\* A client reports what it computed: tasks some master process handed to it.
FinishComputeRequests ==
    UNION {{FinishComputeRequest(c, S) :
              S \in (SUBSET {t \in Tasks : <<c, t>> \in handed}) \ {{}}} :
           c \in Clients}

\* A saved MasterState: the task items and the workers' finished tasks (the
\* running tasks of a worker are saved too, and dropped when they are read).
SavedState(items, workers) ==
    [kind |-> "state", task_item |-> items, worker_status |-> workers]

NoFile == [kind |-> "absent"]
Unparsable == [kind |-> "unparsable"]

\* What is left of state.txtproto when writing it stops half way: WriteFile
\* truncates the old file first; task items come first, by ascending id, then
\* the workers; text that ends inside an item does not parse.
CutShort(state) ==
    {Unparsable}
    \cup {SavedState([t \in {u \in Tasks : u < k} |-> state.task_item[t]], <<>>) :
            k \in Tasks}
    \cup {SavedState(state.task_item,
                     [w \in {v \in DOMAIN state.worker_status : v < k} |->
                        state.worker_status[w]]) :
            k \in WorkerIds}

(***************************************************************************)
(* The process: construction, Start, exit and crashes.                     *)
(***************************************************************************)
\* The constructor: empty containers, last_save_time_ 0.
FreshMemory ==
    /\ task_pending_queue' = {}
    /\ task_running_queue' = {}
    /\ status' = [t \in Tasks |-> "NONE"]
    /\ result' = [t \in Tasks |-> 0]
    /\ worker_ids' = {}
    /\ running_task' = [w \in WorkerIds |-> {}]
    /\ finished_task' = [w \in WorkerIds |-> {}]
    /\ last_save_time' = FALSE
    /\ told' = [t \in Tasks |-> <<>>]
    /\ finishes' = 0

Init ==
    /\ phase = "down"
    /\ ui_queue = <<>>
    /\ context = NoRequest
    /\ task_pending_queue = {}
    /\ task_running_queue = {}
    /\ status = [t \in Tasks |-> "NONE"]
    /\ result = [t \in Tasks |-> 0]
    /\ worker_ids = {}
    /\ running_task = [w \in WorkerIds |-> {}]
    /\ finished_task = [w \in WorkerIds |-> {}]
    /\ last_save_time = FALSE
    /\ told = [t \in Tasks |-> <<>>]
    /\ finishes = 0
    /\ file = NoFile
    /\ handed = {}
    /\ starts = 0

\* The process is started and ZServer::Start binds the server socket: from
\* here on the poll thread receives requests, though Start is not over.
Bind ==
    /\ phase \in {"down", "stopped"}
    /\ starts < MaxStarts
    /\ phase' = "starting"
    /\ starts' = starts + 1
    /\ FreshMemory
    /\ UNCHANGED <<ui_queue, context, file, handed>>

\* Mutation: the exit is never posted.
WillExitDpeForgotten(queue) == queue

\* WillExitDpe: ExitDpeImpl is posted behind everything that is posted already.
WillExitDpe(queue) == Append(queue, "ExitDpe")

\* ZServer::Start fails (the port is taken): Start returns false and run posts
\* ExitDpeImpl, which has nothing to stop.
BindFails ==
    /\ phase \in {"down", "stopped"}
    /\ starts < MaxStarts
    /\ phase' = "stopped"
    /\ starts' = starts + 1
    /\ FreshMemory
    /\ UNCHANGED <<ui_queue, context, file, handed>>

\* Mutation: LoadState takes every cached item, whatever its status.
CachedDoneAnyStatus(read_state) ==
    IF read_state /\ file.kind = "state" THEN DOMAIN file.task_item ELSE {}

\* LoadState: the tasks whose cached status is DONE, when the file parses.
CachedDone(read_state) ==
    IF read_state /\ file.kind = "state"
    THEN {t \in Tasks : /\ t \in DOMAIN file.task_item
                        /\ file.task_item[t].status = "DONE"}
    ELSE {}

CachedWorkers(read_state) ==
    IF read_state /\ file.kind = "state" THEN DOMAIN file.worker_status ELSE {}

\* The rest of DPEMasterNode::Start after the bind: generate the tasks, then
\* LoadState or SkipLoadState.  Only the LoadState branch notices that there
\* is nothing left to do.
StartTasks(read_state) ==
    /\ phase = "starting"
    /\ phase' = "up"
    /\ LET done == CachedDone(read_state) IN
         /\ status' = [t \in Tasks |-> IF t \in done THEN "DONE" ELSE "PENDING"]
         /\ result' = [t \in Tasks |-> IF t \in done THEN file.task_item[t].result
                                                     ELSE 0]
         /\ told' = [t \in Tasks |-> IF t \in done THEN <<file.task_item[t].result>>
                                                   ELSE <<>>]
         /\ task_pending_queue' = Tasks \ done
         /\ IF read_state /\ done = Tasks
            THEN /\ finishes' = 1
                 /\ ui_queue' = WillExitDpe(ui_queue)
            ELSE UNCHANGED <<finishes, ui_queue>>
    /\ worker_ids' = CachedWorkers(read_state)
    /\ finished_task' = [w \in WorkerIds |-> IF w \in CachedWorkers(read_state)
                                             THEN file.worker_status[w]
                                             ELSE {}]
    /\ UNCHANGED <<context, task_running_queue, running_task, last_save_time,
                   file, handed, starts>>

\* ExitDpeImpl: StopServer closes the socket and forgets the context, the main
\* loop quits.
ExitDpe ==
    /\ phase = "up"
    /\ ui_queue # <<>>
    /\ Head(ui_queue) = "ExitDpe"
    /\ phase' = "stopped"
    /\ ui_queue' = <<>>
    /\ context' = NoRequest
    /\ UNCHANGED <<memory, file, handed, starts>>

\* The process dies; only the file survives.
Crash ==
    /\ phase \in {"starting", "up"}
    /\ phase' = "down"
    /\ ui_queue' = <<>>
    /\ context' = NoRequest
    /\ FreshMemory
    /\ UNCHANGED <<file, handed, starts>>

(***************************************************************************)
(* Requests.                                                               *)
(***************************************************************************)
\* The poll thread receives r: the context leaves LISTENING, so nothing more
\* is received until r is answered, and ProcessRequest is posted.
Receive(r) ==
    /\ phase \in {"starting", "up"}
    /\ context = NoRequest
    /\ context' = r
    /\ ui_queue' = Append(ui_queue, "ProcessRequest")
    /\ UNCHANGED <<phase, memory, file, handed, starts>>

\* ProcessRequest for the request in the context is next on the UI thread.
Processing(kind) ==
    /\ phase = "up"
    /\ ui_queue # <<>>
    /\ Head(ui_queue) = "ProcessRequest"
    /\ context.kind = kind

\* GetWorker(req.worker_id()): a worker is known by the ip of its process.
RequestWorker == WorkerId[context.client]

\* The tasks at the front of the pending queue: as many as asked for, or all.
\* The queue is filled in the order of task_queue_ and popped at the front
\* only, so that it is a set of tasks in the order of task_queue_.
Before(t, u) ==
    \E i, j \in DOMAIN TaskQueue : i < j /\ TaskQueue[i] = t /\ TaskQueue[j] = u

IsFront(B, n) ==
    /\ B \subseteq task_pending_queue
    /\ \A t \in B, u \in task_pending_queue \ B : Before(t, u)
    /\ Cardinality(B) = n \/ (B = task_pending_queue /\ Cardinality(B) <= n)

AtLeastOne(n) == IF n > 1 THEN n ELSE 1

\* Mutation: the front of the queue is read and not popped.
WithoutFrontNotPopped(B) == task_pending_queue

\* pop_front, for every task that was handed out.
WithoutFront(B) == task_pending_queue \ B

\* HandleRequest, get_task: B is handed to the client and is the reply.
GetTask(B) ==
    /\ Processing("get_task")
    /\ IsFront(B, AtLeastOne(context.max_task_count))
    /\ worker_ids' = worker_ids \cup {RequestWorker}
    /\ running_task' = [running_task EXCEPT ![RequestWorker] = @ \cup B]
    /\ task_pending_queue' = WithoutFront(B)
    /\ task_running_queue' = task_running_queue \cup B
    /\ status' = [t \in Tasks |-> IF t \in B THEN "RUNNING" ELSE status[t]]
    /\ handed' = handed \cup {<<context.client, t>> : t \in B}
    /\ context' = NoRequest
    /\ ui_queue' = Tail(ui_queue)
    /\ UNCHANGED <<phase, result, finished_task, last_save_time, file, told,
                   finishes, starts>>

\* Mutation: the running queue is not looked at.
AcceptedAlways == DOMAIN context.task_item

\* HandleRequest, finish_compute, for the request in the context: the reported
\* tasks that are in the running queue are accepted, any other is not.
Accepted == DOMAIN context.task_item \cap task_running_queue

\* Mutation: only the pending queue is looked at.
AllDoneWhenHandedOut == task_pending_queue = {}

AllDone == task_pending_queue = {} /\ task_running_queue \subseteq Accepted

StatusAfter == [t \in Tasks |-> IF t \in Accepted THEN "DONE" ELSE status[t]]

\* Mutation: the result is passed to the Solver but not stored.
ResultAfterNotStored == result

ResultAfter ==
    [t \in Tasks |-> IF t \in Accepted THEN context.task_item[t] ELSE result[t]]

\* Of the reporting worker every reported task is moved, whatever its status.
FinishedAfter ==
    [finished_task EXCEPT ![RequestWorker] = @ \cup DOMAIN context.task_item]

\* Mutation: the list is cleared and not filled again.
StillRunningCleared == {}

StillRunning == running_task[RequestWorker] \ DOMAIN context.task_item

WorkersAfter == worker_ids \cup {RequestWorker}

\* SetResult and the maps, up to the save.
TakeResults ==
    /\ task_running_queue' = task_running_queue \ Accepted
    /\ status' = StatusAfter
    /\ result' = ResultAfter
    /\ told' = [t \in Tasks |-> IF t \in Accepted
                                THEN Append(told[t], context.task_item[t])
                                ELSE told[t]]
    /\ worker_ids' = WorkersAfter
    /\ running_task' = [running_task EXCEPT ![RequestWorker] = StillRunning]
    /\ finished_task' = FinishedAfter
    /\ UNCHANGED task_pending_queue

\* The text SaveState prints: the maps as the handler has updated them.
StateText ==
    SavedState([t \in Tasks |-> [status |-> StatusAfter[t],
                                 result |-> ResultAfter[t]]],
               [w \in WorkersAfter |-> FinishedAfter[w]])

\* base::WriteFile, whose result SaveState ignores: without disk faults the
\* file is replaced, otherwise it may stay (it cannot be opened) or be cut.
WriteFile ==
    \/ file' = StateText
    \/ DiskFaults /\ file' \in {file} \cup CutShort(StateText)

\* Mutation: force_save is not looked at.
SaveStateNeverForced(force_save) ==
    \/ last_save_time' = TRUE /\ WriteFile
    \/ last_save_time /\ UNCHANGED <<last_save_time, file>>

\* SaveState(force_save): forced, the first save of this process, or more than
\* three minutes after the last one (the clock is not modelled: at any time).
SaveState(force_save) ==
    \/ last_save_time' = TRUE /\ WriteFile
    \/ ~force_save /\ last_save_time /\ UNCHANGED <<last_save_time, file>>

FinishCompute ==
    /\ Processing("finish_compute")
    /\ TakeResults
    /\ SaveState(AllDone)
    /\ finishes' = IF AllDone THEN finishes + 1 ELSE finishes
    /\ ui_queue' = IF AllDone THEN WillExitDpe(Tail(ui_queue))
                              ELSE Tail(ui_queue)
    /\ context' = NoRequest
    /\ UNCHANGED <<phase, handed, starts>>

\* The process dies inside the WriteFile of a finish_compute.
CrashInSave ==
    /\ Processing("finish_compute")
    /\ file' \in CutShort(StateText)
    /\ phase' = "down"
    /\ ui_queue' = <<>>
    /\ context' = NoRequest
    /\ FreshMemory
    /\ UNCHANGED <<handed, starts>>

Next ==
    \/ Bind
    \/ BindFails
    \/ \E read_state \in BOOLEAN : StartTasks(read_state)
    \/ ExitDpe
    \/ Crash
    \/ \E r \in GetTaskRequests : Receive(r)
    \/ \E r \in FinishComputeRequests : Receive(r)
    \/ \E B \in SUBSET task_pending_queue : GetTask(B)
    \/ FinishCompute
    \/ CrashInSave

Spec == Init /\ [][Next]_vars

-----------------------------------------------------------------------------
RequestOK(r) ==
    \/ r = NoRequest
    \/ r \in GetTaskRequests
    \/ \E S \in SUBSET Tasks :
          r \in [kind : {"finish_compute"}, client : Clients, task_item : [S -> Int]]

FileOK(f) ==
    \/ f \in {NoFile, Unparsable}
    \/ \E S \in SUBSET Tasks, W \in SUBSET WorkerIds :
          f \in [kind : {"state"},
                 task_item : [S -> [status : {"NONE", "PENDING", "RUNNING", "DONE"},
                                    result : Int]],
                 worker_status : [W -> SUBSET Tasks]]

\* The variables stay in their types: the queues hold tasks of the Solver, the
\* context a request a worker sends, the file a state SaveState can have left.
TypeOK ==
    /\ phase \in {"down", "starting", "up", "stopped"}
    /\ ui_queue \in Seq({"ProcessRequest", "ExitDpe"})
    /\ RequestOK(context)
    /\ task_pending_queue \subseteq Tasks
    /\ task_running_queue \subseteq Tasks
    /\ status \in [Tasks -> {"NONE", "PENDING", "RUNNING", "DONE"}]
    /\ result \in [Tasks -> Int]
    /\ worker_ids \subseteq WorkerIds
    /\ running_task \in [WorkerIds -> SUBSET Tasks]
    /\ finished_task \in [WorkerIds -> SUBSET Tasks]
    /\ last_save_time \in BOOLEAN
    /\ FileOK(file)
    /\ told \in [Tasks -> Seq(Int)]
    /\ finishes \in Nat
    /\ handed \subseteq Clients \X Tasks
    /\ starts \in 0..MaxStarts

\* Once Start is over every task is in exactly one place, and its status says
\* which: PENDING in the pending queue, RUNNING in the running queue, else
\* DONE.  A task that fell out of the queues without being DONE would let
\* the master call Finish with a result missing.
StatusMatchesQueues ==
    phase = "up" =>
        \A t \in Tasks :
            /\ status[t] \in {"PENDING", "RUNNING", "DONE"}
            /\ status[t] = "PENDING" <=> t \in task_pending_queue
            /\ status[t] = "RUNNING" <=> t \in task_running_queue

\* HandleRequest and LoadState pass the result of a task to the Solver exactly
\* once in the life of a process, when the task becomes DONE, and it is the
\* result the computation returned, whatever was lost, cut short, reported
\* late or reported twice before.
SolverToldOnce ==
    phase = "up" =>
        \A t \in Tasks :
            told[t] = IF status[t] = "DONE" THEN <<Answer[t]>> ELSE <<>>

\* Solver::Finish is called only when the Solver has every result.
FinishAfterAllResults ==
    finishes > 0 => \A t \in Tasks : told[t] = <<Answer[t]>>

\* A RUNNING task is in the running_task list of exactly one worker, the one
\* that will be shown as busy with it (a DONE task may still be in such a
\* list, when another worker reported it first).
RunningHasOneOwner ==
    \A t \in task_running_queue :
        \E w \in WorkerIds : \A v \in WorkerIds : t \in running_task[v] <=> v = w

\* Whatever a crash, a cut or a failed write leaves in state.txtproto, a task
\* item that says DONE carries the right result: LoadState can trust it.
SavedResultsAreRight ==
    file.kind = "state" =>
        \A t \in DOMAIN file.task_item :
            file.task_item[t].status = "DONE" => file.task_item[t].result = Answer[t]

\* Solver::Finish is called at most twice by a process: the second time only
\* when a complete state was loaded while a report was already received.
FinishAtMostTwice == finishes <= 2

\* With a disk that works, the state file holds every result, DONE, before the
\* Solver is told that the job is finished: a process started after that
\* loads a complete job.
FinishedJobIsSaved ==
    finishes > 0 /\ ~DiskFaults =>
        \A t \in Tasks : /\ file.kind = "state"
                          /\ t \in DOMAIN file.task_item
                          /\ file.task_item[t].status = "DONE"

Checkpoint == INSTANCE JobCheckpoint WITH
    known <- {t \in Tasks : told[t] # <<>>},
    saved <- IF file.kind = "state"
             THEN {t \in DOMAIN file.task_item : file.task_item[t].status = "DONE"}
             ELSE {},
    announced <- finishes > 0

\* The master implements the checkpointed set of results of JobCheckpoint.
CheckpointSpec == Checkpoint!Spec

-----------------------------------------------------------------------------
(***************************************************************************)
(* The inductive invariant behind the safety properties: what they do not  *)
(* say by themselves.                                                      *)
(***************************************************************************)
\* A report carries what Compute returned.
ReportsAreRight ==
    context.kind = "finish_compute" =>
        \A t \in DOMAIN context.task_item : context.task_item[t] = Answer[t]

\* task_map_ holds the right result of every DONE task.
ResultsAreRight ==
    phase = "up" => \A t \in Tasks : status[t] = "DONE" => result[t] = Answer[t]

\* Nothing is handed out, told or finished before Start is over.
StartsFresh ==
    phase = "starting" =>
        /\ task_running_queue = {}
        /\ finishes = 0
        /\ \A w \in WorkerIds : running_task[w] = {}
        /\ \A t \in Tasks : told[t] = <<>>

\* A pending task is on no worker's list, a running one on at least one, and
\* no task on two.
OwnersAreUnique ==
    \A t \in Tasks :
        /\ t \in task_pending_queue => \A w \in WorkerIds : t \notin running_task[w]
        /\ t \in task_running_queue => \E w \in WorkerIds : t \in running_task[w]
        /\ \A v, w \in WorkerIds :
              t \in running_task[v] /\ t \in running_task[w] => v = w

\* A request is received if and only if its ProcessRequest is posted, which
\* happens once; Finish goes with a posted exit.  So a request can be processed
\* after Finish only if it was received before, and no more than one can.
ExitFollowsFinish ==
    /\ phase \in {"down", "stopped"} => ui_queue = <<>>
    /\ \A i, j \in DOMAIN ui_queue :
          ui_queue[i] = "ProcessRequest" /\ ui_queue[j] = "ProcessRequest" => i = j
    /\ context = NoRequest <=> \A i \in DOMAIN ui_queue : ui_queue[i] = "ExitDpe"
    /\ phase # "stopped" /\ finishes = 0 =>
          \A i \in DOMAIN ui_queue : ui_queue[i] = "ProcessRequest"
    /\ phase = "up" /\ finishes > 0 =>
          \E i \in DOMAIN ui_queue : ui_queue[i] = "ExitDpe"
    /\ phase = "up" /\ finishes > 1 => ui_queue[1] = "ExitDpe"
    /\ finishes <= 2

Inv ==
    /\ StatusMatchesQueues
    /\ SolverToldOnce
    /\ FinishAfterAllResults
    /\ SavedResultsAreRight
    /\ FinishedJobIsSaved
    /\ ReportsAreRight
    /\ ResultsAreRight
    /\ StartsFresh
    /\ OwnersAreUnique
    /\ ExitFollowsFinish
=============================================================================
