----------------------------- MODULE DpeSystem -----------------------------
(***************************************************************************)
(* A dpe job: the master of DpeMaster and the worker processes that compute *)
(* its tasks (src/dpe/dpe_worker_node.cc), joined by the request sockets of *)
(* ZMQClient.                                                               *)
(*                                                                          *)
(* A worker process runs thread_number loops, one for each client of the    *)
(* process: ask for tasks, compute them on the blocking pool, report the    *)
(* results, ask again.  Replies, timeouts and finished computations are     *)
(* posted to the UI thread of the process and handled in posting order; so  *)
(* is ExitDpeImpl, behind what was posted before it.  The main loop quits   *)
(* when it is idle, so what is posted until then is still handled.  A       *)
(* request is sent on a socket of its own and never repeated, so a client   *)
(* has at most one request in flight.                                       *)
(***************************************************************************)
EXTENDS DpeMaster

CONSTANTS
    Processes,      \* worker processes
    Process,        \* Process[c]: the process that runs client c's loop
    BatchSize,      \* BatchSize[p]: the batch_size flag of process p
    Faults          \* FALSE: no crash, no lost message, no late reply

ASSUME ProcessAssumption ==
    /\ Process \in [Clients -> Processes]
    /\ \A c, d \in Clients : Process[c] = Process[d] => WorkerId[c] = WorkerId[d]
    /\ \A p \in Processes : IsFiniteSet({c \in Clients : Process[c] = p})
ASSUME BatchSizeAssumption ==
    /\ BatchSize \in [Processes -> Int \ {0}]
    /\ \A p \in Processes : BatchSize[p] <= MaxTaskCount
ASSUME FaultsAssumption == Faults \in BOOLEAN /\ MaxTaskCount > 0

VARIABLES
    process,        \* process[p]: not started, up, leaving, or how it ended
    events,         \* events[p]: closures posted to the UI thread of p
    running_task_count,
    loop,           \* loop[c]: what the loop of client c is waiting for
    batch,          \* batch[c]: the tasks c's loop is computing
    requests,       \* requests on their way to the master
    replies         \* replies on their way to a client

workerVars == <<process, events, running_task_count, loop, batch>>
sysVars == <<vars, workerVars, requests, replies>>

ClientsOf(p) == {c \in Clients : Process[c] = p}

SysInit ==
    /\ Init
    /\ process = [p \in Processes |-> "new"]
    /\ events = [p \in Processes |-> <<>>]
    /\ running_task_count = [p \in Processes |-> 0]
    /\ loop = [c \in Clients |-> "new"]
    /\ batch = [c \in Clients |-> {}]
    /\ requests = {}
    /\ replies = {}

(***************************************************************************)
(* The master's side: its own actions, and what they do to the messages.   *)
(***************************************************************************)
\* The socket of c is open and its answer has not been posted yet.
Waiting(c) == loop[c] \in {"get_task", "finish_compute"}

MasterReceive(r) ==
    /\ r \in requests
    /\ Receive(r)
    /\ requests' = requests \ {r}
    /\ UNCHANGED <<workerVars, replies>>

\* zmq_send of the reply: it reaches the client only if its socket is open.
Reply(c, tasks) ==
    replies' = IF Waiting(c) THEN replies \cup {[client |-> c, tasks |-> tasks]}
                             ELSE replies

MasterGetTask(B) ==
    /\ GetTask(B)
    /\ Reply(context.client, B)
    /\ UNCHANGED <<workerVars, requests>>

MasterFinishCompute ==
    /\ FinishCompute
    /\ Reply(context.client, {})
    /\ UNCHANGED <<workerVars, requests>>

MasterOther ==
    /\ \/ Bind
       \/ \E read_state \in BOOLEAN : StartTasks(read_state)
       \/ ExitDpe
    /\ UNCHANGED <<workerVars, requests, replies>>

MasterFault ==
    /\ Faults
    /\ BindFails \/ Crash \/ CrashInSave
    /\ UNCHANGED <<workerVars, requests, replies>>

(***************************************************************************)
(* ZMQClient: a request is sent, answered, or times out.                   *)
(***************************************************************************)
\* The requests that ZMQClient::SendRequest could put on a socket; for the
\* others it returns false, which the worker does not look at: their callback
\* is never called and their loop is over.
Sent(S) == {R \in SUBSET S : Faults \/ R = S}

Post(p, e) == [events EXCEPT ![p] = Append(@, e)]

\* A reply arrives: the callback is posted with ZMQ_REP_OK.
Answered(c) ==
    \E m \in replies :
        /\ m.client = c
        /\ Waiting(c)
        /\ replies' = replies \ {m}
        /\ events' = Post(Process[c], [kind |-> loop[c], client |-> c, ok |-> TRUE,
                                       tasks |-> m.tasks])
        /\ loop' = [loop EXCEPT ![c] = "answered"]
        /\ UNCHANGED <<vars, process, running_task_count, batch, requests>>

\* No master process will ever answer a request again.
MasterGone == phase \in {"down", "stopped"} /\ starts = MaxStarts

\* No reply in time: the callback is posted with ZMQ_REP_TIME_OUT and the
\* socket is closed.  The request is lost or, if it left, still on its way.
TimeOut(c) ==
    /\ Waiting(c)
    /\ Faults \/ (MasterGone /\ \A m \in replies : m.client # c)
    /\ \E lost \in SUBSET {r \in requests : r.client = c} :
          requests' = requests \ lost
    /\ replies' = {m \in replies : m.client # c}
    /\ events' = Post(Process[c], [kind |-> loop[c], client |-> c, ok |-> FALSE,
                                   tasks |-> {}])
    /\ loop' = [loop EXCEPT ![c] = "answered"]
    /\ UNCHANGED <<vars, process, running_task_count, batch>>

\* A connection breaks: a message on it is lost.
LoseMessage ==
    /\ Faults
    /\ \/ \E r \in requests : requests' = requests \ {r} /\ UNCHANGED replies
       \/ \E m \in replies : replies' = replies \ {m} /\ UNCHANGED requests
    /\ UNCHANGED <<vars, workerVars>>

(***************************************************************************)
(* DPEWorkerNode.                                                          *)
(***************************************************************************)
\* GetNextTask(suggested_size): a positive batch_size decides alone how many
\* tasks are asked for.
GetTaskRequest(c, suggested_size) ==
    [kind |-> "get_task", client |-> c,
     max_task_count |-> IF BatchSize[Process[c]] > 0 THEN BatchSize[Process[c]]
                                                     ELSE suggested_size]

\* Start: every loop of the process asks for its first tasks.
StartWorker(p) ==
    /\ process[p] = "new"
    /\ process' = [process EXCEPT ![p] = "up"]
    /\ \E S \in Sent(ClientsOf(p)) :
         /\ requests' = requests \cup {GetTaskRequest(c, 1) : c \in S}
         /\ loop' = [c \in Clients |-> IF Process[c] # p THEN loop[c]
                                       ELSE IF c \in S THEN "get_task" ELSE "over"]
    /\ UNCHANGED <<vars, events, running_task_count, batch, replies>>

\* A closure of this kind is next on the UI thread of process p.
Handling(p, kind) ==
    /\ process[p] \in {"up", "leaving"}
    /\ events[p] # <<>>
    /\ Head(events[p]).kind = kind

Event(p) == Head(events[p])

Exit == [kind |-> "exit"]

\* Nothing is left to do for this loop; WillExitDpe when no other loop of the
\* process is computing.
LoopOver(p, c) ==
    /\ loop' = [loop EXCEPT ![c] = "over"]
    /\ events' = [events EXCEPT ![p] = IF running_task_count[p] = 0
                                       THEN Append(Tail(@), Exit) ELSE Tail(@)]
    /\ UNCHANGED <<vars, process, running_task_count, batch, requests, replies>>

\* HandleGetTask: an error, or no tasks, ends the loop; otherwise the tasks go
\* to the blocking pool.
HandleGetTask(p) ==
    /\ Handling(p, "get_task")
    /\ IF ~Event(p).ok \/ Event(p).tasks = {}
       THEN LoopOver(p, Event(p).client)
       ELSE /\ running_task_count' = [running_task_count EXCEPT ![p] = @ + 1]
            /\ batch' = [batch EXCEPT ![Event(p).client] = Event(p).tasks]
            /\ loop' = [loop EXCEPT ![Event(p).client] = "compute"]
            /\ events' = [events EXCEPT ![p] = Tail(@)]
            /\ UNCHANGED <<vars, process, requests, replies>>

\* ExecuteTask on a thread of the blocking pool: Compute, then post
\* FinishExecuteTask.
ExecuteTask(c) ==
    /\ loop[c] = "compute"
    /\ process[Process[c]] \in {"up", "leaving"}
    /\ loop' = [loop EXCEPT ![c] = "computed"]
    /\ events' = Post(Process[c], [kind |-> "computed", client |-> c])
    /\ UNCHANGED <<vars, process, running_task_count, batch, requests, replies>>

\* Mutation: the results are read before Compute has filled them in.
ReportEarly(c) ==
    [kind |-> "finish_compute", client |-> c, task_item |-> [t \in batch[c] |-> 0]]

\* The FinishComputeRequest of a loop: its tasks with what Compute returned.
Report(c) ==
    [kind |-> "finish_compute", client |-> c,
     task_item |-> [t \in batch[c] |-> Answer[t]]]

\* Mutation: the count is left as it is.
OneLessForgotten(p) == running_task_count

OneLess(p) == [running_task_count EXCEPT ![p] = @ - 1]

\* ExitDpeImpl drops its reference to the node; what keeps it alive then is the
\* callback of a request that is not answered or whose answer is not handled.
NodeAlive(p) ==
    process[p] = "up" \/ \E c \in ClientsOf(p) : Waiting(c) \/ loop[c] = "answered"

\* FinishExecuteTask with a dead weak pointer: the results are dropped.
DropResults(p) ==
    /\ Handling(p, "computed")
    /\ ~NodeAlive(p)
    /\ loop' = [loop EXCEPT ![Event(p).client] = "over"]
    /\ batch' = [batch EXCEPT ![Event(p).client] = {}]
    /\ events' = [events EXCEPT ![p] = Tail(@)]
    /\ UNCHANGED <<vars, process, running_task_count, requests, replies>>

\* FinishExecuteTaskImpl: the results are sent, once.
FinishExecuteTask(p) ==
    /\ Handling(p, "computed")
    /\ NodeAlive(p)
    /\ running_task_count' = OneLess(p)
    /\ \E S \in Sent({Event(p).client}) :
         /\ requests' = requests \cup {Report(c) : c \in S}
         /\ loop' = [loop EXCEPT ![Event(p).client] = IF S = {} THEN "over"
                                                         ELSE "finish_compute"]
    /\ batch' = [batch EXCEPT ![Event(p).client] = {}]
    /\ events' = [events EXCEPT ![p] = Tail(@)]
    /\ UNCHANGED <<vars, process, replies>>

\* HandleFinishCompute: a lost or late reply ends the loop (the report is not
\* repeated), any other asks for the next tasks.  With a negative batch_size
\* the suggested size depends on the time the batch took: any size.
HandleFinishCompute(p) ==
    /\ Handling(p, "finish_compute")
    /\ IF ~Event(p).ok
       THEN LoopOver(p, Event(p).client)
       ELSE /\ \E S \in Sent({Event(p).client}), suggested_size \in 1..MaxTaskCount :
                 /\ requests' = requests \cup
                                  {GetTaskRequest(c, suggested_size) : c \in S}
                 /\ loop' = [loop EXCEPT ![Event(p).client] = IF S = {} THEN "over"
                                                                 ELSE "get_task"]
            /\ events' = [events EXCEPT ![p] = Tail(@)]
            /\ UNCHANGED <<vars, process, running_task_count, batch, replies>>

\* The process is gone: its sockets are closed without lingering, so requests
\* that did not leave yet are lost, and nothing posted to it runs.
Leave(p, how) ==
    /\ process' = [process EXCEPT ![p] = how]
    /\ events' = [events EXCEPT ![p] = <<>>]
    /\ \E lost \in SUBSET {r \in requests : Process[r.client] = p} :
          /\ Faults \/ lost = {}
          /\ requests' = requests \ lost
    /\ replies' = {m \in replies : Process[m.client] # p}
    /\ loop' = [c \in Clients |-> IF Process[c] = p THEN "over" ELSE loop[c]]
    /\ running_task_count' = [running_task_count EXCEPT ![p] = 0]
    /\ batch' = [c \in Clients |-> IF Process[c] = p THEN {} ELSE batch[c]]
    /\ UNCHANGED vars

\* ExitDpeImpl in a worker process: the node is dropped, the quit is posted.
ExitWorker(p) ==
    /\ Handling(p, "exit")
    /\ process' = [process EXCEPT ![p] = "leaving"]
    /\ events' = [events EXCEPT ![p] = Tail(@)]
    /\ UNCHANGED <<vars, running_task_count, loop, batch, requests, replies>>

\* The main loop ends when nothing is left to run, and the process with it.
QuitMainLoop(p) ==
    /\ process[p] = "leaving"
    /\ events[p] = <<>>
    /\ Leave(p, "exited")

WorkerCrash(p) ==
    /\ Faults
    /\ process[p] \in {"up", "leaving"}
    /\ Leave(p, "crashed")

WorkerStep(p) ==
    \/ StartWorker(p)
    \/ HandleGetTask(p)
    \/ FinishExecuteTask(p)
    \/ DropResults(p)
    \/ HandleFinishCompute(p)
    \/ ExitWorker(p)
    \/ QuitMainLoop(p)

SysNext ==
    \/ \E r \in requests : MasterReceive(r)
    \/ \E B \in SUBSET task_pending_queue : MasterGetTask(B)
    \/ MasterFinishCompute
    \/ MasterOther
    \/ MasterFault
    \/ \E c \in Clients : Answered(c) \/ TimeOut(c) \/ ExecuteTask(c)
    \/ LoseMessage
    \/ \E p \in Processes : WorkerStep(p) \/ WorkerCrash(p)

SysSpec == SysInit /\ [][SysNext]_sysVars

(***************************************************************************)
(* Fairness: every thread that has something to do eventually does it.     *)
(* The poll thread and the UI thread of the master, the UI thread, the ZMQ *)
(* thread and the blocking pool of each worker process run as long as      *)
(* their process does, and the user starts the job.                        *)
(***************************************************************************)
Fairness ==
    /\ \A c \in Clients :
         WF_sysVars(\E r \in requests : r.client = c /\ MasterReceive(r))
    /\ WF_sysVars(\E B \in SUBSET task_pending_queue : MasterGetTask(B))
    /\ WF_sysVars(MasterFinishCompute)
    /\ WF_sysVars(MasterOther)
    /\ \A c \in Clients : WF_sysVars(Answered(c) \/ TimeOut(c) \/ ExecuteTask(c))
    /\ \A p \in Processes : WF_sysVars(WorkerStep(p))

FairSpec == SysSpec /\ Fairness

-----------------------------------------------------------------------------
\* The worker's variables stay in their types; the requests and replies are
\* those of the clients.
SysTypeOK ==
    /\ TypeOK
    /\ process \in [Processes -> {"new", "up", "leaving", "exited", "crashed"}]
    /\ \A p \in Processes : \A i \in DOMAIN events[p] :
          events[p][i].kind \in {"get_task", "computed", "finish_compute", "exit"}
    /\ running_task_count \in [Processes -> Nat]
    /\ loop \in [Clients -> {"new", "get_task", "finish_compute", "answered",
                             "compute", "computed", "over"}]
    /\ batch \in [Clients -> SUBSET Tasks]
    /\ \A r \in requests : RequestOK(r) /\ r # NoRequest
    /\ replies \subseteq [client : Clients, tasks : SUBSET Tasks]

\* running_task_count_, which decides whether the process may leave, counts
\* exactly the loops that are computing or whose computation is not yet
\* reported.
CountsComputingLoops ==
    SysTypeOK /\ \A p \in Processes : NodeAlive(p) =>
        running_task_count[p] =
            Cardinality({c \in ClientsOf(p) : loop[c] \in {"compute", "computed"}})

\* With a positive batch_size, Solver::Compute never gets more tasks than that
\* (the comment on Flags::batch_size guarantees size <= batch_size).
BatchSizeRespected ==
    \A c \in Clients :
        BatchSize[Process[c]] > 0 => Cardinality(batch[c]) <= BatchSize[Process[c]]

\* While one master process lives, no task is computed by two loops: a task
\* goes to a second client only after a restart of the master.
NoTaskComputedTwice ==
    starts = 1 => \A c, d \in Clients : \A t \in Tasks :
                      <<c, t>> \in handed /\ <<d, t>> \in handed => c = d

\* The tasks a loop is given: no more than it may have, and none that another
\* loop was given.
BatchesAreRight == BatchSizeRespected /\ NoTaskComputedTwice

\* Somebody will still report task t to the master.
OnItsWay(t) ==
    \/ context.kind = "finish_compute" /\ t \in DOMAIN context.task_item
    \/ \E r \in requests : r.kind = "finish_compute" /\ t \in DOMAIN r.task_item
    \/ \E m \in replies : t \in m.tasks
    \/ \E c \in Clients : t \in batch[c]
    \/ \E p \in Processes : \E i \in DOMAIN events[p] :
          events[p][i].kind = "get_task" /\ t \in events[p][i].tasks

\* A worker executes the tasks it asked for and reports them: every task the
\* master holds as RUNNING is with somebody who will report it.  The master
\* never takes a RUNNING task back, so a task this fails for is never done.
RunningTasksAreReported ==
    phase = "up" => \A t \in task_running_queue : OnItsWay(t)

\* The workers are clients as DpeMaster expects them: they report tasks they were
\* handed, with the results Compute returned.  So what is shown of the master
\* with arbitrary clients holds of the job.
JobIsMaster == Spec

\* The job ends: Finish is called, and master and workers leave.
JobEnds ==
    <>[](finishes = 1 /\ phase = "stopped" /\ \A p \in Processes : process[p] = "exited")
=============================================================================
