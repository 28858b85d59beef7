--------------------------- MODULE RemoteDevices ---------------------------
(***************************************************************************)
(* The devices of dpe_service (dpe_model/dpe_device_impl.cc): a device     *)
(* lives in the DPEService of some machine, compiles the worker program of *)
(* a job when it is told to (InitJob), runs it for one task after another  *)
(* (DoTask) and answers heart beats.  It closes when it is told to, or     *)
(* when no heart beat comes for two minutes.                               *)
(*                                                                         *)
(* Scheduler and device talk over two publish/subscribe channels of ZMQ,   *)
(* one for each direction.  A channel keeps the order of its messages, but *)
(* what is published while nobody is connected is lost.  Each side handles *)
(* its messages on its UI thread.  The other side is module DpeScheduler.  *)
(*                                                                         *)
(* At most one device of a service belongs to a job, so a device is known  *)
(* by its service.  A device whose scheduler never learned of it, or is    *)
(* gone, talks to nobody.                                                  *)
(***************************************************************************)
EXTENDS Integers, Sequences, FiniteSets

CONSTANTS
    Services,       \* the DPEServices that can create a device
    TaskCount,      \* the number of tasks; a task is known by its index
    Output,         \* Output[t]: what the worker program prints for task t
    Prepared,       \* the services that hold the compiled worker already
    Loss,           \* TRUE: messages may be lost
    Slow,           \* TRUE: an answer may take longer than any timer
    Faults          \* TRUE: programs, files and sockets may fail, and the user
                    \* may stop the job

Tasks == 1..TaskCount
NoTask == 0

ASSUME TasksAssumption == TaskCount \in Nat /\ Output \in [Tasks -> Int \ {0}]
ASSUME ServicesAssumption == Prepared \subseteq Services
ASSUME FaultsAssumption == {Loss, Slow, Faults} \subseteq BOOLEAN

VARIABLES
    device,         \* device_state_ of the device, "none" if there is none
    task_id,        \* the task it works on
    compiled,       \* the image and job_desc.json of the worker exist
    connected,      \* the scheduler is subscribed to the device
    to_device, from_device      \* the two channels

deviceVars == <<device, task_id, compiled, connected, to_device, from_device>>

DevicesInit ==
    /\ device = [s \in Services |-> "none"]
    /\ task_id = [s \in Services |-> NoTask]
    /\ compiled = [s \in Services |-> s \in Prepared]
    /\ connected = [s \in Services |-> FALSE]
    /\ to_device = [s \in Services |-> <<>>]
    /\ from_device = [s \in Services |-> <<>>]

(***************************************************************************)
(* Messages and channels.                                                  *)
(***************************************************************************)
Message(kind) == [message |-> kind]
DoTaskMessage(t) == [message |-> "DoTask", task |-> t]
Reply(kind, code) == [message |-> kind, error_code |-> code]
\* The answer to a DoTask, with the id and the output of the task.
TaskReply(code, t, output) ==
    [message |-> "DoTask", error_code |-> code, task_id |-> t, task_output |-> output]
\* The answer to a DoTask that was not begun: it names no task.
NoTaskReply == TaskReply(-1, NoTask, 0)

\* What a channel may hold after m is published.
Published(channel, m) == {Append(channel, m)} \cup (IF Loss THEN {channel} ELSE {})

\* SendMessage of the device: nobody gets it unless the scheduler is there.
AnswerWith(s, m) ==
    \E c \in Published(from_device[s], m) :
        from_device' = IF connected[s] THEN [from_device EXCEPT ![s] = c] ELSE from_device

Open(s) == device[s] \notin {"none", "CLOSED"}

\* The next message for the device of s is of this kind.
Arrives(s, kind) ==
    /\ Open(s)
    /\ to_device[s] # <<>>
    /\ Head(to_device[s]).message = kind

Consume(s) == to_device' = [to_device EXCEPT ![s] = Tail(@)]

(***************************************************************************)
(* DPEDeviceImpl.                                                          *)
(***************************************************************************)
\* OpenDevice: a new device, with channels of its own.
OpenDevice(s) ==
    /\ device' = [device EXCEPT ![s] = "WAITING"]
    /\ task_id' = [task_id EXCEPT ![s] = NoTask]
    /\ to_device' = [to_device EXCEPT ![s] = <<>>]

HandleHeartBeat(s) ==
    /\ Arrives(s, "HeartBeat")
    /\ Consume(s)
    /\ AnswerWith(s, Reply("HeartBeat", 0))
    /\ UNCHANGED <<device, task_id, compiled, connected>>

\* InitJob for a device that is past it, as a repeated message is; or one
\* whose compiler cannot be found or started: an error, in the same state.
RefuseInitJob(s) ==
    /\ Arrives(s, "InitJob")
    /\ device[s] # "WAITING" \/ Faults
    /\ Consume(s)
    /\ AnswerWith(s, Reply("InitJob", -1))
    /\ UNCHANGED <<device, task_id, compiled, connected>>

\* InitJob for a waiting device: the worker is there already, or is compiled.
AcceptInitJob(s) ==
    /\ Arrives(s, "InitJob")
    /\ device[s] = "WAITING"
    /\ Consume(s)
    /\ IF compiled[s]
       THEN /\ device' = [device EXCEPT ![s] = "RUNNING_IDLE"]
            /\ AnswerWith(s, Reply("InitJob", 0))
       ELSE /\ device' = [device EXCEPT ![s] = "INITIALIZING"]
            /\ UNCHANGED from_device
    /\ UNCHANGED <<task_id, compiled, connected>>

OnCompileFinished(s, ok) ==
    /\ device[s] = "INITIALIZING"
    /\ ok \/ Faults
    /\ device' = [device EXCEPT ![s] = IF ok THEN "RUNNING_IDLE" ELSE "FAILED"]
    /\ compiled' = [compiled EXCEPT ![s] = ok]
    /\ AnswerWith(s, Reply("InitJob", IF ok THEN 0 ELSE -1))
    /\ UNCHANGED <<task_id, connected, to_device>>

\* DoTask for a device that is not idle, or whose worker does not start.
RefuseDoTask(s) ==
    /\ Arrives(s, "DoTask")
    /\ device[s] # "RUNNING_IDLE" \/ Faults
    /\ Consume(s)
    /\ AnswerWith(s, NoTaskReply)
    /\ UNCHANGED <<device, task_id, compiled, connected>>

\* The worker process is started and given the input of the task.
AcceptDoTask(s) ==
    /\ Arrives(s, "DoTask")
    /\ device[s] = "RUNNING_IDLE"
    /\ Consume(s)
    /\ device' = [device EXCEPT ![s] = "RUNNING"]
    /\ task_id' = [task_id EXCEPT ![s] = Head(to_device[s]).task]
    /\ UNCHANGED <<compiled, connected, from_device>>

\* Mutation: the device does not become idle.
AfterTaskBusy == "RUNNING"

AfterTask == "RUNNING_IDLE"

\* Mutation: the output of the last task is not thrown away.
TaskOutputKept(s) == Output[1]

\* task_output_data_ when the worker process has ended.
TaskOutput(s) == Output[task_id[s]]

\* OnStop: the worker process has ended, and its output is the result.
OnStop(s, ok) ==
    /\ device[s] = "RUNNING"
    /\ ok \/ Faults
    /\ device' = [device EXCEPT ![s] = AfterTask]
    /\ AnswerWith(s, IF ok THEN TaskReply(0, task_id[s], TaskOutput(s))
                       ELSE TaskReply(-1, task_id[s], 0))
    /\ UNCHANGED <<task_id, compiled, connected, to_device>>

\* CloseDevice and RemoveDPEDevice: the channels go, and so does the process.
CloseDevice(s) ==
    /\ device' = [device EXCEPT ![s] = "CLOSED"]
    /\ task_id' = [task_id EXCEPT ![s] = NoTask]
    /\ to_device' = [to_device EXCEPT ![s] = <<>>]
    /\ UNCHANGED <<compiled, connected, from_device>>

HandleCloseDevice(s) == Arrives(s, "CloseDevice") /\ CloseDevice(s)

HeartBeatUnderWay(channel) == \E i \in DOMAIN channel : channel[i].message = "HeartBeat"

\* Mutation: the time of the last heart beat is taken anew at every check.
NoHeartBeatNever(s) == FALSE

\* More than 120 seconds without a heart beat: the scheduler is gone, or waits
\* for the answer to one that was lost, or everything is slow.
NoHeartBeat(s) == Slow \/ ~connected[s] \/ (Loss /\ ~HeartBeatUnderWay(to_device[s]))

CheckHeartBeatOfDevice(s) ==
    /\ Open(s)
    /\ NoHeartBeat(s)
    /\ CloseDevice(s)

\* The machine of the device is switched off.
DeviceDies(s) == Faults /\ Open(s) /\ CloseDevice(s)

HandleMessageOfDevice(s) ==
    \/ HandleHeartBeat(s)
    \/ RefuseInitJob(s) \/ AcceptInitJob(s)
    \/ RefuseDoTask(s) \/ AcceptDoTask(s)
    \/ HandleCloseDevice(s)

ProcessEnds(s) == \E ok \in BOOLEAN : OnCompileFinished(s, ok) \/ OnStop(s, ok)

DeviceStep(s) == HandleMessageOfDevice(s) \/ ProcessEnds(s) \/ CheckHeartBeatOfDevice(s)

-----------------------------------------------------------------------------
MessagesToDevice ==
    {Message(k) : k \in {"HeartBeat", "InitJob", "CloseDevice"}}
    \cup {DoTaskMessage(t) : t \in Tasks}

MessagesFromDevice ==
    {Reply("HeartBeat", 0), Reply("InitJob", 0), Reply("InitJob", -1), NoTaskReply}
    \cup {TaskReply(-1, t, 0) : t \in Tasks}
    \cup {TaskReply(0, t, Output[t]) : t \in Tasks}

\* The variables of the devices stay in their types.
DevicesTypeOK ==
    /\ device \in [Services -> {"none", "WAITING", "INITIALIZING", "RUNNING_IDLE",
                                "RUNNING", "CLOSED", "FAILED"}]
    /\ task_id \in [Services -> Tasks \cup {NoTask}]
    /\ compiled \in [Services -> BOOLEAN]
    /\ connected \in [Services -> BOOLEAN]
    /\ to_device \in [Services -> Seq(MessagesToDevice)]
    /\ from_device \in [Services -> Seq(MessagesFromDevice)]
=============================================================================
