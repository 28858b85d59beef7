# A verification project for dcfpe

dcfpe distributes the tasks of a computation over machines. The repository holds
two generations of that idea, a remote shell, the library all of them use, and the
generator of their build files:

* **dpe** (`src/src/dpe`): a *master* holds the tasks of a `Solver`, *workers*
  ask it for tasks, compute them and report the results. A state file lets a
  restarted master continue; a small HTTP server shows the state.
* **dpe_service** (`src/src/dpe_service`): the older generation. A *scheduler*
  creates *devices* on remote services, has them compile and run worker programs,
  hands them tasks over publish/subscribe channels and watches them by heart
  beats.
* **remote_shell** (`src/src/remote_shell`): runs commands on other machines.
* **dpe_base**, **process** (`src/src/dpe_base`, `src/src/process`): threads, the
  ZMQ client and server, the message center, timers, pipes, child processes.
* **gyp** (`src/src/tools/gyp`): reads the `.gyp` files of all of these and writes
  build files for ninja, make, Android, CMake, Visual Studio or Xcode. It comes from
  another project but lives in this repository; `gen.py` runs it, with the ninja
  generator, before every build. It is most of the Python in the repository.

The TLA+ modules here model the program's own logic. `PROJECT.json` maps every
definition to the lines it stands for. Libraries under `third_party` and `build`
(chromium base, protobuf, zmq), jquery and Chart.js are not modelled.

## Inventory

| Component | State | Operations | Interacts with | What is hard | What makes it correct |
|---|---|---|---|---|---|
| dpe master node (`dpe_master_node.cc`) | task map, pending and running queue, worker map, time of the last save, `state.txtproto` | Start, LoadState, get_task, finish_compute, SaveState | requests of the workers through the ZMQ server; calls the Solver; posts the exit | restarts, a file cut short, late and repeated reports, a request received while Start runs | every result reaches the Solver once; Finish after the last result and the last save; no task falls out of the queues |
| dpe worker node (`dpe_worker_node.cc`) | running task count, batch size | Start, GetNextTask, ExecuteTask, FinishExecuteTask, the two reply handlers | ZMQ client, blocking pool, `WillExitDpe` | several loops in one process, timeouts, no repetition of a report | the tasks it took are reported before it leaves |
| dpe start-up and exit (`dpe.cc`) | the node, the HTTP server | RunDpe, run, WillExitDpe, ExitDpeImpl | all of dpe | exit while work is under way | the process leaves |
| task ranges (`dpe_util.h`) | an iterator | begin, end, ++, toRange | the Solver of the user | rounding at the ends | a partition of the range |
| dpe HTTP server (`http_server.cc`) | socket, event, quit flag, handler | Start, Run, HandleRequest, SetHandler, Stop | its own thread and the UI thread | two threads waiting for each other; an event left over | the right answer to each browser; Stop returns |
| status page (`web/index.html`, the `/status` handler) | the rows it has shown | refresh | HTTP server | overlapping refreshes | each task is shown once |
| `pm.cc` | a child process | start, restart | process library | | |
| ZMQ client (`zmq_client.cc`) | pending requests, control socket | SendRequest, Run, ProcessEvent, Stop | every requester | timeouts, wrap-around of the tick count | each request is answered once |
| ZMQ server (`zmq_server.cc`) | server contexts | StartServer, StopServer, Run, ProcessRequest | every server | a context read by two threads | each request is handled once |
| message center (`msg_center.cc`) | channels, handlers | register, remove, send | dpe_service, process | changes while a list is walked | |
| thread pool (`thread_pool_impl.cc`, `dpe_base.cc`) | message loops | post, start-up, shut-down | everything | order of posted closures | |
| repeated action (`repeated_action.cc`) | a timer | Start, Stop, Restart | scheduler, remote_shell | stale ticks | |
| dpe_service scheduler (`dpe_scheduler.cc`) | task queues, remote devices and their states | Run, Stop, OnTask…, OnDevice…, heart beat, InitJob, DoTask | devices by messages, source and sink processes, the project | lost messages, repeated InitJob, devices that vanish or fail | every task is queued, running on one device, or finished; the sink gets all results once; the job ends, or waits for one of the known things |
| dpe_service device (`dpe_device_impl.cc`) | its state, the task it runs | InitJob, DoTask, heart beat, close | scheduler, worker process, compiler | repeated and lost messages; a scheduler that vanishes | one task at a time, the right output for it; it does not outlive its job |
| dpe_service controller (`dpe_controller.cc`) | the state of the job | Start, Stop, OnCompile…, OnRunning… | compiler, scheduler | a scheduler that is dropped from inside its own callback | |
| dpe_service project (`dpe_project.cc`) | task states and results, two files with backups and a checksum | AddInputData, MakeTaskQueue, LoadSavedState, SaveProject | scheduler | a process that dies between the two files | what is loaded was computed |
| dpe_service compiler, node, shell, dialog | command lines, services, windows | compile, create device, discover services | all of dpe_service | | |
| process library | a child process, pipes | Start, Stop, the wait thread | devices, remote_shell | the end of a process races the request to stop it | |
| remote_shell | sessions, buffered output | connect, execute, heart beat, flush | ZMQ client and server, process | output and end of a command in order | |
| gyp, loading (`input.py`, first part) | the dictionaries of the loaded files, the queue of files to load, the results of a pool of processes | LoadBuildFiles, LoadTargetBuildFile, includes, the callback of a parallel load | its own processes and a result thread, under one condition variable | a lost wake-up, a file scheduled twice or never, an error in one of the processes | what is loaded is what is reachable from the files named; the load ends |
| gyp, dictionaries and variables (`input.py`) | a tree of dictionaries | variables of three phases, commands, conditions, configurations, list filters | the loaded files | dictionaries are visited in any order, lists are shared and changed in place | no reference of a finished phase is left; a configuration has all it inherits; the last matching filter counts |
| gyp, targets (`input.py`, last part) | the target dictionaries, the dependency graph, the flat list | qualification, wildcards, toolsets, pruning, flattening, dependent settings, static libraries, rules, validation | the generators | cycles, shared and repeated dependencies, hard dependencies | a target comes after what it depends on; settings reach those they are due to |
| gyp, generators (`generator/*.py`, `xcodeproj_file.py`, `xcode_emulation.py`, `MSVS*.py`) | what is written for each target, and what a target leaves for those after it | GenerateOutput of ninja, make, android, cmake, msvs, xcode, xcode-ninja | the build system that runs the steps | a build system runs steps in any order the files allow; a forgotten dependency shows only in some orders or only in the second build | each step finds what it reads, the build is complete, a rebuild is as good as a clean build |
| gyp, analyzer (`generator/analyzer.py`) | Target objects with flags, recursion | GenerateOutput | – | recursion with flags that stop it, through sets in any order | every target that a change reaches is found and built |

All hazards found while reading are listed in `PROJECT.json`, each at its line,
with the properties that would catch it going wrong.

## Modules

| Module | Models | Extends |
|---|---|---|
| `DpeMaster` | the master process with arbitrary clients, its state file, crashes | – |
| `JobCheckpoint` | abstract: a set of results that is learned, saved, lost and announced | – |
| `DpeSystem` | the job: the master and the worker processes with their requests | `DpeMaster` |
| `BatchTime` | the adaptive batch size of a worker | – |
| `RangeTasks` | `RangeBasedTaskGenerator` | – |
| `HttpServer` | the status server, the exit of the master | – |
| `RemoteDevices` | the devices of dpe_service and the channels to and from them | – |
| `DpeScheduler` | a dpe_service job: controller, scheduler, and the devices | `RemoteDevices`, `Selection` |
| `GypLists` | list operations of gyp | `Selection` |
| `BuildFileSet` | abstract: what loading build files promises | – |
| `GypLoad` | loading build files, serially or with a pool of processes | `GypLists` |
| `GypDicts` | dictionaries as trees, and how they are merged | `GypLists` |
| `GypVariables` | the evaluation of a target's dictionary | `GypDicts` |
| `DependencyGraph` | `DependencyGraphNode`, `FlattenToList` | `GypLists` |
| `GypTargets` | from loaded targets to what the generators get | `DependencyGraph` |
| `BuildSteps` | steps and files, and what several generators share | `GypTargets` |
| `MSVSUtil` | sharding and the shims of large program databases | `BuildSteps` |
| `NinjaGenerator` | the ninja generator | `MSVSUtil` |
| `MakeGenerator`, `AndroidGenerator`, `CMakeGenerator` | the generators of these names | `BuildSteps` |
| `MsvsGenerator` | Visual Studio projects and solutions, with and without ninja | `MSVSUtil`, uses `NinjaGenerator` |
| `XcodeGenerator` | Xcode projects, with and without ninja | `BuildSteps`, uses `NinjaGenerator` |
| `Analyzer` | the analyzer generator | `GypTargets` |
| `GypBuild` | gyp and the build: Load, a generator, the build system, an edit, the next build | `Analyzer`, uses every generator |
| `Selection` | a loop over a list that keeps some of its elements | – |
| `QueueFacts` | lemmas on queues, lists, counting and loops | `Selection` |
| `DpeSystem_proofs` | theorems on `DpeMaster`, `DpeSystem` and the arithmetic | `DpeSystem`, `BatchTime`, `RangeTasks`, `QueueFacts` |
| `DpeScheduler_proofs`, `HttpServer_proofs`, `GypLoad_proofs`, `DependencyGraph_proofs` | theorems | the module of the same name, `QueueFacts` |
| `GypTargets_proofs` | theorems | `GypTargets`, `DependencyGraph_proofs` |
| `Analyzer_proofs` | theorems | `Analyzer`, `GypTargets_proofs` |
| `MC…` | small instances for TLC | |

### DpeMaster

The variables are the members of `DPEMasterNode` under their own names;
`task_map_` is split into `status` and `result`, `worker_map_` into `worker_ids`,
`running_task` and `finished_task`. Times, latencies and counters of a worker are
left out: nothing depends on them. Around the node are `phase` (where `run` is),
`ui_queue` (what is posted to the UI thread), `context` (the `ServerContext` of
the ZMQ server) and `file` (`state.txtproto`). `told` and `finishes` record what
the Solver was told, `handed` who was ever given what.

| Action | Code |
|---|---|
| `Bind`, `BindFails`, `StartTasks(read_state)` | `run`, `DPEMasterNode::Start`, `LoadState`, `SkipLoadState`. The socket is bound first, so a request may be received before the tasks exist; it is processed after Start because both use the UI thread |
| `Receive(r)` | the poll thread puts a request into the context and posts `ProcessRequest` |
| `GetTask(B)`, `FinishCompute` | the two branches of `HandleRequest`; `FinishCompute` includes the save, the call of Finish and the posted exit |
| `SaveState`, `WriteFile` | forced, first, or three minutes after the last (the clock is free: any time); with `DiskFaults` the write may fail unnoticed or be cut short |
| `ExitDpe`, `Crash`, `CrashInSave` | `ExitDpeImpl`, and the death of the process at any point, inside the write too |

`CutShort` says what a write that stops half way leaves: the old file is truncated
first; the items are printed by ascending task id and then the workers; text
that ends between two items parses, any other does not.

### DpeSystem

Closes the model with `DPEWorkerNode` and the client sockets. A process runs one
loop per client. Callbacks and finished computations are posted to the UI thread
of the process (`events`) and handled in order. `ExitWorker` models `ExitDpeImpl`:
the node is dropped and the main loop told to quit *when idle*, so what is already
posted, and what is posted until the loop is idle, still runs; whether the node is
still alive then depends on the callbacks that hold a reference (`NodeAlive`).
With `Faults`, a request may not be sent, be lost, time out (and arrive
nevertheless), processes may crash, and the master may be restarted.

### HttpServer

The HTTP thread and the UI thread, with the response on the stack of the first,
whose address the second gets. The waits of ten and three seconds may run out
`MaxLate` times. A thread that cannot go on is terminated by Stop in any case. A failing
bind of the HTTP port is left out (no thread starts then).

### BatchTime, RangeTasks

Two pieces of arithmetic. `BatchTime` states times in microseconds and describes
the double precision division of the code by the set of quotients it may give.

### RemoteDevices, DpeScheduler

A job of dpe_service. `RemoteDevices` has the state of each `DPEDeviceImpl`
(`device`, `task_id`), whether the worker is compiled, and the two channels;
its actions are the handlers of the four messages, the ends of the compiler
(`OnCompileFinished`) and of the worker process (`OnStop`), and the check of the
heart beat. `DpeScheduler` adds the controller (`job_state`), the creator of each
service, the fields of each `RemoteDPEDevice` (`device_state`, `curr_task`,
`has_reply`, the repetitions of InitJob left in `init_sends`), the project state
and the scheduler's queues.

| Action | Code |
|---|---|
| `Start`, `Stop`, `OnCompileError`, `OnCompileSuccess` | the controller; `Run` of the scheduler is part of the last |
| `RequestNewDevice`, `CreateDevice`, `CreateDeviceFails` | `RefreshDeviceState`, the creator, and what the service does for it |
| `SendInitJob`, `SendHeartBeat` | the two timers of a `RemoteDPEDevice` |
| `InitJobSucceeds/Fails`, `OnTaskSucceed/Failed`, `HandleHeartBeatReply`, `IgnoreMessage` | `handle_message` and all it calls, the distribution of tasks (`OnDeviceAvailable`) included |
| `LoseDevice` | `CheckHeartBeat` that finds no answer, up to the removal from `device_list_`; `hung` records that the removal does not end |
| `SourceStops`, `ReduceResult`, `SinkStops` | the two programs of the job and the hand-over of the results |

Three constants say what may go wrong. `Loss`: a published message may be lost (a
subscriber connects in the background and gets nothing before). `Slow`: an answer
may take longer than any timer. `Faults`: programs may fail, files be unreadable,
devices be switched off, and the user may stop the job. Time is left out: a timer
may run out when nothing is under way that would stop it, or always with `Slow`.

Simplifications. A service has at most one device of the job, as in the code, so a
device is named by its service; a device whose creation the scheduler never
heard of talks to nobody and is left out. Saving is one step.

The source prints a line for a task. With `Faults` it may stop after any number of
lines, and any of them may lack the colon behind the id, which makes it a task in
state ERROR (`AddInputData`). A line that is cut behind the colon is a task with other
data; the data of a task is not modelled. Ids are distinct. `WideIds` are the tasks whose
64 bit ids do not fit into an int: the scheduler reads them back with `atoi`, which is
taken to give INT_MAX or INT_MIN, or any int that is the id of no task, so that nothing is
found under it (`Found`). The sink may end at any time with `Faults`, with 0 or not.

### GypLoad, BuildFileSet

The state is that of `ParallelState`: `dependencies`, `scheduled`, `pending`, `error`
and the shared dictionaries; around it are the tasks given to the pool (`tasks`),
what each process works on (`running`), the `results` that wait for the result thread
and where the main thread stands (`main`). `Schedule`, `Wait`,
`Wake`, `Leave` and `Join` are the main thread in `LoadTargetBuildFilesParallel`;
`TakeTask` and `CallLoadTargetBuildFile` a process of the pool, which loads with a
*copy* of the dictionaries; `LoadTargetBuildFileCallback` the result thread;
`KeyboardInterrupt` the user. The serial load is a stack of calls
(`LoadTargetBuildFile`, `LoadDependency`, `Return`). A file's content is its name, so
that the merge of the includes shows which file came in and in which order.
`ImplementsBuildFileSet` shows that both ways to load keep the promise of
`BuildFileSet`.

### GypDicts, GypVariables

A tree is a function from paths to dictionaries. Strings are sequences of parts, text
or a reference with its phase, so `<(x)`, `>(x)`, `^(x)`, their list forms and
`<!(command)` are told apart without any characters. An error of gyp ends the evaluation (`failed`): a variable that is
not defined, a command that fails or that gyp does not know
(`FailingCommands`), a merge of incompatible types or list policies, a configuration with
a missing parent, no configuration that is not abstract, a filter that
is no list or of what is no list, a list of excluded items that is there already, an
unknown action of a pattern. A string that
a list expansion yields is split into words as `shlex.split` does it, at spaces and with the
quotes that `EncodePOSIXShellArgument` puts; escaped quotes inside a word are left
out. `SortedNames` is the alphabetical order that picks the default configuration. The
properties speak of evaluations that do not fail.

`GypVariables` is the stack of
calls of `ProcessVariablesAndConditionsInDict`: `Enter`, `LoadVariables`,
`ExpandString`, `StartConditions`, `EvaluateCondition`, `MergeCondition`,
`StartChildren`, `ProcessChild`, `Return`; between the phases are
`ConfigurationStage` (`SetUpConfigurations`) and `FilterStage`
(`ProcessListFiltersInDict`). The loops of the code go over dictionaries of
Python 2, in no order one could rely on, so each such loop takes its entries in every
order. Lists are named by their place, so that two references to one list are seen to
be the same Python object; `cache` and `runs` are the cached results of commands.

### DependencyGraph, GypTargets

A step of `GypTargets` is a stage of `Load`, in the code's order: `BuildTargetsDict`,
`QualifyDependencies`, `RemoveSelfDependencies`, `ExpandWildcardDependencies`,
`RemoveLinkDependenciesFromNoneTargets`, `FilterDependencies` (the list
filters, then duplicates), `VerifyNoGYPFileCircularDependencies`,
`BuildDependencyList`, `FlattenToList` node by node, `PruneUnwantedTargets`,
`VerifyNoCollidingTargets`, `DoDependentSettings` once for each kind of settings,
`AdjustStaticLibraryDependencies`, and `Validate` (sources, rules, `run_as`, actions)
with the files the rules match. `failure` is the error that ends the load, a `GypError` or
a `KeyError` (a wildcard for a build file that was not loaded, an exported dependency that
is no target) or an `AttributeError` (a pattern among the dependencies). Settings are lists of names that tell which target they come from, which is
all that matters for where they arrive. Settings for dependents may hold link settings.
Settings for direct or for all dependents inside settings for dependents are left out: of the
`.gyp` files of the repository none has them (one has link settings inside direct ones).

The recursive walks over the nodes are loops here, so that they can be reasoned about.
`Walk` has the nodes it found and those it still has to look at, in the order of the
recursion: what a node leads to comes before the rest. `DeepDependencies` and
`LinkDependencies` (`_LinkDependenciesInternal`) are such walks; they need at most one turn
for each target. `DirectAndImportedDependencies` is the code's loop over a growing list.
`Paths` are all the paths that `FindCycles` takes.

### The generators and GypBuild

A generator is an operator that turns the target list and dictionaries into *steps*: the
files made, the files that make them out of date, and the files that only must be
there first. Text of commands, flags, settings, identifiers and layout is left out;
which files depend on which is all kept: action, rule and copy steps with their
stamps, order-only and implicit dependencies, precompiled and prefix headers, bundles and
frameworks, tables of contents of shared libraries, component objects, shards,
program databases, the hard dependencies and `none` targets, the group tree and the
build phases of Xcode, the projects and solutions of Visual Studio.

`NinjaGenerator` and `MakeGenerator` write what these tools run. For Android, CMake,
Visual Studio and Xcode the rules that compile and link are those of the other tool;
they are modelled from what the generator sets for them and are marked external.

`GypBuild` composes it all. `Generate` calls the generator; `RunStep` is a build system
that runs any step for which everything it waits for is made; `EditSource` changes a
source after a complete build, with or without a change of its interface; `RerunStep`
is the next build, which runs the steps with an input that is newer, knows the headers
the compilers reported, and leaves an unchanged output of a `restat` rule alone. The
headers a source includes are part of the project; no generator knows them.

`Analyzer` has the walks of `analyzer.py` as they are, recursive and through sets in
any order: a frame of the recursion has the target and those it still has to look at;
`StartAnalysis`, `VisitTarget` (`_GenerateTargets`), `SearchTarget`,
`DoesTargetDependOn`, `NoDependencyMatches` (`_DoesTargetDependOn`), `GetBuildTargets`,
`VisitBackDep`, `AddBuildTarget` (`_AddBuildTargets`). `AnalyzerSpec` is `Load` and then the
analyzer; in `GypBuild` it is one generator among others.

## Runs

| Run | Instance | Shows |
|---|---|---|
| `master` | 2 tasks in an order that is not the order of the ids, 2 machines, 2 starts, a faulty disk | the safety properties of the master and that it implements `JobCheckpoint` |
| `system` | 3 tasks, 1 worker process with 2 loops and batches of 2; all faults, 2 starts, a working disk | the running count and the batches are right, the file is complete when Finish is called, and the job implements `DpeMaster` (a worker is a client as the master's model assumes) |
| `live` | 3 tasks, 2 processes with one loop each, one with batch size 1 and one adaptive, no faults, fairness | the job ends |
| `threads` (violation) | 1 process with 2 loops, no faults | see the finding |
| `arithmetic` | `batch_size` -3, times on both sides of every limit; ranges in -3..6, empty and inverted ones too, blocks up to longer than the range | the batch fits the time and uses it; the tasks partition the range, and a loop over them misses its end only for a range that is inverted by two blocks |
| `http` | 4 connections (two pages, quit, silent), 2 exits, one wait that may run out | right answers, no write to a dead response, an orderly Stop that returns |
| `scheduler` | 2 services, 2 tasks, messages lost and slow, worker to be compiled | queues, task states and devices agree; a DoTask finds its device idle |
| `one_device` | 1 service, 3 tasks, one with a 64 bit id, messages lost, every fault, a source that prints too little or broken lines, the job started twice, fairness | results are right, also after a save and a load; the sink gets them once and line by line; no device outlives its job; a job that never ends waits for one of the things the code does not repeat (`Waits`) |
| `gyp_load` | up to 3 build files with their includes and one include of the command line, bad files, serial or 2 processes, an interrupt, fairness | what is counted as pending is under way; what is loaded is reachable, complete and once; an implementation of `BuildFileSet`; the load ends |
| `gyp_variables` | targets with variables of all three phases, commands, nested conditions, target conditions, configurations that inherit, list filters; every order of the keys; inputs on which gyp raises its errors, and their neighbours | no reference of a finished phase is left; configurations are complete; the last matching filter decides |
| `gyp_build` | small projects for each generator and platform, cyclic and refused ones too; every order of the build steps; one edit and the next build; sets of changed files for the analyzer | ten properties of gyp's output, below |
| `hard_dependencies` (violation) | the graphs of `gyp_build` | see the findings |

What `gyp_build` checks, of Load: `DependenciesComeFirst` (the flat list), `CyclesAreFound`,
`SettingsReachTheirTargets` (direct, all and link settings arrive at exactly those
that a definition over paths of the graph names), `AdjustedDependenciesAreSafe` (what
`AdjustStaticLibraryDependencies` leaves out is not needed for linking or for order).
Of every generator: `OneProducer`, `EverythingCanBeMade`, `ReadsFilesThatExist`
(whatever order is chosen), `FinishedBuildIsComplete`, `RebuildIsAsGoodAsClean`. Of
the analyzer: `AnalysisCoversChanges`, for every order in which it goes through its
sets.

Bounds. For the master, two tasks and two clients suffice for every interesting order: one task
done and one not, a report by the wrong client, a partial batch. Two starts give a
restart with a file left by any crash; a third start begins in the same set of
files. Every order in which the two requests and one restart interleave is
explored. Requests carry any `max_task_count` up to 2, which is more than, equal
to and less than what is pending.

In the runs of dpe_service `MaxInitSends` is 2 instead of 21: one InitJob and one
repetition, the least that shows what a repetition does; a third is answered like
the second. Two services are needed for a task to move from one device to another
and for a device that is not first in the list; three tasks for one service, so
that a device gets tasks before, between and after others. Two starts of the job
give a load of what an earlier start saved.

For gyp, three build files give a dependency of a dependency, one that two files share, and
a cycle; two processes are what it takes for results to arrive out of order. The graphs
of `gyp_build` have up to four targets of every type: a chain through a static and a
shared library, a diamond, a cycle, a hard dependency behind a static library. The
build projects are one for each feature whose dependencies a generator has to carry
through: generated headers, generated sources of collapsed and single rules, programs
run by actions, copies, two toolsets, precompiled headers, shards, shims, component
objects, IDL, frameworks, bundles, resources, translations, test runners. Each is run
with every generator that supports it. `MaxExpansion` is the depth at which Python
gives up a recursion; no input of the run reaches it.

The known misbehaviours under "Observed behaviours" need particular inputs; the
projects of `gyp_build` avoid those, but for the export without a dependency; the model
does not.

Deadlock is not checked where a job is meant to end: the processes stop.

### Fairness

`FairSpec` of `DpeSystem`: weak fairness of the poll thread and the UI thread of
the master, and of the UI thread, the ZMQ thread and the blocking pool of every
worker. These are threads that block only on their own queues, so they run as long
as their process does. Fairness towards *each* client in receiving is what the
router socket gives (it queues fairly over its peers). Nothing is assumed of
faults; `live` runs without them because the protocol has no retries: one lost
report means that the job never ends, which is by design of the code. `HttpServer`
assumes weak fairness of its two threads only. `FairSpec` of `DpeScheduler`: the UI
threads handle what arrives, every timer that is set fires, and the processes that
were started end (a worker that never ends keeps its job waiting; the code has no
limit for it): the source by itself, the sink once it was given the results. Nothing is
assumed of messages, so that a job may wait for ever for a lost one.
`JobEndsUnlessItWaits` says that this is the only way: a job that stays RUNNING for ever
ends up, for ever, in one of the cases of `Waits`. `FairSpec` of `GypLoad`:
weak fairness of the main thread, of each process of the pool and of the result
thread; the interrupt by the user is not fair.

### Findings

`threads`: a worker with more than one loop may leave with tasks it has taken.
A loop that is told there are no more tasks exits the process if
`running_task_count_` is 0, but another loop's tasks may just be on their way;
the README of dpe says a worker executes the tasks it asked for. The master then
holds them RUNNING for ever.

`hard_dependencies`: `AdjustStaticLibraryDependencies` takes the dependencies on
other static libraries away from a static library. Its comment (`input.py` 1914-1921) says that
a hard dependency which such a library exports must be added, to keep the order. The
loop (1931-1938) keeps an imported hard dependency only if it is a static library. A hard
target of another type, typically a `none` target that generates headers, is dropped with
the library that exported it, and the static library may be compiled before the headers
are there. `HardStaticDependenciesStay`, part of `AdjustedDependenciesAreSafe`, is what
does hold, and is proved.

### Observed behaviours

Met while modelling and proving. The modules contain each of them, and the instances of
the runs avoid them, unless it says otherwise.

dpe and dpe_service:

* `WritesLiveResponse` holds only as long as no wait has run out. If the UI thread
  needs more than ten seconds, the HTTP thread gives up, and the handler, when it
  runs, writes to a response that is gone; `http` shows that this is the only way.
* InitJob is sent again after 100 ms (`dpe_scheduler.cc` 244-247). A device that is
  compiling, or done with it, answers the repetition with an error
  (`dpe_device_impl.cc` 263-267), and the error fails the remote device (450) although
  it works, also after it was given a task. The task then stays in the running queue
  for ever, since only the task of a device in state RUNNING is put back. A worker
  that takes longer than 100 ms to compile always runs into this.
* Removing a lost device from `device_list_` does not end unless it is the first of
  the list (`dpe_scheduler.cc` 611): the iterator is not advanced, and the UI thread of
  the service is stuck. The variable `hung` records it.
* A DoTask or its answer that is lost is not sent again, a lost device is not replaced as
  long as its creator holds it, and a task that was put back is handed out only when some
  device becomes available. In each of these cases the job waits for ever. They are the
  cases of `Waits`; `one_device` has them all but those that need a second device.
* A line of the source without a colon becomes a task in state ERROR
  (`dpe_project.cc` 36-39). It is not run, but it is not left out either: the sink gets an
  empty line for it, and the job succeeds. `SinkGetsEveryResult` says so. The exit code of the
  source is not looked at (`dpe_scheduler.cc` 838), so that a source that dies half way
  gives a job with fewer tasks.
* The scheduler accepts exit code 0 of the sink at any time (`dpe_scheduler.cc` 881-890), also
  before the results were written: the job has succeeded then without a result.
* The ids of tasks have 64 bits, but the scheduler reads the id of a device's task with `atoi`
  (745, 770, 791). A result for an id that does not fit into an int is thrown away, the task is
  never found again, and the job waits.
* `RangeBasedTaskGenerator` does not check that a range begins before it ends
  (`dpe_util.h` 27). For one that ends two blocks or more before it begins, `end()` is before
  `begin()` and a loop that compares with `!=` does not stop. `arithmetic` has such ranges.

gyp, loading and targets:

* A list that is the value of a variable is expanded in place, so what is expanded in
  one place shows up in the other (`input.py` 956-960); the comment at 1261 and the
  docstring at 1169-1171 count on the opposite. `SharedListInputs` of
  `MCGypVariables` is such an input.
* `FindCycles` starts at the files without dependencies. If every file is in or behind a
  cycle there are none, and the error message lists no cycle.
* The filters may remove a dependency and leave its export, since `QualifyDependencies` has
  checked the exports before (`input.py` 1368-1373). If the exported target was pruned or never
  existed, `_AddImportedDependencies` (1616) ends with a `KeyError`, which is the failure
  "export not found". If it is a target, `AdjustStaticLibraryDependencies` may make a static
  library depend on one that is listed after it, or on itself. That is why
  `AdjustedDependenciesComeEarlier` assumes that exports are dependencies. The projects of
  gyp_build have both cases; without the assumption TLC finds the property violated.
* A non-empty `dependencies/` or `export_dependent_settings/` always ends with an
  `AttributeError`: `QualifyDependencies` (1355-1361) takes the items of these lists, which
  are an action and a pattern, for target names, before the filters could use them.

gyp, generators:

* ninja: the docstring of `FinalOutput` (186) says the output depends on all prior steps. A
  program or shared library depends on the actions of its target only through its compile
  steps, so not when it is linked from finished objects alone.
* ninja: when `WriteRules` collapses the inputs of a rule it sets `prebuild = []` (676) for
  the rules after it too: these no longer wait for what the target depends on.
* ninja: two sources `a.c` and `a.cc` of one target have one object file, two `.idl`
  files one `dlldata.c`, and programs of the same name in two directories or two
  toolsets one binary. A Mac library for several architectures has no table of
  contents.
* `InsertLargePdbShims` (`MSVSUtil.py` 258-261) puts the shim target in front of the copy
  target it depends on, although the comment asks for the order that the ninja generator
  needs. The shim is written before its dependency and gets no order from it; it waits for
  the copy all the same, because the copied file is its source.
* android: with `limit_to_target_all` (1052) a target that was left out has no module, and a
  target that depends on it raises a `KeyError`.
* cmake: the "unambiguous" full name of `CreateCMakeTargetFullName` (565) is the same for
  two targets whose file and name run together to the same text.
* msvs: actions with the same first input become one custom step, which may then wait for
  its own output (the docstring of `_AddActionStep`, 372-380, asks for care with overlapping inputs). A
  source that is also the first input of an action is not compiled. With
  `msvs_list_excluded_files=0` the 2008 format raises in `AddFileConfig`.
* xcode: copy phases are inserted in front one by one, so they run in reverse order, and a
  copy of a copied file fails. `PerformBuild` (561-576) builds the last project file
  only. Two actions of one name give one identifier, the same file twice in a phase a
  `ValueError`, and rules of one name one makefile (the TODO at 946-949).
* analyzer: a matching target of type `none` without actions that is reached by
  recursion first is not added, so the answer depends on the order. Copies and resources
  do not count as sources. A name that occurs in several files or toolsets stands for an
  arbitrary one of them. `''.split('/')` has one component, so `../x` from a build file
  at the top counts as `x`.

## Proofs

TLAPS checks all proofs; nothing is assumed but the named assumptions on the
constants: the task ids are distinct integers (the code fails otherwise), a client
has a machine, a task an answer, the bounds are numbers, a process has finitely many
loops, and the values that stand for "no page" and "no file" are no pages and no files; the
build files of a project are finitely many, and what they say of a target are lists where
gyp takes it for lists (`ProjectsAssumption`); and the analyzer does not ask for adjusted static
libraries (`AnalyzerAssumption`, `analyzer.py` 59).

`DpeSystem_proofs` has the proofs of all of dpe but its http server.

**DpeMaster.** `TypeCorrect` proves the type invariant. The safety properties are
not inductive by themselves. `Inv` adds what they rest on:

* `ReportsAreRight`, `ResultsAreRight`: what is in a received report and in the
  task map is right, hence what is told and saved (`SolverToldOnce`,
  `SavedResultsAreRight`) is right;
* `StartsFresh`: nothing is told, running or finished while Start runs, although
  a request may already wait;
* `OwnersAreUnique`: a pending task is on no worker's list. Without it, GetTask
  could give a task a second owner;
* `ExitFollowsFinish`: the shape of the UI queue. At most one request is posted,
  an exit is posted exactly from the first Finish on, and a second Finish needs a
  request in front of that exit. This bounds the calls of Finish by two.

`Invariance` shows `Spec => []Inv` with one step per action; `QueuesMatch`,
`ToldOnce`, `FinishIsLast`, `FinishTwiceAtMost`, `OneOwner`, `FileIsRight` and
`FinishIsSaved` follow. `FinishIsLast`, `FinishTwiceAtMost` and the type invariant are
proved for every instance and no run repeats them.

**JobCheckpoint.** `ImplementsCheckpoint`: with `known` the tasks the Solver was
told of, `saved` the tasks DONE in the file and `announced` whether Finish was
called, every step of the master is a step of `JobCheckpoint` or a stutter.

**BatchTime.** For every `batch_size` and every measured time a worker asks for 1
to 100 tasks (`AskedIsBounded`), a batch that is not a single task fits the time
(`FitsTime`) and is at most two tasks short of it (`UsesTime`).

**RangeTasks.** For every range and block size, each number belongs to exactly one task
when the loop over them ends, and it misses its end only for a range that ends two blocks or
more before it begins (`TasksPartitionRange`). Unless the range is inverted the tasks are
non-empty blocks inside it (`TasksAreBlocks`, which no run repeats). The number of blocks is a
division that rounds towards zero, so ranges with a positive, a zero and a negative number of
blocks are told apart (`LastTaskBounds`, `LastTaskInverted`).

**DpeSystem.** `DpeMaster` lets its clients report whatever they were handed.
`JobImplementsMaster` shows that the real workers, with their loops, their UI threads,
lost, late and repeated messages and crashes, are such clients: the job implements
`DpeMaster`, and its theorems hold of the job (`JobTellsOnce`, `JobIsSaved`). The
invariant `WorkerInv` says: what is in a reply, in an event, in a batch and in a request
are tasks the master handed to that loop (`WorkersAreGivenTasks`); a loop has at most one
closure on its UI thread and its state tells which (`LoopsMatchEvents`); the loops of a
process that is not there do nothing (`LoopsMatchProcess`); the counter is the number of
computing loops (`CountsMatch`); and no request, reply, event or batch is larger than the
batch size (`SizesRespected`). `LoopsMatchEvents` is what makes the count inductive:
with two closures of a loop, one of them would count it down twice. `CountIsRight` follows,
and with `HandedOnce` (a pending task was not handed out in the first life of the
master) `BatchesRight`.

**HttpServer.** One event wakes the thread for an answer and for Stop, so that none of
`AnswersAreRight`, `WritesLiveResponse`, `OrderlyStop` is inductive. `IInv` adds: a page is
waiting, being served or answered, never two of them (`EachPageOnce`); the request in the
UI queue is the one the thread waits for (`OneRequestAtATime`); the response is empty until
the handler ran (`ResponseIsCurrent`); before Stop a set event means that the handler ran
(`EventMeansHandled`); how handler, flag and UI queue follow the phases of Stop
(`StopOrder`); and a request outlives its thread only when there is no handler for it, unless
a wait ran into its limit (`LeftOverIsHarmless`). `BrowsersGetTheirPage`,
`HandlerWritesLiveResponse` and `StopIsOrderly` follow, for any pages and any backlog.

**DpeScheduler.** The state of a device is kept twice, by the device and by the scheduler,
with two channels between them. `DeviceInv` is the core: of a task on its way to a device,
its answer on the way back and "taken for idle" at most one holds (`OneAtATime`), and a
device that was given a task is taken for busy or failed until its answer is handled
(`GivenIsBusy`). `TaskInv` ties the queues, the states of the tasks and the devices' tasks
together, with `ReducedOnce` (ReduceResult is posted once, when nothing is left) and
`NothingBefore` (nothing to do before the source ended or after the job); `ListedOnce` keeps a
service from having two devices. `EmptyBefore` says that a task of a running job which is not
finished has no result: that is why a line which is no task gives an empty line and nothing
else. `TasksAccounted`, `ResultsRight`, `SinkGetsAll` and
`DeviceIsIdle` follow for any number of services, devices and tasks, whichever lines are
malformed and whichever ids are wide.

**GypLoad.** `LoadInv` holds of serial and of parallel loading. A file is at one place only of
the pool: waiting, with one process, or with its result (`OnePlace`); what is loaded was
named by the command line or by a file that was loaded (`NamedOK`); the data of a loaded
file, and of a result that waits, is what evaluating it gives (`DataOK`, `ResultsOK`); the
files scheduled in parallel are those that were named, each in the queue, in the pool or
loaded; the counter of the parallel loop is the number of calls without an entered
result (`ParallelOK`), and the stack of the serial loading holds what is left to load
(`SerialOK`). From it follow `PendingCounts`, `LoadsReachable` (a good end
means that the loaded files are the reachable ones: they are closed under "names", and the
reachable files are the least closed set) and `ImplementsSet`, the refinement of
`BuildFileSet`, with the loaded files, the known files and the outcome for its state.

**DependencyGraph.** `DependencyGraph_proofs` takes the graph by itself: begin with a finite
graph, begin again with another, take turns of the loop (`FlattenSpec`), and, once the loop
has ended, prune the list to a set that is closed under dependencies (`ListSpec`). The
invariant: what waits in `in_degree_zeros` may be listed (`Ready`), and, for `FlattenSpec`,
what may be listed is listed or waits (`NothingForgotten`). `ListsDependenciesFirst` holds
whatever `set.pop` returns. `ShortListIsCycle` is what BuildDependencyList and
VerifyNoGYPFileCircularDependencies rely on: the list is shorter than the graph exactly when
there is a cycle, and the missing nodes hold one. Pruning makes lists short on purpose, so
that theorem is one of `FlattenSpec`.

**GypTargets.** All of `Load`, for every project that satisfies `ProjectsAssumption`.
None of its properties is inductive: each speaks of one stage, and what makes it
true was done in earlier ones. `LoadInv` says for every stage what holds by then:

* the dictionaries are well formed and finitely many (`Dicts`), and carry the settings of the
  build files until the first settings are merged (`AsWritten`);
* dependencies and exports have no repetitions from the filters on (`NoRepeats`), which bounds
  the loop of `DirectAndImportedDependencies` by the number of targets;
* the nodes of the graph are the targets' dependencies, which are targets
  (`NodesAreDependencies`), and the list is exactly the targets, also after pruning
  (`ListIsTargets`, with the invariants of `DependencyGraph_proofs`);
* what was merged after each kind of settings (`AfterAll`, `AfterDirect`, in `Published`). The
  link settings a target passes on are complete only when the two other kinds have been
  merged, which is what makes the code's order of the three kinds matter;
* exports lead to targets (`ExportsFound`), which is known once the stage that would have
  failed has passed;
* the adjusted dependencies are safe (`AdjustedSafely`).

`LoadInvariant` proves it with one lemma per stage. `LoadListsDependenciesFirst`,
`LoadFindsCycles`, `LoadPublishesSettings` and `LoadAdjustsSafely` follow. The properties
compare with least closed sets (`Closure`), the code walks: the lemmas on `Walk` and on
`DirectAndImportedDependencies` show that a walk of as many turns as there are targets finds
the closure. They are inductions over the turns: a turn that finds nothing is the last, and
there are no more turns that find something than targets. The order of linking
(`LinksAreComplete`) and that nothing depends on a later target
(`AdjustedDependenciesComeEarlier`) rest on the order of the flat list.

`LastMatchDecides` is about the list filters by themselves (`Kept`, `Excluded` of `GypLists`,
which `GypTargets` and `GypDicts` use): for every list, exclusion list and sequence of patterns
the last pattern that matches an item decides, and the exclusion list if none does.

**Analyzer.** `AnalyzerCoversChanges`: the answer is right for every project, every set of
changed files, every set of names and every order of the walks. The recursions are stacks of
frames, so the invariant `AnalyzerFacts` says, phase by phase, what a call has established so
far:

* `Generating`: an object that was visited says what its dictionary says, the back
  dependencies are those of visited targets, and what was not visited is on the stack;
* `Searching`: a match status that is set is true (`StatusIsTrue`), and of a frame, nothing that
  it has looked at is affected (`LookedFor`). The statuses outlive a search, so each search
  relies on those before it;
* `Building`: a target is finished when it was visited and is in no frame. Of a finished target
  the two marks are right and all its dependents are finished (`Right`); a frame has handed
  to its target what is known of the dependents it has been at (`Handed`). That a call never
  meets a target whose call is still under way, whose marks would be half set, holds because
  the graph has no cycle: inner frames are of targets that are listed later (`Ordered`),
  which uses `LoadInv`;
* `Covers`: the answer.

**QueueFacts.** Queues as the UI threads and channels use them (Append, Head and Tail; at
most one message of a kind), the number of elements of a list without repetitions, and
what `Select` returns: the elements of the set, all of them, in their order. The last one is
an induction, done with a set of natural numbers (`NatInductionSet`), because the provers
cannot instantiate an induction theorem with a predicate. `SelectSeq` is opaque to them, hence
`Select`. `IntervalInduction` and `LoopFacts` do the same for the loops of gyp: a function on
0..n of which each value is made from the one before (`IsLoop`) keeps what every turn keeps
(`GoodTurns`, `StaysGood`), with the invariant of the loop given as a set of good values.
`FilesRead` and `Reachable` of `GypLoad` are defined as least closed sets and
need no induction.

**Model-checked only.**

* Liveness (`JobEnds`, `JobEndsUnlessItWaits`, `ExitGetsDone`, `DevicesClose`, `LoadingEnds`): the prover has neither
  fairness nor ENABLED.
* The properties of `GypVariables` (`PhaseLeavesNothing`, `ConfigurationsAreComplete`,
  `FiltersMeanTheLastMatch`). Expansion is mutually recursive over trees that change while they
  are visited, defined with RECURSIVE operators that the provers cannot expand; an
  induction over such trees is out of their reach. `PhaseLeavesNothing` is also not true of
  every input: a list that is shared between two places may be expanded too late or
  too early (see the observed behaviours), and the run leaves such inputs out. Of
  `FiltersMeanTheLastMatch` the part about one list is proved (`LastMatchDecides`); that the
  filters are applied to every list of the tree is model-checked.
* The properties of builds (`OneProducer`, `EverythingCanBeMade`, `FinishedBuildIsComplete`,
  `RebuildIsAsGoodAsClean`, `ReadsFilesThatExist`). They are not true of every project: two
  sources may have one object file, two targets one product, and the generators have the
  exceptions listed above. A theorem would need a predicate for good projects that
  repeats the generators. `GypBuild` and `XcodeGenerator` also use RECURSIVE operators. What the
  builds rest on, the list, the settings and the dependencies that generators get, is proved.
* That `GypBuild` does nothing with the variables of `Load` and of the analyzer but the steps
  of `AnalyzerSpec` is seen from its next-state relation; gyp_build checks the proved
  properties on all of it.

## Not modelled

Command lines, file formats, HTTP headers and JSON are string work; statistics of
the workers influence nothing. A Solver without tasks is excluded (the code takes
the address of the first element of an empty vector, `dpe_master_node.cc` 34). A worker
with `batch_size` 0 prints an error and leaves with what it was handed: like a crash.

Parts that are left out, with what is delicate in them:

* The inside of the ZMQ client and server, beyond what dpe uses: times are kept in a
  signed 32 bit tick count (`zmq_client.cc` 385); after the handlers ran every context
  that is PROCESSING is set to LISTENING (`zmq_server.cc` 462); `StopServer` closes a
  socket that may be polled (254). The effect on the outside is a lost or late request,
  which `DpeSystem` has.
* The message center (`msg_center.cc` 536: handlers may change the list that is walked) and
  `RepeatedAction` (`repeated_action.cc` 85: ticks posted before a restart of the timer).
* The two files of a dpe_service project with their backups and checksum, and a process
  that dies between them (`dpe_project.cc` 152, 173); a compiled worker older than its
  source (`dpe_device_impl.cc` 329).
* remote_shell and the process library (`command_executor.cc` 95: output and end of a
  command). The status page (`web/index.html` 158: overlapping refreshes).
* Of gyp: parsing of `.gyp` text, options and environment variables; compiler and linker
  flags, quoting and environments; the identifiers and the text of project files; the
  tables that convert settings between formats of Visual Studio (`MSVSSettings.py`); the
  tools that run inside a build step (`mac_tool.py`, `win_tool.py`); the generators that
  only print what was loaded (eclipse, gypd, gypsh, dump_dependency_json). These are text and
  wrappers of other programs without state of their own.
* `src/src/tools/pylib_dbg`: a copy of gyp's `input.py` and `__init__.py` with print
  statements commented out. What is said of gyp is said of it.
