------------------------------ MODULE GypLoad ------------------------------
(***************************************************************************)
(* How gyp, the generator of this project's build files, loads its input   *)
(* (src/tools/gyp/pylib/gyp/input.py).  A target build file (.gyp) is      *)
(* parsed, the files it includes (.gypi) are merged into it, and the files *)
(* its targets depend on are loaded too.  With parallel loading, which is  *)
(* the default, the main thread hands one file after the other to a pool   *)
(* of processes; the pool's result thread enters what a process found into *)
(* the shared dictionaries, under a condition variable the main thread     *)
(* waits on.  Without it the files are loaded depth first.                 *)
(*                                                                         *)
(* A file's content is its name: a loaded file is the sequence of files    *)
(* merged into it, the files that contributed, the DEPTH it was evaluated  *)
(* with and the files its targets depend on.                               *)
(***************************************************************************)
EXTENDS GypLists, FiniteSets

CONSTANTS GypFiles,      \* .gyp files, which contain targets
          GypiFiles,     \* .gypi files, which are included
          BuildFiles,    \* the .gyp files named on the command line
          CmdIncludes,   \* the .gypi files of -I, included into every .gyp
          Workers,       \* the processes of the pool
          Disks          \* the contents of the files that are considered

Files == GypFiles \cup GypiFiles
None == "none"      \* no file

\* A file is included or loaded for its targets, never both: what is merged
\* into another file is the plain content of an include.
ASSUME LoadAssumption ==
    /\ GypFiles \cap GypiFiles = {}
    /\ BuildFiles \subseteq GypFiles
    /\ BuildFiles # {}
    /\ CmdIncludes \in Seq(GypiFiles)
    /\ IsFiniteSet(Files) /\ IsFiniteSet(Workers)
    /\ None \notin GypFiles
    /\ \A disk \in Disks : \A f \in Files :
          /\ disk[f].ok \in BOOLEAN
          /\ disk[f].includes \in Seq(GypiFiles)
          /\ disk[f].deps \in Seq(GypFiles)

VARIABLES
    disk,               \* what open() finds under a path
    parallel,           \* the option of the same name
    main,               \* where the main thread stands
    \* ParallelState
    pending, scheduled, dependencies, error,
    \* data, aux_data and data['target_build_files'] of the main process
    data, auxData, targetBuildFiles,
    depthVar,           \* variables['DEPTH'] of the main process
    tasks,              \* calls handed to the pool, not yet taken
    running,            \* what each process of the pool works on
    results,            \* results the result thread has not handled
    stack               \* the calls of LoadTargetBuildFile under way (serial)

poolVars == <<pending, scheduled, dependencies, error, tasks, running, results>>
dataVars == <<data, auxData, targetBuildFiles>>
vars == <<disk, parallel, main, poolVars, dataVars, depthVar, stack>>

Idle == [file |-> None, loaded |-> {}]

-----------------------------------------------------------------------------
(***************************************************************************)
(* Reading one file.                                                       *)
(***************************************************************************)
\* The includes of f, in the order they are merged: those of the command line
\* are only added to a target build file.
IncludesOf(f) ==
    (IF f \in GypFiles THEN CmdIncludes ELSE <<>>) \o disk[f].includes

\* LoadBuildFileIncludesIntoDict merges every include, with what is merged
\* into it, behind the file's own content.
LoadBuildFileIncludesIntoDict[f \in Files] ==
    LET includes == IncludesOf(f)
        merged[i \in 0..Len(includes)] ==
            IF i = 0 THEN <<f>>
            ELSE merged[i - 1] \o LoadBuildFileIncludesIntoDict[includes[i]]
    IN  merged[Len(includes)]

\* What LoadOneBuildFile reads: f, its includes, what those include, and so on.
FilesRead(f) ==
    {g \in Files : \A S \in SUBSET Files :
        f \in S /\ (\A x \in S : ToSet(IncludesOf(x)) \subseteq S) => g \in S}

\* LoadOneBuildFile raises when a file does not exist, does not parse or is
\* not a dictionary, and the exception passes through every caller.
Raises(f) == \E g \in FilesRead(f) : ~disk[g].ok

\* GetIncludedBuildFiles: the file and its includes, each once, in the order of
\* the recursion over what was noted in aux_data.
GetIncludedBuildFiles(f) == Unify(LoadBuildFileIncludesIntoDict[f])

\* The entries LoadOneBuildFile adds to data, a dictionary that has entries.
\* An include that is in it is not read again.
LoadOneBuildFile(f, entries) ==
    [g \in DOMAIN entries \cup FilesRead(f) |->
        IF g \in DOMAIN entries THEN entries[g]
        ELSE [parts |-> LoadBuildFileIncludesIntoDict[g], depth |-> None,
              included |-> <<>>]]

AuxEntries(f) == [g \in FilesRead(f) |-> IncludesOf(g)]

\* The rest of LoadTargetBuildFile up to the search for dependencies: the
\* toolsets, early expansion and target_defaults work on the dictionary in
\* place, with the DEPTH of the moment.
Evaluated(f, entries, depth) ==
    [LoadOneBuildFile(f, entries) EXCEPT ![f].depth = depth,
                                         ![f].included = GetIncludedBuildFiles(f)]

\* The build files the targets of f depend on.
Dependencies(f) == disk[f].deps

-----------------------------------------------------------------------------
(***************************************************************************)
(* Parallel loading.                                                       *)
(***************************************************************************)
\* dependency = dependencies.pop(); apply_async(...): the call carries the set
\* of files loaded so far, which the pool's task thread copies later.
Schedule ==
    /\ parallel /\ main = "loop" /\ ~error
    /\ dependencies # <<>>
    /\ dependencies' = Front(dependencies)
    /\ pending' = pending + 1
    /\ tasks' = tasks \cup {Last(dependencies)}
    /\ UNCHANGED <<disk, parallel, main, scheduled, error, running, results,
                   dataVars, depthVar, stack>>

\* condition.wait() with nothing to hand out but calls outstanding.
Wait ==
    /\ parallel /\ main = "loop" /\ ~error
    /\ dependencies = <<>> /\ pending > 0
    /\ main' = "waiting"
    /\ UNCHANGED <<disk, parallel, poolVars, dataVars, depthVar, stack>>

\* A notified main thread gets the lock back.
Wake ==
    /\ main = "notified"
    /\ main' = "loop"
    /\ UNCHANGED <<disk, parallel, poolVars, dataVars, depthVar, stack>>

\* Mutation: the loop does not wait for calls that are outstanding.
LeaveEarly ==
    /\ parallel /\ main = "loop"
    /\ error \/ dependencies = <<>>
    /\ main' = "joining"
    /\ UNCHANGED <<disk, parallel, poolVars, dataVars, depthVar, stack>>

\* The loop ends: the lock is released, the pool is closed and joined.
Leave ==
    /\ parallel /\ main = "loop"
    /\ error \/ (dependencies = <<>> /\ pending = 0)
    /\ main' = "joining"
    /\ UNCHANGED <<disk, parallel, poolVars, dataVars, depthVar, stack>>

\* Mutation: an error that comes while the pool is joined is not looked at.
JoinWithoutError ==
    /\ main = "joining"
    /\ tasks = {} /\ results = {} /\ \A w \in Workers : running[w] = Idle
    /\ main' = "done"
    /\ UNCHANGED <<disk, parallel, poolVars, dataVars, depthVar, stack>>

\* pool.join() returns when every call that was handed out has been handled;
\* then an error ends the program.
Join ==
    /\ main = "joining"
    /\ tasks = {} /\ results = {} /\ \A w \in Workers : running[w] = Idle
    /\ main' = IF error THEN "failed" ELSE "done"
    /\ UNCHANGED <<disk, parallel, poolVars, dataVars, depthVar, stack>>

\* Ctrl-C while the main thread runs: the pool is terminated.
KeyboardInterrupt ==
    /\ parallel /\ main = "loop"
    /\ main' = "interrupted"
    /\ tasks' = {} /\ results' = {}
    /\ running' = [w \in Workers |-> Idle]
    /\ UNCHANGED <<disk, parallel, pending, scheduled, dependencies, error,
                   dataVars, depthVar, stack>>

\* A process takes a call; it has the files that were loaded when the call was
\* copied for it.
TakeTask(w) ==
    /\ running[w] = Idle
    /\ \E f \in tasks :
          /\ tasks' = tasks \ {f}
          /\ running' = [running EXCEPT ![w] =
                            [file |-> f, loaded |-> targetBuildFiles]]
    /\ UNCHANGED <<disk, parallel, main, pending, scheduled, dependencies, error,
                   results, dataVars, depthVar, stack>>

NoEntries == [g \in {} |-> None]

\* CallLoadTargetBuildFile in process w.  The result is false when the file is
\* among those already loaded, and None when an exception was caught; the
\* callback takes both for an error.
CallLoadTargetBuildFile(w) ==
    /\ running[w] # Idle
    /\ LET f == running[w].file
       IN  results' = results \cup
               {IF f \in running[w].loaded \/ Raises(f)
                THEN [file |-> f, ok |-> FALSE]
                ELSE [file |-> f, ok |-> TRUE, data |-> Evaluated(f, NoEntries, f),
                      aux |-> AuxEntries(f), deps |-> Dependencies(f)]}
    /\ running' = [running EXCEPT ![w] = Idle]
    /\ UNCHANGED <<disk, parallel, main, pending, scheduled, dependencies, error,
                   tasks, dataVars, depthVar, stack>>

\* Entries of `new` replace those of `old`.
Updated(old, new) ==
    [g \in DOMAIN old \cup DOMAIN new |->
        IF g \in DOMAIN new THEN new[g] ELSE old[g]]

\* Mutation: what was scheduled is scheduled again.
NewDependenciesAgain(deps) == Unify(deps)

\* The dependencies of a result that were not scheduled before.
NewDependencies(deps) == Select(Unify(deps), GypFiles \ scheduled)

\* Mutation: the condition variable is not notified.
NotifyNobody == UNCHANGED main

Notify == main' = IF main = "waiting" THEN "notified" ELSE main

\* The result thread calls the callback, which needs the lock: the main thread
\* has it unless it waits, was notified and waits for the lock, or has left.
LoadTargetBuildFileCallback ==
    /\ main \in {"waiting", "notified", "joining"}
    /\ \E r \in results :
          /\ results' = results \ {r}
          /\ IF r.ok
             THEN /\ targetBuildFiles' = targetBuildFiles \cup {r.file}
                  /\ data' = Updated(data, r.data)
                  /\ auxData' = Updated(auxData, r.aux)
                  /\ scheduled' = scheduled \cup ToSet(r.deps)
                  /\ dependencies' = dependencies \o NewDependencies(r.deps)
                  /\ pending' = pending - 1
                  /\ UNCHANGED error
             ELSE /\ error' = TRUE
                  /\ UNCHANGED <<dataVars, pending, scheduled, dependencies>>
    /\ Notify
    /\ UNCHANGED <<disk, parallel, tasks, running, depthVar, stack>>

-----------------------------------------------------------------------------
(***************************************************************************)
(* Serial loading: a call of LoadTargetBuildFile on the stack has the      *)
(* dependencies it still has to load.                                      *)
(***************************************************************************)
\* A call for f: nothing but DEPTH changes when f is loaded already.
LoadTargetBuildFile(f, caller) ==
    /\ depthVar' = f
    /\ IF f \in targetBuildFiles
       THEN stack' = caller /\ UNCHANGED <<main, dataVars>>
       ELSE /\ targetBuildFiles' = targetBuildFiles \cup {f}
            /\ IF Raises(f)
               THEN /\ main' = "failed" /\ stack' = <<>>
                    /\ UNCHANGED <<data, auxData>>
               ELSE /\ data' = Evaluated(f, data, depthVar')
                    /\ auxData' = Updated(auxData, AuxEntries(f))
                    /\ stack' = Append(caller, Dependencies(f))
                    /\ UNCHANGED main
    /\ UNCHANGED <<disk, parallel, pending, scheduled, error, tasks, running,
                   results>>

\* Load's loop over the set of build files, in any order.
LoadNextBuildFile ==
    /\ ~parallel /\ main = "loop" /\ stack = <<>>
    /\ \E i \in DOMAIN dependencies :
          /\ dependencies' = RemoveAt(dependencies, i)
          /\ LoadTargetBuildFile(dependencies[i], stack)

\* The innermost call goes on with its next dependency.
LoadDependency ==
    /\ stack # <<>> /\ Last(stack) # <<>>
    /\ LoadTargetBuildFile(Head(Last(stack)), Append(Front(stack), Tail(Last(stack))))
    /\ UNCHANGED dependencies

\* The innermost call returns.
Return ==
    /\ stack # <<>> /\ Last(stack) = <<>>
    /\ stack' = Front(stack)
    /\ UNCHANGED <<disk, parallel, main, poolVars, dataVars, depthVar>>

\* Every build file has been loaded.
LeaveSerial ==
    /\ ~parallel /\ main = "loop" /\ stack = <<>> /\ dependencies = <<>>
    /\ main' = "done"
    /\ UNCHANGED <<disk, parallel, poolVars, dataVars, depthVar, stack>>

-----------------------------------------------------------------------------
\* The set of build files as a list, in some order.
SomeOrder == SetToSeq(BuildFiles)

Init ==
    /\ disk \in Disks
    /\ parallel \in BOOLEAN
    /\ main = "loop"
    /\ pending = 0 /\ error = FALSE
    /\ scheduled = BuildFiles
    /\ dependencies = SomeOrder
    /\ data = NoEntries /\ auxData = NoEntries /\ targetBuildFiles = {}
    /\ depthVar = None
    /\ tasks = {} /\ results = {}
    /\ running = [w \in Workers |-> Idle]
    /\ stack = <<>>

Main == Schedule \/ Wait \/ Wake \/ Leave \/ Join
Serial == LoadNextBuildFile \/ LoadDependency \/ Return \/ LeaveSerial
Worker(w) == TakeTask(w) \/ CallLoadTargetBuildFile(w)

Next ==
    \/ Main \/ KeyboardInterrupt \/ LoadTargetBuildFileCallback \/ Serial
    \/ \E w \in Workers : Worker(w)

Spec == Init /\ [][Next]_vars

\* Threads and processes that can go on do; nobody has to press Ctrl-C.
Fairness ==
    /\ WF_vars(Main) /\ WF_vars(Serial)
    /\ WF_vars(LoadTargetBuildFileCallback)
    /\ \A w \in Workers : WF_vars(Worker(w))

FairSpec == Spec /\ Fairness

-----------------------------------------------------------------------------
(***************************************************************************)
(* Properties.                                                             *)
(***************************************************************************)
Outstanding ==
    tasks \cup {running[w].file : w \in {x \in Workers : running[x] # Idle}}
          \cup {r.file : r \in results}

\* The variables of ParallelState and the pool have the values the code gives
\* them.
TypeOK ==
    /\ main \in {"loop", "waiting", "notified", "joining", "done", "failed",
                 "interrupted"}
    /\ pending \in 0..Cardinality(GypFiles)
    /\ error \in BOOLEAN
    /\ scheduled \subseteq GypFiles /\ targetBuildFiles \subseteq GypFiles
    /\ dependencies \in Seq(GypFiles)
    /\ tasks \subseteq GypFiles
    /\ DOMAIN data \subseteq Files /\ DOMAIN auxData = DOMAIN data

\* The counter the main loop ends by is the number of calls whose result has not
\* been entered, and a file is never at two of the places a file passes through
\* (waiting to be scheduled, in the pool, loaded): no file is loaded twice, which
\* a process would report as an error.
PendingIsOutstanding ==
    TypeOK /\ (parallel /\ ~error /\ main # "interrupted" =>
        /\ pending = Cardinality(Outstanding)
        /\ Outstanding \cap targetBuildFiles = {}
        /\ Len(dependencies) = Cardinality(ToSet(dependencies))
        /\ ToSet(dependencies) \cap (Outstanding \cup targetBuildFiles) = {}
        /\ scheduled = ToSet(dependencies) \cup Outstanding \cup targetBuildFiles)

\* Files that have to be loaded, from the contents of the disk alone: those of
\* the command line, what they depend on, and so on.
Reachable ==
    {f \in GypFiles : \A S \in SUBSET GypFiles :
        BuildFiles \subseteq S /\ (\A g \in S : ToSet(disk[g].deps) \subseteq S) => f \in S}

\* However the processes and threads interleave, and in either mode, loading
\* that ends well has loaded the files that are reachable, each evaluated with
\* its own DEPTH and with its includes merged in order.
LoadedIsReachable ==
    main = "done" =>
        /\ targetBuildFiles = Reachable
        /\ DOMAIN data = UNION {FilesRead(f) : f \in Reachable}
        /\ \A f \in Reachable :
              data[f] = [parts |-> LoadBuildFileIncludesIntoDict[f], depth |-> f,
                         included |-> GetIncludedBuildFiles(f)]
        /\ \A f \in Reachable : ~Raises(f)

Set == INSTANCE BuildFileSet WITH
           Roots <- BuildFiles, AllFiles <- GypFiles,
           needs <- [f \in GypFiles |-> ToSet(disk[f].deps)],
           unreadable <- {f \in GypFiles : Raises(f)},
           loaded <- targetBuildFiles \cap DOMAIN data,
           status <- IF main = "done" THEN "done"
                     ELSE IF main = "failed" THEN "failed" ELSE "loading"

\* Both ways of loading implement the abstract set of build files.
ImplementsBuildFileSet == Set!SetSpec

\* The main thread is not left waiting: loading ends, unless interrupted.
LoadingEnds == <>(main \in {"done", "failed", "interrupted"})
=============================================================================
