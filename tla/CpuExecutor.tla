----------------------------- MODULE CpuExecutor -----------------------------
(***************************************************************************)
(* Teide::CpuExecutor (CpuExecutor.h, CpuExecutor.cpp): tasks run by a     *)
(* Taskflow executor at once, or, if they depend on a future, held in      *)
(* m_scheduledTasks until a polling thread finds the future ready.         *)
(*                                                                         *)
(* The polling thread holds m_schedulerMutex for one whole scan of the     *)
(* list. The futures become ready while it scans.                          *)
(*                                                                         *)
(* Taskflow is external: async queues a function, a free worker runs it,   *)
(* wait_for_all returns at a moment when nothing is queued or running. The *)
(* future of a GPU task, which Scheduler::ScheduleAfter may be given, is   *)
(* external too: it becomes ready at any time.                             *)
(***************************************************************************)
EXTENDS Integers, FiniteSets

CONSTANTS
    MaxTasks,           \* bound on the number of tasks launched
    NumThreads,         \* m_executor.num_workers()
    Throwers            \* the tasks whose function may throw

ASSUME CpuExecutorAssumption ==
    /\ MaxTasks \in Nat
    /\ NumThreads \in Nat \ {0}
    /\ Throwers \subseteq 1..MaxTasks

Tasks == 1..MaxTasks
Nothing == 0                    \* the task depends on no future
GpuTask == -1                   \* the task depends on the future of a GPU task

VARIABLES
    numTasks,           \* tasks 1..numTasks have been launched
    dep,                \* the task whose future each task depends on
    status,             \* where each task is
    runs,               \* history: how often each task's function has started
    gpuReady,           \* the GPU task's future is ready
    stop,               \* m_schedulerStop
    schedPc,            \* where m_schedulerThread is
    cursor,             \* the scan's position: the last task it looked at
    waitPc,             \* where the thread inside WaitForTasks is
    waited              \* history: the tasks launched before it was called

taskVars == <<numTasks, dep, status, runs, gpuReady>>
schedVars == <<stop, schedPc, cursor>>
waitVars == <<waitPc, waited>>
vars == <<taskVars, schedVars, waitVars>>

\* "scheduled": in m_scheduledTasks; "queued", "running": in m_executor;
\* "done": the future has a value; "failed": it has an exception, which for a
\* scheduled task is the broken promise.
Statuses == {"none", "scheduled", "queued", "running", "done", "failed"}

TypeOK ==
    /\ numTasks \in 0..MaxTasks
    /\ dep \in [Tasks -> Tasks \cup {Nothing, GpuTask}]
    /\ status \in [Tasks -> Statuses]
    /\ \A t \in Tasks : status[t] # "none" <=> t <= numTasks
    /\ runs \in [Tasks -> Nat]
    /\ gpuReady \in BOOLEAN
    /\ stop \in BOOLEAN
    /\ schedPc \in {"sleep", "scan", "ended", "crashed"}
    /\ cursor \in 0..MaxTasks
    /\ waitPc \in {"idle", "joining", "first", "check", "again", "last", "destroyed"}
    /\ waited \subseteq 1..numTasks

Init ==
    /\ numTasks = 0
    /\ dep = [t \in Tasks |-> Nothing]
    /\ status = [t \in Tasks |-> "none"]
    /\ runs = [t \in Tasks |-> 0]
    /\ gpuReady = FALSE
    /\ stop = FALSE
    /\ schedPc = "sleep"
    /\ cursor = 0
    /\ waitPc = "idle"
    /\ waited = {}

\* m_scheduledTasks, in the order of launching.
Scheduled == {t \in Tasks : status[t] = "scheduled"}
Finished(t) == status[t] \in {"done", "failed"}
MutexFree == schedPc # "scan"

------------------------------------------------------------------------------
(* Launching *)

LaunchTask ==
    /\ ~stop
    /\ numTasks < MaxTasks
    /\ numTasks' = numTasks + 1
    /\ status' = [status EXCEPT ![numTasks + 1] = "queued"]
    /\ UNCHANGED <<dep, runs, gpuReady, schedVars, waitVars>>

LaunchTaskAfter(d) ==
    /\ ~stop
    /\ numTasks < MaxTasks
    /\ MutexFree
    /\ d \in 1..numTasks \cup {GpuTask}
    /\ numTasks' = numTasks + 1
    /\ dep' = [dep EXCEPT ![numTasks + 1] = d]
    /\ status' = [status EXCEPT ![numTasks + 1] = "scheduled"]
    /\ UNCHANGED <<runs, gpuReady, schedVars, waitVars>>

GpuTaskCompletes ==
    /\ ~gpuReady
    /\ gpuReady' = TRUE
    /\ UNCHANGED <<numTasks, dep, status, runs, schedVars, waitVars>>

------------------------------------------------------------------------------
(* The workers *)

StartTask(t) ==
    /\ status[t] = "queued"
    /\ Cardinality({u \in Tasks : status[u] = "running"}) < NumThreads
    /\ status' = [status EXCEPT ![t] = "running"]
    /\ runs' = [runs EXCEPT ![t] = @ + 1]
    /\ UNCHANGED <<numTasks, dep, gpuReady, schedVars, waitVars>>

\* The function returns and the promise is set, or it throws.
FinishTask(t) ==
    /\ status[t] = "running"
    /\ \E s \in {"done"} \cup (IF t \in Throwers THEN {"failed"} ELSE {}) :
        status' = [status EXCEPT ![t] = s]
    /\ UNCHANGED <<numTasks, dep, runs, gpuReady, schedVars, waitVars>>

------------------------------------------------------------------------------
(* The scheduler thread *)

\* while (!m_schedulerStop): the scan takes the mutex.
BeginScan ==
    /\ schedPc = "sleep"
    /\ ~stop
    /\ schedPc' = "scan"
    /\ cursor' = 0
    /\ UNCHANGED <<stop, taskVars, waitVars>>

\* Mutant: a future is taken to be ready as soon as its task is running.
ReadyWhenStarted(t) ==
    IF dep[t] = GpuTask THEN gpuReady ELSE status[dep[t]] \in {"running", "done", "failed"}

\* wait_for(0) == ready: the dependency has a value or an exception.
IsReady(t) == IF dep[t] = GpuTask THEN gpuReady ELSE Finished(dep[t])

\* future.get() rethrows what the dependency threw, out of the thread's
\* function: the process ends. Otherwise the task is handed to m_executor.
Execute(t) ==
    IF dep[t] # GpuTask /\ status[dep[t]] = "failed"
    THEN schedPc' = "crashed" /\ UNCHANGED status
    ELSE status' = [status EXCEPT ![t] = "queued"] /\ UNCHANGED schedPc

Unvisited == {t \in Scheduled : t > cursor}

\* One turn of the loop. A task that is executed leaves m_scheduledTasks (the
\* erase comes after the loop, under the same lock).
ScanTask(t) ==
    /\ schedPc = "scan"
    /\ t \in Unvisited
    /\ \A u \in Unvisited : t <= u
    /\ cursor' = t
    /\ IF IsReady(t) THEN Execute(t) ELSE UNCHANGED <<schedPc, status>>
    /\ UNCHANGED <<numTasks, dep, runs, gpuReady, stop, waitVars>>

\* Mutant: the thread looks at the list once only.
EndScanOnce ==
    /\ schedPc = "scan"
    /\ Unvisited = {}
    /\ schedPc' = "ended"
    /\ UNCHANGED <<stop, cursor, taskVars, waitVars>>

EndScan ==
    /\ schedPc = "scan"
    /\ Unvisited = {}
    /\ schedPc' = "sleep"
    /\ UNCHANGED <<stop, cursor, taskVars, waitVars>>

\* The loop ends once the flag is seen.
EndThread ==
    /\ schedPc = "sleep"
    /\ stop
    /\ schedPc' = "ended"
    /\ UNCHANGED <<stop, cursor, taskVars, waitVars>>

------------------------------------------------------------------------------
(* WaitForTasks and the destructor, on the owner's thread *)

Idle == \A t \in Tasks : status[t] \notin {"queued", "running"}

MoveWait(from, to) ==
    /\ waitPc = from
    /\ waitPc' = to
    /\ UNCHANGED <<taskVars, schedVars>>

WaitForTasks ==
    /\ MoveWait("idle", "first")
    /\ ~stop
    /\ waited' = 1..numTasks

\* The first wait_for_all.
WaitForAll ==
    /\ MoveWait("first", "check")
    /\ Idle
    /\ UNCHANGED waited

\* Mutant: the test for the list being empty is inverted.
CheckInverted ==
    /\ MoveWait("check", IF Scheduled = {} THEN "again" ELSE "last")
    /\ MutexFree
    /\ UNCHANGED waited

\* hasScheduledTasks, under the mutex.
CheckScheduled ==
    /\ MoveWait("check", IF Scheduled = {} THEN "last" ELSE "again")
    /\ MutexFree
    /\ UNCHANGED waited

\* The wait_for_all in the busy loop.
WaitAgain ==
    /\ MoveWait("again", "check")
    /\ Idle
    /\ UNCHANGED waited

Return == IF stop THEN "destroyed" ELSE "idle"

\* Mutant: there is no wait_for_all after the loop.
LastWaitSkipped ==
    /\ MoveWait("last", Return)
    /\ UNCHANGED waited

\* The last wait_for_all.
LastWait ==
    /\ MoveWait("last", Return)
    /\ Idle
    /\ UNCHANGED waited

\* ~CpuExecutor: m_schedulerStop = true ...
BeginDestroy ==
    /\ waitPc = "idle"
    /\ waitPc' = "joining"
    /\ stop' = TRUE
    /\ waited' = 1..numTasks
    /\ UNCHANGED <<taskVars, schedPc, cursor>>

\* ... m_schedulerThread.join(), and then WaitForTasks.
Join ==
    /\ MoveWait("joining", "first")
    /\ schedPc = "ended"
    /\ UNCHANGED waited

Terminated ==
    /\ waitPc = "destroyed" \/ schedPc = "crashed"
    /\ UNCHANGED vars

------------------------------------------------------------------------------

\* The process has not ended.
Running == schedPc # "crashed"

Next ==
    \/ /\ Running
       /\ \/ LaunchTask
          \/ \E d \in Tasks \cup {GpuTask} : LaunchTaskAfter(d)
          \/ GpuTaskCompletes
          \/ \E t \in Tasks : StartTask(t) \/ FinishTask(t) \/ ScanTask(t)
          \/ BeginScan
          \/ EndScan
          \/ EndThread
          \/ WaitForTasks
          \/ WaitForAll
          \/ CheckScheduled
          \/ WaitAgain
          \/ LastWait
          \/ BeginDestroy
          \/ Join
    \/ Terminated

Spec == Init /\ [][Next]_vars

\* The workers and the scheduler thread keep running, the GPU task completes,
\* and a thread inside WaitForTasks goes on when it can. Taking the mutex for
\* hasScheduledTasks needs strong fairness: the scan frees it again and again.
Fairness ==
    /\ WF_vars(Running /\ GpuTaskCompletes)
    /\ \A t \in Tasks :
        WF_vars(Running /\ StartTask(t)) /\ WF_vars(Running /\ FinishTask(t))
    /\ WF_vars(BeginScan \/ EndScan \/ EndThread \/ \E t \in Tasks : ScanTask(t))
    /\ SF_vars(Running /\ CheckScheduled)
    /\ WF_vars(Running /\ (WaitForAll \/ WaitAgain \/ LastWait \/ Join))

FairSpec == Spec /\ Fairness

------------------------------------------------------------------------------
(* Properties *)

\* A task that depends on another starts only when the other's future is
\* ready, and no task is ever run twice: the list gives each of its entries
\* away once (std::exchange in the scan).
DependentsRunOnceAfter ==
    \A t \in Tasks :
        /\ runs[t] <= 1
        /\ status[t] \in {"queued", "running", "done", "failed"} /\ dep[t] # Nothing =>
            IF dep[t] = GpuTask THEN gpuReady ELSE status[dep[t]] = "done"

\* When WaitForTasks returns, all the tasks launched before it was called have
\* finished, those that were still scheduled included (SchedulerTest,
\* ScheduleChain: WaitForCpu, then every link of the chain has run).
WaitCoversLaunchedTasks ==
    [][LastWait => \A t \in waited : Finished(t)]_vars

\* Until the executor is destroyed every task is run, unless the exception of
\* one that others depend on ends the process.
EveryTaskRuns ==
    \A t \in Tasks : t <= numTasks ~> (Finished(t) \/ stop \/ schedPc = "crashed")

\* The calls that wait return: WaitForTasks, if no more than MaxTasks tasks are
\* launched and no exception ends the process, and the destructor, if the list
\* is empty when the polling thread has ended (nobody would empty it then: the
\* busy loop would not end).
WaitsEnd ==
    /\ (waitPc = "first" /\ ~stop) ~> (waitPc = "idle" \/ schedPc = "crashed")
    /\ (stop /\ schedPc = "ended" /\ Scheduled = {}) ~> waitPc = "destroyed"

==============================================================================
