------------------------- MODULE CpuExecutorProofs -------------------------
(***************************************************************************)
(* Proofs about CpuExecutor, for any number of tasks and of workers and    *)
(* whichever tasks may throw.                                              *)
(*                                                                         *)
(* The argument.  A task goes through its statuses in one direction only:  *)
(* nothing puts it back into the list or the queue.  So a dependency that  *)
(* was done when the scan looked at it is done ever after, a task that was *)
(* started is not started again, and a task that WaitForTasks did not find *)
(* in the list, once it had looked, is never in the list again.            *)
(***************************************************************************)
EXTENDS CpuExecutor, TLAPS

\* A task has started, once, if it is beyond the queue.
RunsInv ==
    \A t \in Tasks : runs[t] = IF status[t] \in {"running", "done", "failed"} THEN 1 ELSE 0

\* What a task depends on was launched before it; the list holds dependents.
DepInv ==
    \A t \in Tasks :
        /\ dep[t] \in Tasks => dep[t] < t
        /\ status[t] = "none" => dep[t] = Nothing
        /\ status[t] = "scheduled" => dep[t] # Nothing

\* A task that does not wait in the list was given what it depends on.
GivenInv ==
    \A t \in Tasks : status[t] \in {"queued", "running", "done", "failed"} /\ dep[t] # Nothing =>
        IF dep[t] = GpuTask THEN gpuReady ELSE status[dep[t]] = "done"

\* After the busy loop, the tasks that are waited for have left the list.
LastInv == waitPc = "last" => waited \cap Scheduled = {}

Inv == TypeOK /\ RunsInv /\ DepInv /\ GivenInv /\ LastInv

-----------------------------------------------------------------------------

LEMMA InvInit == Init => Inv
  <1> SUFFICES ASSUME Init PROVE Inv
    OBVIOUS
  <1> USE CpuExecutorAssumption DEF CpuExecutorAssumption, Init, Tasks
  <1>1. TypeOK
    <2>1. /\ numTasks \in 0..MaxTasks /\ cursor \in 0..MaxTasks /\ waited \subseteq 1..numTasks
          /\ \A t \in Tasks : status[t] # "none" <=> t <= numTasks
      OBVIOUS
    <2>2. /\ dep \in [Tasks -> Tasks \cup {Nothing, GpuTask}] /\ runs \in [Tasks -> Nat]
          /\ status \in [Tasks -> Statuses]
      BY DEF Statuses
    <2> QED
      BY <2>1, <2>2 DEF TypeOK
  <1>2. RunsInv /\ DepInv /\ GivenInv /\ LastInv
    BY DEF RunsInv, DepInv, GivenInv, LastInv, Nothing
  <1> QED
    BY <1>1, <1>2 DEF Inv

\* The tasks' part of the invariant depends on the tasks only.
LEMMA TasksUnchanged == ASSUME Inv, UNCHANGED taskVars PROVE RunsInv' /\ DepInv' /\ GivenInv'
  BY DEF Inv, taskVars, RunsInv, DepInv, GivenInv

LEMMA LaunchKeepsInv == ASSUME Inv, LaunchTask \/ \E d \in Tasks \cup {GpuTask} : LaunchTaskAfter(d)
                        PROVE  Inv'
  <1> USE CpuExecutorAssumption DEF CpuExecutorAssumption, Tasks
  <1> DEFINE n == numTasks + 1
  <1>1. n \in Tasks /\ numTasks' = n /\ status[n] = "none" /\ dep[n] = Nothing /\ runs[n] = 0
    BY DEF Inv, TypeOK, RunsInv, DepInv, LaunchTask, LaunchTaskAfter
  <1>2. PICK s \in {"queued", "scheduled"}, d \in Tasks \cup {Nothing, GpuTask} :
            /\ status' = [status EXCEPT ![n] = s] /\ dep' = [dep EXCEPT ![n] = d]
            /\ s = "queued" <=> d = Nothing
            /\ d \in Tasks => d < n
    <2>1. CASE LaunchTask
      <3>1. dep' = [dep EXCEPT ![n] = Nothing]
        BY <2>1, <1>1 DEF LaunchTask, Inv, TypeOK
      <3>2. status' = [status EXCEPT ![n] = "queued"]
        BY <2>1 DEF LaunchTask
      <3>3. Nothing \notin Tasks
        BY DEF Nothing
      <3> QED
        BY <3>1, <3>2, <3>3
    <2>2. CASE \E d \in Tasks \cup {GpuTask} : LaunchTaskAfter(d)
      <3>1. PICK d \in Tasks \cup {GpuTask} : LaunchTaskAfter(d)
        BY <2>2
      <3>2. /\ status' = [status EXCEPT ![n] = "scheduled"] /\ dep' = [dep EXCEPT ![n] = d]
        BY <3>1 DEF LaunchTaskAfter
      <3>3. d # Nothing /\ (d \in Tasks => d < n)
        BY <3>1 DEF LaunchTaskAfter, Inv, TypeOK, Nothing, GpuTask
      <3> QED
        BY <3>2, <3>3
    <2> QED
      BY <2>1, <2>2
  <1>3. UNCHANGED <<runs, gpuReady, stop, schedPc, cursor, waitPc, waited>>
    BY DEF LaunchTask, LaunchTaskAfter, schedVars, waitVars
  <1> HIDE DEF n
  <1>4. n = numTasks + 1
    BY DEF n
  <1>5. TypeOK'
    BY <1>1, <1>2, <1>3, <1>4 DEF Inv, TypeOK, Statuses
  <1>6. RunsInv'
    BY <1>1, <1>2, <1>3 DEF Inv, TypeOK, RunsInv
  <1>7. DepInv'
    BY <1>1, <1>2, <1>3 DEF Inv, TypeOK, DepInv, Nothing
  <1>8. GivenInv'
    BY <1>1, <1>2, <1>3 DEF Inv, TypeOK, GivenInv, Nothing, GpuTask
  <1>9. LastInv'
    <2>1. n \notin waited
      BY <1>4 DEF Inv, TypeOK
    <2> QED
      BY <2>1, <1>1, <1>2, <1>3 DEF Inv, TypeOK, LastInv, Scheduled
  <1> QED
    BY <1>5, <1>6, <1>7, <1>8, <1>9 DEF Inv

\* A task goes from one status to the next.
LEMMA MoveKeepsInv ==
    ASSUME Inv, NEW t \in Tasks, NEW s \in Statuses \ {"none", "scheduled"},
           status' = [status EXCEPT ![t] = s], UNCHANGED <<numTasks, dep, gpuReady, stop, waitPc, waited>>,
           schedPc' \in {"sleep", "scan", "ended", "crashed"}, cursor' \in 0..MaxTasks,
           \/ status[t] = "queued" /\ s = "running" /\ runs' = [runs EXCEPT ![t] = @ + 1]
           \/ status[t] = "running" /\ s \in {"done", "failed"} /\ runs' = runs
           \/ status[t] = "scheduled" /\ s = "queued" /\ runs' = runs
              /\ IF dep[t] = GpuTask THEN gpuReady ELSE status[dep[t]] = "done"
    PROVE  Inv'
  <1> USE CpuExecutorAssumption DEF CpuExecutorAssumption
  <1>1. /\ numTasks \in 0..MaxTasks /\ status \in [Tasks -> Statuses] /\ runs \in [Tasks -> Nat]
        /\ dep \in [Tasks -> Tasks \cup {Nothing, GpuTask}]
    BY DEF Inv, TypeOK
  <1>2. TypeOK'
    BY <1>1 DEF Inv, TypeOK, Statuses, Tasks
  <1>3. RunsInv'
    BY <1>1 DEF Inv, RunsInv
  <1>4. DepInv'
    BY <1>1 DEF Inv, DepInv, Statuses
  <1>5. GivenInv'
    BY <1>1 DEF Inv, GivenInv, DepInv, Tasks, Nothing, GpuTask
  <1>6. LastInv'
    BY <1>1 DEF Inv, LastInv, Scheduled
  <1> QED
    BY <1>2, <1>3, <1>4, <1>5, <1>6 DEF Inv

LEMMA WorkersKeepInv == ASSUME Inv, NEW t \in Tasks, StartTask(t) \/ FinishTask(t) PROVE Inv'
  <1>1. /\ schedPc' \in {"sleep", "scan", "ended", "crashed"} /\ cursor' \in 0..MaxTasks
        /\ UNCHANGED <<numTasks, dep, gpuReady, stop, waitPc, waited>>
    BY DEF Inv, TypeOK, StartTask, FinishTask, schedVars, waitVars
  <1>2. CASE StartTask(t)
    BY <1>1, <1>2, MoveKeepsInv DEF StartTask, Statuses
  <1>3. CASE FinishTask(t)
    BY <1>1, <1>3, MoveKeepsInv DEF FinishTask, Statuses
  <1> QED
    BY <1>2, <1>3

LEMMA ScanKeepsInv == ASSUME Inv, NEW t \in Tasks, ScanTask(t) PROVE Inv'
  <1>1. /\ status[t] = "scheduled" /\ cursor' = t /\ t \in 0..MaxTasks /\ schedPc = "scan"
        /\ UNCHANGED <<numTasks, dep, runs, gpuReady, stop, waitPc, waited>>
    BY CpuExecutorAssumption DEF CpuExecutorAssumption, ScanTask, Unvisited, Scheduled, waitVars, Tasks
  <1>2. CASE IsReady(t) /\ ~(dep[t] # GpuTask /\ status[dep[t]] = "failed")
    <2>1. status' = [status EXCEPT ![t] = "queued"] /\ schedPc' = schedPc
      BY <1>2 DEF ScanTask, Execute
    <2>2. IF dep[t] = GpuTask THEN gpuReady ELSE status[dep[t]] = "done"
      BY <1>2 DEF IsReady, Finished
    <2> QED
      BY <1>1, <2>1, <2>2, MoveKeepsInv DEF Statuses
  <1>3. CASE ~(IsReady(t) /\ ~(dep[t] # GpuTask /\ status[dep[t]] = "failed"))
    <2>1. status' = status /\ schedPc' \in {"scan", "crashed"}
      BY <1>1, <1>3 DEF ScanTask, Execute
    <2>2. TypeOK'
      BY <1>1, <2>1 DEF Inv, TypeOK
    <2>3. RunsInv' /\ DepInv' /\ GivenInv'
      BY <1>1, <2>1, TasksUnchanged DEF taskVars
    <2>4. LastInv'
      BY <1>1, <2>1 DEF Inv, LastInv, Scheduled
    <2> QED
      BY <2>2, <2>3, <2>4 DEF Inv
  <1> QED
    BY <1>2, <1>3

\* The other steps of the scheduler thread leave the tasks alone.
LEMMA SchedulerKeepsInv == ASSUME Inv, BeginScan \/ EndScan \/ EndThread PROVE Inv'
  <1>1. UNCHANGED taskVars /\ UNCHANGED waitVars /\ stop' = stop
    BY DEF BeginScan, EndScan, EndThread
  <1>2. schedPc' \in {"sleep", "scan", "ended"} /\ (cursor' = 0 \/ cursor' = cursor)
    BY DEF BeginScan, EndScan, EndThread
  <1>3. TypeOK'
    BY <1>1, <1>2, CpuExecutorAssumption DEF CpuExecutorAssumption, Inv, TypeOK, taskVars, waitVars
  <1>4. LastInv'
    BY <1>1 DEF Inv, LastInv, Scheduled, taskVars, waitVars
  <1> QED
    BY <1>1, <1>3, <1>4, TasksUnchanged DEF Inv

\* So do those of the owner's thread.
LEMMA OwnerKeepsInv ==
    ASSUME Inv, WaitForTasks \/ WaitForAll \/ CheckScheduled \/ WaitAgain \/ LastWait \/ BeginDestroy \/ Join
    PROVE  Inv'
  <1>1. UNCHANGED taskVars /\ UNCHANGED <<schedPc, cursor>> /\ stop' \in BOOLEAN
    BY DEF Inv, TypeOK, WaitForTasks, WaitForAll, CheckScheduled, WaitAgain, LastWait, BeginDestroy, Join,
           MoveWait, schedVars
  <1>2. waitPc' \in {"idle", "joining", "first", "check", "again", "last", "destroyed"}
    BY DEF WaitForTasks, WaitForAll, CheckScheduled, WaitAgain, LastWait, BeginDestroy, Join, MoveWait, Return
  <1>3. waited' = waited \/ waited' = 1..numTasks
    BY DEF WaitForTasks, WaitForAll, CheckScheduled, WaitAgain, LastWait, BeginDestroy, Join
  <1>4. TypeOK'
    BY <1>1, <1>2, <1>3 DEF Inv, TypeOK, taskVars
  <1>5. waitPc' = "last" => waited' = waited /\ Scheduled = {}
    BY DEF WaitForTasks, WaitForAll, CheckScheduled, WaitAgain, LastWait, BeginDestroy, Join, MoveWait, Return
  <1>6. LastInv'
    BY <1>1, <1>5 DEF LastInv, Scheduled, taskVars
  <1> QED
    BY <1>1, <1>4, <1>6, TasksUnchanged DEF Inv

\* A GPU future that is ready stays so.
LEMMA GpuKeepsInv == ASSUME Inv, GpuTaskCompletes PROVE Inv'
  <1>1. gpuReady' = TRUE /\ UNCHANGED <<numTasks, dep, status, runs, stop, schedPc, cursor, waitPc, waited>>
    BY DEF GpuTaskCompletes, schedVars, waitVars
  <1>2. TypeOK'
    BY <1>1 DEF Inv, TypeOK
  <1>3. RunsInv' /\ DepInv' /\ GivenInv' /\ LastInv'
    BY <1>1 DEF Inv, RunsInv, DepInv, GivenInv, LastInv, Scheduled
  <1> QED
    BY <1>2, <1>3 DEF Inv

LEMMA InvNext == Inv /\ [Next]_vars => Inv'
  <1> SUFFICES ASSUME Inv, [Next]_vars PROVE Inv'
    OBVIOUS
  <1>1. CASE LaunchTask \/ \E d \in Tasks \cup {GpuTask} : LaunchTaskAfter(d)
    BY <1>1, LaunchKeepsInv
  <1>2. CASE GpuTaskCompletes
    BY <1>2, GpuKeepsInv
  <1>3. CASE \E t \in Tasks : StartTask(t) \/ FinishTask(t) \/ ScanTask(t)
    BY <1>3, WorkersKeepInv, ScanKeepsInv
  <1>4. CASE BeginScan \/ EndScan \/ EndThread
    BY <1>4, SchedulerKeepsInv
  <1>5. CASE WaitForTasks \/ WaitForAll \/ CheckScheduled \/ WaitAgain \/ LastWait \/ BeginDestroy \/ Join
    BY <1>5, OwnerKeepsInv
  <1>6. CASE UNCHANGED vars
    <2>1. TypeOK' /\ LastInv'
      BY <1>6 DEF Inv, TypeOK, LastInv, Scheduled, vars, taskVars, schedVars, waitVars
    <2> QED
      BY <1>6, <2>1, TasksUnchanged DEF Inv, vars
  <1> QED
    BY <1>1, <1>2, <1>3, <1>4, <1>5, <1>6 DEF Next, Terminated

LEMMA Invariance == Spec => []Inv
  BY InvInit, InvNext, PTL DEF Spec

\* The variables have the types TypeOK gives them; a task beyond numTasks has
\* no status, and every other one has.
THEOREM TypeCorrect == Spec => []TypeOK
  <1>1. Inv => TypeOK
    BY DEF Inv
  <1> QED
    BY <1>1, Invariance, PTL

\* m_scheduledTasks and the scan, for any number of tasks and workers: no task
\* is run twice, and a dependent runs only when what it depends on is done.
THEOREM Dependents == Spec => []DependentsRunOnceAfter
  <1>1. Inv => DependentsRunOnceAfter
    BY DEF Inv, RunsInv, GivenInv, DependentsRunOnceAfter
  <1> QED
    BY <1>1, Invariance, PTL

\* WaitForTasks, for any number of tasks and workers: when it returns, the tasks
\* that were launched before it was called have finished.
THEOREM WaitIsComplete == Spec => WaitCoversLaunchedTasks
  <1>1. Inv => [LastWait => \A t \in waited : Finished(t)]_vars
    <2> SUFFICES ASSUME Inv, LastWait, NEW t \in waited PROVE Finished(t)
      OBVIOUS
    <2>1. t \in Tasks /\ status[t] \in Statuses \ {"none"}
      BY CpuExecutorAssumption DEF CpuExecutorAssumption, Inv, TypeOK, Tasks
    <2>2. status[t] \notin {"scheduled", "queued", "running"}
      BY <2>1 DEF Inv, LastInv, Scheduled, LastWait, MoveWait, Idle
    <2> QED
      BY <2>1, <2>2 DEF Finished, Statuses
  <1> QED
    BY <1>1, Invariance, PTL DEF WaitCoversLaunchedTasks
=============================================================================
