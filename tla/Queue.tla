-------------------------------- MODULE Queue --------------------------------
(***************************************************************************)
(* Teide::Queue (Queue.h, Queue.cpp): submissions to a Vulkan queue, each  *)
(* with a fence taken from a pool and a completion callback, and the       *)
(* thread that polls the fences and calls the callbacks.                   *)
(*                                                                         *)
(* m_mutex is held for a whole Submit and a whole GetInFlightFences, which *)
(* are therefore single steps, and for a whole Flush, which is several     *)
(* steps because the device and the waiting threads move while it runs.    *)
(* Waiting on fences happens outside the lock.                             *)
(*                                                                         *)
(* The device is external: it executes submissions in submission order and *)
(* signals the fence of an executed submission at any later time, so that  *)
(* two fences may be seen signalled in either order.                       *)
(***************************************************************************)
EXTENDS Integers, Sequences, FiniteSets

CONSTANTS
    MaxSubmits,         \* bound on the number of calls of Submit
    Callers,            \* the threads that call WaitForTasks
    SchedulerThread     \* m_schedulerThread

ASSUME QueueAssumption ==
    /\ MaxSubmits \in Nat
    /\ SchedulerThread \notin Callers

VARIABLES
    inFlight,           \* m_inFlightSubmits: submission number and its fence
    unused,             \* m_unusedSubmitFences, oldest first
    numFences,          \* fences 1..numFences have been created
    numSubmitted,       \* submissions 1..numSubmitted have been made
    stopRequested,      \* the stop token: the Queue is being destroyed
    pc,                 \* where each thread is
    snapshot,           \* the entries whose fences each thread still waits on
    cursor,             \* Flush's position: the last entry it looked at
    numExecuted,        \* device: submissions 1..numExecuted have executed
    unsignalled,        \* device: entries whose fence will be signalled
    signalled,          \* device: the fences in the signalled state
    calls,              \* history: how often each callback has been called
    awaited             \* history: the submissions a WaitForTasks is about

deviceVars == <<numExecuted, unsignalled, signalled>>
poolVars == <<inFlight, unused, numFences, numSubmitted>>
threadVars == <<pc, snapshot, cursor, stopRequested, awaited>>
vars == <<poolVars, deviceVars, threadVars, calls>>

Submissions == 1..MaxSubmits
Fences == 1..MaxSubmits         \* Submit creates at most one fence each time
Entry == [sub : Submissions, fence : Fences]
Threads == Callers \cup {SchedulerThread}

TypeOK ==
    /\ inFlight \subseteq Entry
    /\ unused \in Seq(Fences)
    /\ numFences \in 0..numSubmitted
    /\ numSubmitted \in 0..MaxSubmits
    /\ stopRequested \in BOOLEAN
    /\ pc \in [Threads -> {"idle", "wait", "poll", "pollWait", "flush", "done"}]
    /\ snapshot \in [Threads -> SUBSET Entry]
    /\ cursor \in 0..MaxSubmits
    /\ numExecuted \in 0..numSubmitted
    /\ unsignalled \subseteq Entry
    /\ signalled \subseteq Fences
    /\ calls \in [Submissions -> Nat]
    /\ awaited \in [Threads -> SUBSET Submissions]

Init ==
    /\ inFlight = {}
    /\ unused = <<>>
    /\ numFences = 0
    /\ numSubmitted = 0
    /\ stopRequested = FALSE
    /\ pc = [t \in Threads |-> IF t = SchedulerThread THEN "poll" ELSE "idle"]
    /\ snapshot = [t \in Threads |-> {}]
    /\ cursor = 0
    /\ numExecuted = 0
    /\ unsignalled = {}
    /\ signalled = {}
    /\ calls = [n \in Submissions |-> 0]
    /\ awaited = [t \in Threads |-> {}]

------------------------------------------------------------------------------
(* Submitting *)

\* Only Flush keeps m_mutex from one step to the next.
MutexFree == pc[SchedulerThread] # "flush"

\* The fence GetFence returns: the oldest unused one, or a new one.
NextFence == IF unused = <<>> THEN numFences + 1 ELSE Head(unused)

\* Mutant: the fence is read from the front of the pool but not popped.
GetFencePeeks ==
    /\ unused' = unused
    /\ numFences' = IF unused = <<>> THEN numFences + 1 ELSE numFences

GetFence ==
    /\ unused' = IF unused = <<>> THEN unused ELSE Tail(unused)
    /\ numFences' = IF unused = <<>> THEN numFences + 1 ELSE numFences

Submit ==
    /\ MutexFree
    /\ ~stopRequested
    /\ numSubmitted < MaxSubmits
    /\ numSubmitted' = numSubmitted + 1
    /\ GetFence
    /\ LET entry == [sub |-> numSubmitted + 1, fence |-> NextFence] IN
        /\ unsignalled' = unsignalled \cup {entry}
        /\ inFlight' = inFlight \cup {entry}
    /\ UNCHANGED <<numExecuted, signalled, threadVars, calls>>

------------------------------------------------------------------------------
(* The device *)

Execute ==
    /\ numExecuted < numSubmitted
    /\ numExecuted' = numExecuted + 1
    /\ UNCHANGED <<unsignalled, signalled, poolVars, threadVars, calls>>

Signal(entry) ==
    /\ entry \in unsignalled
    /\ entry.sub <= numExecuted
    /\ unsignalled' = unsignalled \ {entry}
    /\ signalled' = signalled \cup {entry.fence}
    /\ UNCHANGED <<numExecuted, poolVars, threadVars, calls>>

------------------------------------------------------------------------------
(* WaitForTasks: called by any thread, and by the scheduler thread as its  *)
(* last act. The fences are collected under the lock and waited on without *)
(* it: waitForFences looks at each of them until it has seen it signalled. *)

BeginWait(t) ==
    /\ MutexFree
    /\ pc' = [pc EXCEPT ![t] = IF inFlight = {} THEN "done" ELSE "wait"]
    /\ snapshot' = [snapshot EXCEPT ![t] = inFlight]
    /\ awaited' = [awaited EXCEPT ![t] = {e.sub : e \in inFlight}]
    /\ UNCHANGED <<cursor, stopRequested, poolVars, deviceVars, calls>>

WaitForTasks(t) ==
    /\ t \in Callers
    /\ ~stopRequested
    /\ pc[t] = "idle"
    /\ BeginWait(t)

ObserveSignalled(t, entry) ==
    /\ pc[t] = "wait"
    /\ entry \in snapshot[t]
    /\ entry.fence \in signalled
    /\ snapshot' = [snapshot EXCEPT ![t] = @ \ {entry}]
    /\ UNCHANGED <<pc, cursor, stopRequested, awaited, poolVars, deviceVars, calls>>

\* Mutant: the last wait is repeated until nothing is in flight.
WaitSucceedsLoops(t) ==
    /\ pc[t] = "wait"
    /\ snapshot[t] = {}
    /\ pc' = [pc EXCEPT ![t] = IF t = SchedulerThread THEN "poll" ELSE "done"]
    /\ UNCHANGED <<snapshot, cursor, stopRequested, awaited, poolVars, deviceVars, calls>>

WaitSucceeds(t) ==
    /\ pc[t] = "wait"
    /\ snapshot[t] = {}
    /\ pc' = [pc EXCEPT ![t] = "done"]
    /\ UNCHANGED <<snapshot, cursor, stopRequested, awaited, poolVars, deviceVars, calls>>

\* eTimeout: the error is logged and WaitForTasks returns all the same.
WaitTimesOut(t) ==
    /\ pc[t] = "wait"
    /\ \E e \in snapshot[t] : e.fence \notin signalled
    /\ pc' = [pc EXCEPT ![t] = "done"]
    /\ snapshot' = [snapshot EXCEPT ![t] = {}]
    /\ UNCHANGED <<cursor, stopRequested, awaited, poolVars, deviceVars, calls>>

\* The caller goes on and may call WaitForTasks again.
Return(t) ==
    /\ t \in Callers
    /\ pc[t] = "done"
    /\ pc' = [pc EXCEPT ![t] = "idle"]
    /\ awaited' = [awaited EXCEPT ![t] = {}]
    /\ UNCHANGED <<snapshot, cursor, stopRequested, poolVars, deviceVars, calls>>

------------------------------------------------------------------------------
(* The scheduler thread *)

\* GetInFlightFences; with no fence to wait on the thread sleeps and retries.
PollFences ==
    /\ pc[SchedulerThread] = "poll"
    /\ ~stopRequested
    /\ inFlight # {}
    /\ pc' = [pc EXCEPT ![SchedulerThread] = "pollWait"]
    /\ snapshot' = [snapshot EXCEPT ![SchedulerThread] = inFlight]
    /\ UNCHANGED <<cursor, stopRequested, awaited, poolVars, deviceVars, calls>>

\* waitForFences on any of them returns eSuccess or, after 2 ms, eTimeout.
PollReturns ==
    /\ pc[SchedulerThread] = "pollWait"
    /\ pc' = [pc EXCEPT ![SchedulerThread] =
                IF \E e \in snapshot[SchedulerThread] : e.fence \in signalled
                THEN "flush" ELSE "poll"]
    /\ cursor' = 0
    /\ snapshot' = [snapshot EXCEPT ![SchedulerThread] = {}]
    /\ UNCHANGED <<stopRequested, awaited, poolVars, deviceVars, calls>>

\* The entries Flush's loop has not reached, in the order of the vector,
\* which is the order of submission.
Unvisited == {e \in inFlight : e.sub > cursor}

\* Mutants: every entry is taken to be done once one is; the test is inverted.
AnySignalled(fence) == signalled # {}
NotSignalled(fence) == fence \notin signalled

IsSignalled(fence) == fence \in signalled

\* Mutant: the fence is pooled as it is.
KeepSignalled(fence) == signalled' = signalled

ResetFence(fence) == signalled' = signalled \ {fence}

PoolFence(fence) == unused' = Append(unused, fence)

\* One turn of Flush's loop: an entry with a signalled fence has its callback
\* called and its fence reset and put in the pool, and is erased. (The erase
\* comes after the loop, still under m_mutex, which every reader takes.)
FlushEntry(entry) ==
    /\ pc[SchedulerThread] = "flush"
    /\ entry \in Unvisited
    /\ \A e \in Unvisited : entry.sub <= e.sub
    /\ cursor' = entry.sub
    /\ IF IsSignalled(entry.fence)
       THEN /\ calls' = [calls EXCEPT ![entry.sub] = @ + 1]
            /\ ResetFence(entry.fence)
            /\ PoolFence(entry.fence)
            /\ inFlight' = inFlight \ {entry}
       ELSE UNCHANGED <<calls, signalled, unused, inFlight>>
    /\ UNCHANGED <<numFences, numSubmitted, numExecuted, unsignalled,
                   pc, snapshot, stopRequested, awaited>>

FlushEnd ==
    /\ pc[SchedulerThread] = "flush"
    /\ Unvisited = {}
    /\ pc' = [pc EXCEPT ![SchedulerThread] = "poll"]
    /\ UNCHANGED <<snapshot, cursor, stopRequested, awaited, poolVars, deviceVars, calls>>

\* ~Queue: m_schedulerThread is destroyed first, which requests a stop and
\* joins. Nobody may be inside the object by then.
RequestStop ==
    /\ ~stopRequested
    /\ \A t \in Callers : pc[t] = "idle"
    /\ stopRequested' = TRUE
    /\ UNCHANGED <<pc, snapshot, cursor, awaited, poolVars, deviceVars, calls>>

\* The loop ends and the thread waits for what is in flight, without Flush.
Drain ==
    /\ stopRequested
    /\ pc[SchedulerThread] = "poll"
    /\ BeginWait(SchedulerThread)

Terminated ==
    /\ pc[SchedulerThread] = "done"
    /\ UNCHANGED vars

------------------------------------------------------------------------------

Next ==
    \/ Submit
    \/ Execute
    \/ \E e \in unsignalled : Signal(e)
    \/ \E t \in Callers : WaitForTasks(t) \/ Return(t)
    \/ \E t \in Threads :
        \/ \E e \in snapshot[t] : ObserveSignalled(t, e)
        \/ WaitSucceeds(t)
        \/ WaitTimesOut(t)
    \/ PollFences
    \/ PollReturns
    \/ \E e \in inFlight : FlushEntry(e)
    \/ FlushEnd
    \/ RequestStop
    \/ Drain
    \/ Terminated

Spec == Init /\ [][Next]_vars

\* The device finishes what it is given and signals it; the scheduler thread
\* and a thread inside WaitForTasks keep running (their waits have timeouts).
\* Nobody is obliged to submit, to wait or to stop.
Fairness ==
    /\ WF_vars(Execute)
    /\ WF_vars(\E e \in unsignalled : Signal(e))
    /\ WF_vars(PollFences \/ PollReturns \/ FlushEnd \/ Drain
                \/ \E e \in inFlight : FlushEntry(e))
    /\ \A t \in Threads :
        WF_vars(WaitSucceeds(t) \/ WaitTimesOut(t)
                \/ \E e \in snapshot[t] : ObserveSignalled(t, e))

FairSpec == Spec /\ Fairness

------------------------------------------------------------------------------
(* Safety *)

PooledFences == {unused[i] : i \in DOMAIN unused}

\* A fence has one owner: each fence GetFence ever created is either once in
\* m_unusedSubmitFences or in exactly one entry of m_inFlightSubmits, so that
\* no two submissions share a fence and none is lost (Queue.cpp, GetFence,
\* Submit and the hand-over in Flush).
FenceHasOneOwner ==
    /\ \A i, j \in DOMAIN unused : unused[i] = unused[j] => i = j
    /\ \A d, e \in inFlight : d.fence = e.fence => d = e
    /\ \A e \in inFlight : e.fence \notin PooledFences
    /\ 1..numFences = PooledFences \cup {e.fence : e \in inFlight}

\* What vkQueueSubmit requires of the fence it is given: the fence the next
\* Submit would take is unsignalled and no earlier submission still has to
\* signal it. This is why Flush resets a fence, and only a signalled one,
\* before it pools it.
NextFenceIsIdle ==
    /\ NextFence \notin signalled
    /\ \A e \in unsignalled : e.fence # NextFence

\* A completion callback is called at most once, never before its submission
\* has executed, and is not dropped: until it is called the submission is in
\* m_inFlightSubmits. In particular a signal left over from a fence's earlier
\* use never completes a later submission.
CallbackOnceAfterExecution ==
    \A n \in 1..numSubmitted :
        \/ calls[n] = 1 /\ n <= numExecuted
        \/ calls[n] = 0 /\ \E e \in inFlight : e.sub = n

\* A WaitForTasks that saw all its fences signalled returns after all the
\* submissions it found in flight have executed, even if Flush has meanwhile
\* reset some of these fences and Submit has used them again.
WaitCoversItsSubmissions ==
    \A t \in Threads : pc[t] = "wait" =>
        \A n \in awaited[t] : n <= numExecuted \/ n \in {e.sub : e \in snapshot[t]}

------------------------------------------------------------------------------
(* Liveness *)

\* Every submission has its callback called, unless the Queue is destroyed.
EveryCallbackIsCalled ==
    \A n \in Submissions : n <= numSubmitted ~> (calls[n] = 1 \/ stopRequested)

\* Destroying a Queue terminates: the thread that ~jthread joins ends.
StopTerminates == stopRequested ~> pc[SchedulerThread] = "done"

------------------------------------------------------------------------------
(* Queue implements SubmitQueue. *)

Abstract == INSTANCE SubmitQueue WITH
    completed <- {n \in 1..numSubmitted : calls[n] > 0}

\* Without its fences, threads and lock, Queue is a SubmitQueue.
Refinement == Abstract!Spec

==============================================================================
