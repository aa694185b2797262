----------------------------- MODULE GpuExecutor -----------------------------
(***************************************************************************)
(* Teide::GpuExecutor (GpuExecutor.h, GpuExecutor.cpp) with the calls      *)
(* Scheduler::ScheduleGpu makes of it. A GPU task reserves a slot when it  *)
(* is scheduled, records a command buffer on a worker thread later, and    *)
(* hands it back; whatever the order in which recording ends, the command  *)
(* buffers go to the queue in the order of the slots.                      *)
(*                                                                         *)
(* The executor is used through Synchronized<GpuExecutor>, so each of its  *)
(* operations is one step. The queue below it is SubmitQueue, which Queue  *)
(* implements.                                                             *)
(***************************************************************************)
EXTENDS Integers, Sequences

CONSTANTS
    MaxSlots,           \* bound on the number of scheduled GPU tasks
    Workers             \* the CpuExecutor's worker threads

ASSUME GpuExecutorAssumption == MaxSlots \in Nat

MaxFramesInFlight == 2
Frames == 0 .. MaxFramesInFlight - 1
Slots == 1..MaxSlots

CommandBuffer == [frame : Frames, thread : Workers, index : Slots]
None == [frame |-> -1]          \* vk::CommandBuffer{}: the null handle

VARIABLES
    numSlots,           \* m_readyCommandBuffers.size()
    ready,              \* m_readyCommandBuffers
    handlers,           \* the slots with a handler in m_completionHandlers
    numSubmittedCBs,    \* m_numSubmittedCommandBuffers
    batches,            \* the submissions made to m_queue, in order
    frame,              \* m_frameResources: index of the current frame
    pools,              \* commandBuffers.size() and numUsedCommandBuffers
    recording,          \* the slot each worker is recording for, 0 for none
    target,             \* the command buffer each worker is recording
    started,            \* the slots whose task has started recording
    numExecuted,        \* SubmitQueue
    completed,          \* SubmitQueue
    calls,              \* history: how often each slot's handler has run
    caught              \* history: the slots whose command buffer was in use
                        \* when NextFrame reset its pool

slotVars == <<numSlots, ready, handlers, numSubmittedCBs, batches>>
poolVars == <<frame, pools>>
taskVars == <<recording, target, started>>
queueVars == <<numExecuted, completed>>
vars == <<slotVars, poolVars, taskVars, queueVars, calls, caught>>

\* A batch is the command buffers of slots first..last, and the slots whose
\* handlers its callback runs.
Batch == [first : Slots, last : Slots, handlers : SUBSET Slots]

m_queue == INSTANCE SubmitQueue WITH
    MaxSubmits <- MaxSlots, numSubmitted <- Len(batches)

TypeOK ==
    /\ numSlots \in 0..MaxSlots
    /\ ready \in [Slots -> CommandBuffer \cup {None}]
    /\ handlers \subseteq 1..numSlots
    /\ numSubmittedCBs \in 0..numSlots
    /\ batches \in Seq(Batch)
    /\ frame \in Frames
    /\ pools \in [Frames -> [Workers -> [size : Nat, used : 0..MaxSlots]]]
    /\ \A f \in Frames, w \in Workers : pools[f][w].used <= pools[f][w].size
    /\ recording \in [Workers -> 0..numSlots]
    /\ target \in [Workers -> CommandBuffer \cup {None}]
    /\ started \subseteq 1..numSlots
    /\ numExecuted \in 0..Len(batches)
    /\ completed \subseteq 1..numExecuted
    /\ calls \in [Slots -> Nat]
    /\ caught \subseteq started

Init ==
    /\ numSlots = 0
    /\ ready = [i \in Slots |-> None]
    /\ handlers = {}
    /\ numSubmittedCBs = 0
    /\ batches = <<>>
    /\ frame = 0
    /\ pools = [f \in Frames |-> [w \in Workers |-> [size |-> 0, used |-> 0]]]
    /\ recording = [w \in Workers |-> 0]
    /\ target = [w \in Workers |-> None]
    /\ started = {}
    /\ calls = [i \in Slots |-> 0]
    /\ caught = {}
    /\ m_queue!Init

------------------------------------------------------------------------------
(* Operations *)

\* ScheduleGpu, on the calling thread: reserve the next slot, launch the task.
AddCommandBufferSlot ==
    /\ numSlots < MaxSlots
    /\ numSlots' = numSlots + 1
    /\ UNCHANGED <<ready, handlers, numSubmittedCBs, batches,
                   poolVars, taskVars, queueVars, calls, caught>>

\* The pool of the current thread in the current frame, with one more command
\* buffer in use; a full pool is doubled first.
Grown(pool) == IF pool.used = pool.size
               THEN pool.size + (IF pool.size > 1 THEN pool.size ELSE 1)
               ELSE pool.size

\* The task of slot i starts on worker w. Workers take tasks in any order.
GetCommandBuffer(w, i) ==
    /\ recording[w] = 0
    /\ i \in (1..numSlots) \ started
    /\ started' = started \cup {i}
    /\ recording' = [recording EXCEPT ![w] = i]
    /\ LET pool == pools[frame][w] IN
        /\ pools' = [pools EXCEPT ![frame][w] =
                        [size |-> Grown(pool), used |-> pool.used + 1]]
        /\ target' = [target EXCEPT ![w] =
                        [frame |-> frame, thread |-> w, index |-> pool.used + 1]]
    /\ UNCHANGED <<slotVars, frame, queueVars, calls, caught>>

\* The command buffers to submit are those after the submitted ones and up to
\* the first null one: the slots numSubmittedCBs+1..last.
\* Mutant: the search for the first null one starts after the next slot.
EndsBatchSkippingOne(cbs, last) ==
    /\ \A i \in numSubmittedCBs + 2 .. last : cbs[i] # None
    /\ last < numSlots => cbs[last + 1] = None

\* Mutant: the newest slot is never part of the range.
EndsBatchBeforeNewest(cbs, last) ==
    /\ \A i \in numSubmittedCBs + 1 .. last : cbs[i] # None
    /\ last < numSlots
    /\ last + 1 < numSlots => cbs[last + 1] = None

EndsBatch(cbs, last) ==
    /\ \A i \in numSubmittedCBs + 1 .. last : cbs[i] # None
    /\ last < numSlots => cbs[last + 1] = None

\* The handlers that go with them: every one that is there (filter on
\* != nullptr over all the unsubmitted handlers, whatever the batch is).
\* Mutant: the last handler of the range is left out.
HandlersButLast(present, last) == {i \in present : i > numSubmittedCBs /\ i < last}

HandlersToSubmit(present, last) == {i \in present : i > numSubmittedCBs}

\* The task on worker w has recorded its commands.
SubmitCommandBuffer(w) ==
    /\ recording[w] # 0
    /\ recording' = [recording EXCEPT ![w] = 0]
    /\ target' = [target EXCEPT ![w] = None]
    /\ ready' = [ready EXCEPT ![recording[w]] = target[w]]
    /\ LET present == handlers \cup {recording[w]} IN
        \E last \in numSubmittedCBs .. numSlots :
            /\ EndsBatch(ready', last)
            /\ numSubmittedCBs' = last
            /\ IF last > numSubmittedCBs
               THEN LET moved == HandlersToSubmit(present, last) IN
                    /\ handlers' = present \ moved
                    /\ batches' = Append(batches,
                         [first |-> numSubmittedCBs + 1, last |-> last, handlers |-> moved])
                    /\ m_queue!Submit
               ELSE /\ handlers' = present
                    /\ UNCHANGED <<batches, queueVars>>
    /\ UNCHANGED <<numSlots, started, poolVars, calls, caught>>

\* m_queue on its own: the device executes a batch ...
ExecuteBatch ==
    /\ UNCHANGED <<slotVars, poolVars, taskVars, calls, caught>>
    /\ m_queue!Execute

\* ... and the queue's thread runs the batch's callback: all its handlers.
CompleteBatch(n) ==
    /\ UNCHANGED <<slotVars, poolVars, taskVars, caught>>
    /\ m_queue!Complete(n)
    /\ calls' = [i \in Slots |->
                    IF i \in batches[n].handlers THEN calls[i] + 1 ELSE calls[i]]

\* The device has executed the command buffer of slot i.
Executed(i) == \E n \in 1..numExecuted : i \in batches[n].first .. batches[n].last

\* Slot i holds a command buffer the device has still to execute.
Pending(i) == ready[i] # None /\ ~Executed(i)

\* The pools of a frame that NextFrame has reset.
ResetPools(frames, f) ==
    [frames EXCEPT ![f] = [w \in Workers |-> [size |-> frames[f][w].size, used |-> 0]]]

\* The slots that have a command buffer of frame f in use: one that is being
\* recorded, or waits in its slot, or is still to be executed. NextFrame does
\* not look at them.
InUse(f) ==
    {recording[w] : w \in {w \in Workers : target[w].frame = f}}
        \cup {i \in Slots : Pending(i) /\ ready[i].frame = f}

\* Mutant: the pools are reset without going to the next frame.
NextFrameStays ==
    LET next == (frame + 1) % MaxFramesInFlight IN
    /\ pools' = ResetPools(pools, frame)
    /\ caught' = caught \cup InUse(next)
    /\ UNCHANGED <<frame, slotVars, taskVars, queueVars, calls>>

\* The next frame becomes current and the command pools of all its threads
\* are reset, whatever is in use of them: the caller is to have waited.
NextFrame ==
    LET next == (frame + 1) % MaxFramesInFlight IN
    /\ frame' = next
    /\ pools' = ResetPools(pools, next)
    /\ caught' = caught \cup InUse(next)
    /\ UNCHANGED <<slotVars, taskVars, queueVars, calls>>

Next ==
    \/ AddCommandBufferSlot
    \/ \E w \in Workers : (\E i \in Slots : GetCommandBuffer(w, i)) \/ SubmitCommandBuffer(w)
    \/ ExecuteBatch
    \/ \E n \in Slots : CompleteBatch(n)
    \/ NextFrame

Spec == Init /\ [][Next]_vars

\* Workers start the tasks that are launched and finish them; the queue
\* executes and completes what is submitted (Queue!EveryCallbackIsCalled).
Fairness ==
    /\ WF_vars(\E w \in Workers, i \in Slots : GetCommandBuffer(w, i))
    /\ \A w \in Workers : WF_vars(SubmitCommandBuffer(w))
    /\ WF_vars(ExecuteBatch)
    /\ WF_vars(\E n \in Slots : CompleteBatch(n))

FairSpec == Spec /\ Fairness

------------------------------------------------------------------------------
(* Properties *)

\* The device sees the command buffers in the order of the slots, each once,
\* none skipped: the batches are consecutive, non-empty ranges that end at
\* m_numSubmittedCommandBuffers, and every slot in them has been recorded.
\* A slot that is ready is only held back by an earlier one that is not.
BatchesFollowSlotOrder ==
    /\ \A n \in 1..Len(batches) :
        /\ batches[n].first <= batches[n].last
        /\ batches[n].first = IF n = 1 THEN 1 ELSE batches[n-1].last + 1
    /\ numSubmittedCBs = IF batches = <<>> THEN 0 ELSE batches[Len(batches)].last
    /\ \A i \in 1..numSubmittedCBs : ready[i] # None
    /\ numSubmittedCBs < numSlots => ready[numSubmittedCBs + 1] = None

\* A completion handler is never lost or run twice: from the time the task
\* hands its command buffer in, it is either still in m_completionHandlers or
\* in exactly one batch, and it runs when that batch completes.
HandlerInOnePlace ==
    \A i \in Slots : ready[i] # None =>
        \/ /\ i \in handlers /\ i > numSubmittedCBs /\ calls[i] = 0
           /\ \A n \in 1..Len(batches) : i \notin batches[n].handlers
        \/ i \notin handlers /\ \E n \in 1..Len(batches) :
            /\ i \in batches[n].handlers
            /\ \A m \in 1..Len(batches) : i \in batches[m].handlers => m = n
            /\ calls[i] = IF n \in completed THEN 1 ELSE 0

\* Two tasks have the same command buffer at the same time (they record it, or
\* it waits in a slot, or is still to be executed) only if one of them had it
\* already when NextFrame reset its pool: as long as NextFrame comes when the
\* frame two before is done, growing, resetting and sharing the pools among
\* threads never hands out a command buffer that is in use.
\* (Renderer!PresentedFramesAreWaitedFor is about when that is so.)
LiveCommandBuffersDistinct ==
    LET recorders == {w \in Workers : target[w] # None /\ recording[w] \notin caught}
        waiting == {i \in Slots \ caught : Pending(i)} IN
    /\ \A i, j \in waiting : ready[i] = ready[j] => i = j
    /\ \A v, w \in recorders : target[v] = target[w] => v = w
    /\ \A w \in recorders, i \in waiting : ready[i] # target[w]

\* A task's handler runs (its future becomes ready) only after the device has
\* executed that task's own command buffer.
HandlerAfterExecution ==
    \A i \in Slots : calls[i] > 0 => Executed(i)

\* Every scheduled task has its handler run, in whatever order the workers
\* record.
EveryHandlerRuns ==
    \A i \in Slots : i <= numSlots ~> calls[i] > 0

==============================================================================
