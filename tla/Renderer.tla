------------------------------ MODULE Renderer -------------------------------
(***************************************************************************)
(* The frame loop of Teide::VulkanRenderer (VulkanRenderer.cpp): BeginFrame,*)
(* rendering, EndFrame, and the fences that are to keep the CPU off the    *)
(* resources of a frame the GPU is still working on.                       *)
(*                                                                         *)
(* Each of the MaxFramesInFlight frames has command pools (GpuExecutor's)  *)
(* and view parameter pools (the renderer's), which BeginFrame resets when *)
(* it comes round to the frame again. Rounds are counted: frame number r   *)
(* uses the resources of index r % MaxFramesInFlight.                      *)
(*                                                                         *)
(* A GPU task is recorded by a worker, goes to the graphics queue in slot  *)
(* order (GpuExecutor!BatchesFollowSlotOrder) and is executed in order.    *)
(***************************************************************************)
EXTENDS Integers

CONSTANTS
    MaxTasks,           \* bound on the number of GPU tasks
    MaxRounds,          \* bound on the number of calls of BeginFrame
    RendersOutside      \* the application also renders between EndFrame and BeginFrame

ASSUME RendererAssumption ==
    /\ MaxTasks \in Nat
    /\ MaxRounds \in Nat
    /\ RendersOutside \in BOOLEAN

MaxFramesInFlight == 2
Frames == 0 .. MaxFramesInFlight - 1
Tasks == 1..MaxTasks
Rounds == 0..MaxRounds

VARIABLES
    pc,                 \* where the application's thread is in the loop
    round,              \* m_frameResources: number of NextFrame calls
    gpuRound,           \* GpuExecutor's m_frameResources, likewise
    fence,              \* inFlightFence of each frame
    fenceAfter,         \* the tasks submitted before that fence's submission
    presenting,         \* m_surfacesToPresent is not empty
    numTasks,           \* GPU tasks 1..numTasks have been scheduled
    recorded,           \* how far each task's recording is
    cbRound,            \* the round whose command pool each task uses
    viewRound,          \* the round whose view parameters each task uses
    numSubmitted,       \* tasks 1..numSubmitted are in the graphics queue
    numExecuted,        \* tasks 1..numExecuted have been executed
    presented,          \* history: the rounds that have presented something
    outside             \* history: the tasks scheduled outside frames

frameVars == <<pc, round, gpuRound, fence, fenceAfter, presenting>>
taskVars == <<numTasks, recorded, cbRound, viewRound, numSubmitted, numExecuted>>
historyVars == <<presented, outside>>
vars == <<frameVars, taskVars, historyVars>>

TypeOK ==
    /\ pc \in {"outside", "beginning", "inside", "ending", "destroying", "destroyed"}
    /\ round \in Rounds
    /\ gpuRound \in (IF pc = "beginning" THEN {round - 1} ELSE {round})
    /\ fence \in [Frames -> {"signalled", "pending"}]
    /\ fenceAfter \in [Frames -> 0..numSubmitted]
    /\ presenting \in BOOLEAN
    /\ numTasks \in 0..MaxTasks
    /\ recorded \in [Tasks -> {"no", "begun", "bound", "ready"}]
    /\ cbRound \in [Tasks -> Rounds]
    /\ viewRound \in [Tasks -> Rounds]
    /\ numSubmitted \in 0..numTasks
    /\ numExecuted \in 0..numSubmitted
    /\ presented \subseteq 1..round
    /\ outside \subseteq 1..numTasks

\* The fences are created signalled (FrameResources::FrameResources).
Init ==
    /\ pc = "outside"
    /\ round = 0
    /\ gpuRound = 0
    /\ fence = [f \in Frames |-> "signalled"]
    /\ fenceAfter = [f \in Frames |-> 0]
    /\ presenting = FALSE
    /\ numTasks = 0
    /\ recorded = [t \in Tasks |-> "no"]
    /\ cbRound = [t \in Tasks |-> 0]
    /\ viewRound = [t \in Tasks |-> 0]
    /\ numSubmitted = 0
    /\ numExecuted = 0
    /\ presented = {}
    /\ outside = {}

Current == round % MaxFramesInFlight

------------------------------------------------------------------------------
(* The frame loop *)

\* BeginFrame: m_frameResources.NextFrame() ...
BeginFrame ==
    /\ pc = "outside"
    /\ round < MaxRounds
    /\ pc' = "beginning"
    /\ round' = round + 1
    /\ UNCHANGED <<gpuRound, fence, fenceAfter, presenting, taskVars, historyVars>>

\* Mutant: the fence of the frame is not waited for.
FrameFenceIgnored == TRUE

\* ... waits for the frame's fence ...
FrameFenceSignalled == fence[Current] = "signalled"

SchedulerNextFrame == gpuRound' = gpuRound + 1

\* ... and has the command pools and the view parameters of the frame reset.
ResetFrame ==
    /\ pc = "beginning"
    /\ FrameFenceSignalled
    /\ pc' = "inside"
    /\ SchedulerNextFrame
    /\ UNCHANGED <<round, fence, fenceAfter, presenting, taskVars, historyVars>>

Schedule ==
    /\ numTasks < MaxTasks
    /\ numTasks' = numTasks + 1
    /\ outside' = IF pc = "outside" THEN outside \cup {numTasks'} ELSE outside
    /\ UNCHANGED <<recorded, cbRound, viewRound, numSubmitted, numExecuted, presented>>

MayRender == pc = "inside" \/ (RendersOutside /\ pc = "outside")

\* RenderToTexture, CopyTextureData.
RenderToTexture ==
    /\ MayRender
    /\ Schedule
    /\ UNCHANGED frameVars

\* RenderToSurface: AddSurfaceToPresent acquires an image, unless the surface
\* has one already; AcquireNextImage first waits for the frame's fence.
RenderToSurface ==
    /\ MayRender
    /\ presenting \/ fence[Current] = "signalled"
    /\ presenting' = TRUE
    /\ Schedule
    /\ UNCHANGED <<pc, round, gpuRound, fence, fenceAfter>>

\* (When no image can be acquired RenderToSurface schedules nothing and leaves
\* nothing to present: no state changes.)

EndFrame ==
    /\ pc = "inside"
    /\ pc' = "ending"
    /\ UNCHANGED <<round, gpuRound, fence, fenceAfter, presenting, taskVars, historyVars>>

\* Mutant: EndFrame does not wait for the tasks.
TasksIgnored == TRUE

\* Every task has been recorded and so, slot by slot, submitted.
WaitForCpu == \A t \in 1..numTasks : recorded[t] = "ready"

\* Mutant: the fence is reset before the early return.
EndWithoutPresentResets ==
    /\ pc = "ending"
    /\ WaitForCpu
    /\ ~presenting
    /\ pc' = "outside"
    /\ fence' = [fence EXCEPT ![Current] = "reset"]
    /\ UNCHANGED <<round, gpuRound, fenceAfter, presenting, taskVars, historyVars>>

\* With no surface to present EndFrame returns here ...
EndWithoutPresent ==
    /\ pc = "ending"
    /\ WaitForCpu
    /\ ~presenting
    /\ pc' = "outside"
    /\ UNCHANGED <<round, gpuRound, fence, fenceAfter, presenting, taskVars, historyVars>>

\* ... and otherwise it resets the frame's fence, has it signalled after all
\* that has been submitted, and presents.
EndWithPresent ==
    /\ pc = "ending"
    /\ WaitForCpu
    /\ presenting
    /\ pc' = "outside"
    /\ presenting' = FALSE
    /\ fence' = [fence EXCEPT ![Current] = "pending"]
    /\ fenceAfter' = [fenceAfter EXCEPT ![Current] = numSubmitted]
    /\ presented' = presented \cup {round}
    /\ UNCHANGED <<round, gpuRound, taskVars, outside>>

\* ~VulkanRenderer: WaitForGpu (the tasks are recorded, the device is idle)
\* and then, with a timeout, every frame's fence.
Destroy ==
    /\ pc = "outside"
    /\ pc' = "destroying"
    /\ UNCHANGED <<round, gpuRound, fence, fenceAfter, presenting, taskVars, historyVars>>

EndDestroy ==
    /\ pc = "destroying"
    /\ WaitForCpu
    /\ numExecuted = numSubmitted
    /\ \A f \in Frames : fence[f] = "signalled"
    /\ pc' = "destroyed"
    /\ UNCHANGED <<round, gpuRound, fence, fenceAfter, presenting, taskVars, historyVars>>

Terminated ==
    /\ pc = "destroyed"
    /\ UNCHANGED vars

------------------------------------------------------------------------------
(* The workers and the GPU *)

\* A task starts: its command buffer is of the scheduler's current frame.
BeginRecording(t) ==
    /\ t <= numTasks
    /\ recorded[t] = "no"
    /\ recorded' = [recorded EXCEPT ![t] = "begun"]
    /\ cbRound' = [cbRound EXCEPT ![t] = gpuRound]
    /\ viewRound' = [viewRound EXCEPT ![t] = gpuRound]
    /\ UNCHANGED <<numTasks, numSubmitted, numExecuted, frameVars, historyVars>>

\* The view parameters a task creates are of the renderer's current frame.
CreateViewParameters(t) ==
    /\ recorded[t] = "begun"
    /\ recorded' = [recorded EXCEPT ![t] = "bound"]
    /\ viewRound' = [viewRound EXCEPT ![t] = round]
    /\ UNCHANGED <<numTasks, cbRound, numSubmitted, numExecuted, frameVars, historyVars>>

\* SubmitCommandBuffer: all that is ready, up to the first slot that is not.
EndRecording(t) ==
    /\ recorded[t] \in {"begun", "bound"}
    /\ recorded' = [recorded EXCEPT ![t] = "ready"]
    /\ \E last \in numSubmitted .. numTasks :
        /\ \A u \in numSubmitted + 1 .. last : recorded'[u] = "ready"
        /\ last < numTasks => recorded'[last + 1] # "ready"
        /\ numSubmitted' = last
    /\ UNCHANGED <<numTasks, cbRound, viewRound, numExecuted, frameVars, historyVars>>

ExecuteTask ==
    /\ numExecuted < numSubmitted
    /\ numExecuted' = numExecuted + 1
    /\ UNCHANGED <<numTasks, recorded, cbRound, viewRound, numSubmitted, frameVars, historyVars>>

SignalFence(f) ==
    /\ fence[f] = "pending"
    /\ numExecuted >= fenceAfter[f]
    /\ fence' = [fence EXCEPT ![f] = "signalled"]
    /\ UNCHANGED <<pc, round, gpuRound, fenceAfter, presenting, taskVars, historyVars>>

Next ==
    \/ BeginFrame
    \/ ResetFrame
    \/ RenderToTexture
    \/ RenderToSurface
    \/ EndFrame
    \/ EndWithoutPresent
    \/ EndWithPresent
    \/ \E t \in Tasks : BeginRecording(t) \/ CreateViewParameters(t) \/ EndRecording(t)
    \/ ExecuteTask
    \/ \E f \in Frames : SignalFence(f)
    \/ Destroy
    \/ EndDestroy
    \/ Terminated

Spec == Init /\ [][Next]_vars

\* The workers record what is scheduled, the GPU executes and signals, and the
\* application comes out of BeginFrame and EndFrame when it can.
Fairness ==
    /\ WF_vars(ResetFrame)
    /\ WF_vars(EndDestroy)
    /\ WF_vars(EndWithoutPresent \/ EndWithPresent)
    /\ \A t \in Tasks : WF_vars(BeginRecording(t)) /\ WF_vars(EndRecording(t))
    /\ WF_vars(ExecuteTask)
    /\ \A f \in Frames : WF_vars(SignalFence(f))

FairSpec == Spec /\ Fairness

------------------------------------------------------------------------------
(* Properties *)

\* The command pool and the view parameters t uses have not been reset by
\* BeginFrame coming round to their frame again.
ResourcesIntact(t) ==
    /\ cbRound[t] + MaxFramesInFlight > gpuRound
    /\ viewRound[t] + MaxFramesInFlight > gpuRound

InUse(t) == recorded[t] # "no" /\ t > numExecuted

\* "ensuring they never work on the same frame at the same time": what a task of
\* a frame that presents something uses is not reset while it is recorded or
\* before the GPU has executed it, whatever the frames around it do: the frame's
\* fence covers it. (EndFrame leaves the fence of any other frame signalled.)
PresentedFramesAreWaitedFor ==
    \A t \in Tasks \ outside : InUse(t) /\ cbRound[t] \in presented => ResourcesIntact(t)

\* A task scheduled inside a frame never mixes two frames, although it reads
\* two counters at different times: its command buffer and its view parameters
\* are of the same one.
OneFramePerTask ==
    \A t \in Tasks \ outside : cbRound[t] = viewRound[t]

\* BeginFrame, EndFrame and the destructor always return: a fence they wait for
\* is one the GPU will signal.
FramesProceed ==
    /\ pc = "beginning" ~> pc = "inside"
    /\ pc = "ending" ~> pc = "outside"
    /\ pc = "destroying" ~> pc = "destroyed"

==============================================================================
