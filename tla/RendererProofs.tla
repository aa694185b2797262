--------------------------- MODULE RendererProofs ---------------------------
(***************************************************************************)
(* Proofs about Renderer, for any number of GPU tasks and of frames.       *)
(*                                                                         *)
(* The argument.  EndFrame waits for the workers, so a task scheduled in a *)
(* frame is recorded in it, while the renderer's and the scheduler's       *)
(* counters agree.  All tasks are submitted by then, so the fence of a     *)
(* frame that presents comes after them.  The fence is reset again only in *)
(* the round two later, which begins with waiting for it: until then it is *)
(* pending or the tasks have been executed.                                *)
(*                                                                         *)
(* The second part is about ThreadMap, in which the renderer keeps the     *)
(* resources of its frames for each worker.                                *)
(***************************************************************************)
EXTENDS Renderer, ThreadMap, FiniteSetTheorems, TLAPS

\* The slots are submitted up to the first that is not ready.
SubmitInv ==
    /\ \A t \in Tasks : t > numTasks => recorded[t] = "no"
    /\ \A t \in 1..numSubmitted : recorded[t] = "ready"
    /\ numSubmitted < numTasks => recorded[numSubmitted + 1] # "ready"

\* A task of a frame is recorded before the frame ends, in one frame.
RecordInv ==
    \A t \in 1..numTasks \ outside :
        /\ recorded[t] # "ready" => pc \in {"inside", "ending"}
        /\ recorded[t] = "no" => cbRound[t] = 0 /\ viewRound[t] = 0
        /\ recorded[t] \in {"begun", "bound"} => cbRound[t] = gpuRound
        /\ cbRound[t] = viewRound[t]

\* A frame that is not over has not presented; tasks to come have no frame yet.
FrameInv ==
    /\ pc \in {"beginning", "inside", "ending"} => round > 0 /\ round \notin presented
    /\ \A t \in Tasks : t > numTasks => cbRound[t] = 0 /\ viewRound[t] = 0

\* The fence that covers a task, while it is needed
Covered(t) ==
    \/ t <= numExecuted
    \/ /\ fence[cbRound[t] % MaxFramesInFlight] = "pending"
       /\ t <= fenceAfter[cbRound[t] % MaxFramesInFlight]
       /\ cbRound[t] + MaxFramesInFlight > gpuRound

FenceInv ==
    \A t \in 1..numTasks \ outside : recorded[t] # "no" /\ cbRound[t] \in presented => Covered(t)

Inv == TypeOK /\ SubmitInv /\ RecordInv /\ FrameInv /\ FenceInv

-----------------------------------------------------------------------------

\* Rounds that use the same frame are the same or two apart.
LEMMA FrameOfRound == ASSUME NEW r \in Nat
                      PROVE  /\ r % MaxFramesInFlight \in Frames
                             /\ \A s \in Nat : s % MaxFramesInFlight = r % MaxFramesInFlight
                                               /\ s <= r /\ s + MaxFramesInFlight > r => s = r
                             /\ \A s \in Nat : s + MaxFramesInFlight = r =>
                                               s % MaxFramesInFlight = r % MaxFramesInFlight
  BY DEF MaxFramesInFlight, Frames

\* Before the first frame.
LEMMA InvInit == Init => Inv
  <1> SUFFICES ASSUME Init PROVE Inv
    OBVIOUS
  <1> USE RendererAssumption DEF RendererAssumption, Init
  <1>1. TypeOK
    <2>1. round \in Rounds /\ gpuRound = round /\ numTasks \in 0..MaxTasks /\ 0 \in Rounds
      BY DEF Rounds
    <2>2. fence \in [Frames -> {"signalled", "pending"}] /\ fenceAfter \in [Frames -> 0..numSubmitted]
      OBVIOUS
    <2>3. /\ recorded \in [Tasks -> {"no", "begun", "bound", "ready"}]
          /\ cbRound \in [Tasks -> Rounds] /\ viewRound \in [Tasks -> Rounds]
      BY <2>1
    <2>4. numSubmitted \in 0..numTasks /\ numExecuted \in 0..numSubmitted
      OBVIOUS
    <2> QED
      BY <2>1, <2>2, <2>3, <2>4 DEF TypeOK
  <1>2. SubmitInv /\ RecordInv /\ FrameInv /\ FenceInv
    BY DEF SubmitInv, RecordInv, FrameInv, FenceInv, Tasks
  <1> QED
    BY <1>1, <1>2 DEF Inv

\* The steps of the loop that leave the fences alone
LEMMA LoopKeepsInv ==
    ASSUME Inv, BeginFrame \/ EndFrame \/ EndWithoutPresent \/ Destroy \/ EndDestroy
    PROVE  Inv'
  <1> USE RendererAssumption DEF RendererAssumption
  <1>1. UNCHANGED <<gpuRound, fence, fenceAfter, presenting, numTasks, recorded, cbRound, viewRound,
                    numSubmitted, numExecuted, presented, outside>>
    BY DEF BeginFrame, EndFrame, EndWithoutPresent, Destroy, EndDestroy, taskVars, historyVars
  <1>2. TypeOK'
    <2>1. CASE BeginFrame
      BY <1>1, <2>1 DEF Inv, TypeOK, BeginFrame, Rounds
    <2>2. CASE EndFrame \/ EndWithoutPresent \/ Destroy \/ EndDestroy
      BY <1>1, <2>2 DEF Inv, TypeOK, EndFrame, EndWithoutPresent, Destroy, EndDestroy
    <2> QED
      BY <2>1, <2>2
  <1>3. SubmitInv' /\ FenceInv'
    BY <1>1 DEF Inv, SubmitInv, FenceInv, Covered
  <1>4. RecordInv'
    <2>1. CASE BeginFrame \/ Destroy \/ EndDestroy
      BY <1>1, <2>1 DEF Inv, RecordInv, BeginFrame, Destroy, EndDestroy
    <2>2. CASE EndFrame
      BY <1>1, <2>2 DEF Inv, RecordInv, EndFrame
    <2>3. CASE EndWithoutPresent
      BY <1>1, <2>3 DEF Inv, RecordInv, EndWithoutPresent, WaitForCpu
    <2> QED
      BY <2>1, <2>2, <2>3
  <1>5. FrameInv'
    <2>1. CASE BeginFrame
      BY <1>1, <2>1 DEF Inv, TypeOK, FrameInv, BeginFrame, Rounds
    <2>2. CASE EndFrame \/ EndWithoutPresent \/ Destroy \/ EndDestroy
      BY <1>1, <2>2 DEF Inv, FrameInv, EndFrame, EndWithoutPresent, Destroy, EndDestroy
    <2> QED
      BY <2>1, <2>2
  <1> QED
    BY <1>2, <1>3, <1>4, <1>5 DEF Inv

\* BeginFrame comes round to a frame whose fence is signalled.
LEMMA ResetKeepsInv == ASSUME Inv, ResetFrame PROVE Inv'
  <1> USE RendererAssumption DEF RendererAssumption
  <1>1. /\ pc = "beginning" /\ pc' = "inside" /\ gpuRound' = gpuRound + 1 /\ gpuRound = round - 1
        /\ fence[round % MaxFramesInFlight] = "signalled" /\ round \in Nat
        /\ UNCHANGED <<round, fence, fenceAfter, presenting, numTasks, recorded, cbRound, viewRound,
                       numSubmitted, numExecuted, presented, outside>>
    BY DEF Inv, TypeOK, ResetFrame, FrameFenceSignalled, SchedulerNextFrame, Current, Rounds, taskVars, historyVars
  <1>2. TypeOK'
    BY <1>1 DEF Inv, TypeOK, Rounds
  <1>3. SubmitInv' /\ FrameInv'
    BY <1>1 DEF Inv, SubmitInv, FrameInv
  <1>4. RecordInv'
    BY <1>1 DEF Inv, RecordInv
  <1>5. FenceInv'
    <2> SUFFICES ASSUME NEW t \in 1..numTasks \ outside, recorded[t] # "no", cbRound[t] \in presented
                 PROVE  Covered(t)'
      BY <1>1 DEF FenceInv
    <2>1. Covered(t) /\ cbRound[t] \in Nat
      BY DEF Inv, FenceInv, TypeOK, Tasks, Rounds
    <2>2. CASE t <= numExecuted
      BY <1>1, <2>2 DEF Covered
    <2>3. CASE ~(t <= numExecuted)
      <3>1. cbRound[t] + MaxFramesInFlight # round
        BY <1>1, <2>1, <2>3, FrameOfRound DEF Covered
      <3> QED
        BY <1>1, <2>1, <2>3, <3>1 DEF Covered, MaxFramesInFlight
    <2> QED
      BY <2>2, <2>3
  <1> QED
    BY <1>2, <1>3, <1>4, <1>5 DEF Inv

\* Scheduling a task keeps the invariant.
LEMMA RenderKeepsInv == ASSUME Inv, RenderToTexture \/ RenderToSurface PROVE Inv'
  <1> USE RendererAssumption DEF RendererAssumption, Tasks
  <1> DEFINE n == numTasks + 1
  <1>1. /\ n \in Tasks /\ numTasks' = n /\ pc \in {"inside", "outside"} /\ presenting' \in BOOLEAN
        /\ outside' = IF pc = "outside" THEN outside \cup {n} ELSE outside
        /\ UNCHANGED <<pc, round, gpuRound, fence, fenceAfter, recorded, cbRound, viewRound,
                       numSubmitted, numExecuted, presented>>
    <2>1. presenting' \in BOOLEAN /\ UNCHANGED <<pc, round, gpuRound, fence, fenceAfter>> /\ Schedule /\ MayRender
      BY DEF Inv, TypeOK, RenderToTexture, RenderToSurface, frameVars
    <2>2. n \in Tasks /\ numTasks' = n
      BY <2>1 DEF Inv, TypeOK, Schedule
    <2> QED
      BY <2>1, <2>2 DEF Schedule, MayRender
  <1>2. recorded[n] = "no" /\ cbRound[n] = 0 /\ viewRound[n] = 0
    BY <1>1 DEF Inv, TypeOK, SubmitInv, FrameInv
  <1>3. TypeOK'
    BY <1>1 DEF Inv, TypeOK
  <1>4. SubmitInv'
    BY <1>1, <1>2 DEF Inv, TypeOK, SubmitInv
  <1>5. RecordInv'
    BY <1>1, <1>2 DEF Inv, TypeOK, RecordInv
  <1>6. FrameInv'
    BY <1>1 DEF Inv, TypeOK, FrameInv
  <1>7. FenceInv'
    BY <1>1, <1>2 DEF Inv, TypeOK, FenceInv, Covered
  <1> QED
    BY <1>3, <1>4, <1>5, <1>6, <1>7 DEF Inv

\* EndFrame presents: the fence comes after every task there is.
LEMMA PresentKeepsInv == ASSUME Inv, EndWithPresent PROVE Inv'
  <1> USE RendererAssumption DEF RendererAssumption
  <1> DEFINE f == round % MaxFramesInFlight
  <1>1. /\ pc = "ending" /\ pc' = "outside" /\ presenting' = FALSE /\ gpuRound = round
        /\ fence' = [fence EXCEPT ![f] = "pending"] /\ fenceAfter' = [fenceAfter EXCEPT ![f] = numSubmitted]
        /\ presented' = presented \cup {round}
        /\ UNCHANGED <<round, gpuRound, numTasks, recorded, cbRound, viewRound, numSubmitted, numExecuted, outside>>
    BY DEF Inv, TypeOK, EndWithPresent, Current, taskVars
  <1>2. round \in Nat /\ f \in Frames /\ round \notin presented /\ presented \subseteq 1..round
    BY <1>1, FrameOfRound DEF Inv, TypeOK, Rounds, FrameInv
  <1>3. numSubmitted = numTasks /\ \A t \in 1..numTasks : recorded[t] = "ready"
    BY DEF Inv, TypeOK, SubmitInv, EndWithPresent, WaitForCpu
  <1>4. 1..round' = 1..round /\ round \in 1..round
    <2>1. round # 0
      BY <1>1 DEF Inv, TypeOK, Rounds, FrameInv
    <2> QED
      BY <1>1, <1>2, <2>1
  <1>5. TypeOK'
    <2> HIDE DEF f
    <2>1. fence' \in [Frames -> {"signalled", "pending"}] /\ fenceAfter' \in [Frames -> 0..numSubmitted]
      BY <1>1, <1>2 DEF Inv, TypeOK
    <2>2. presented' \subseteq 1..round
      BY <1>1, <1>2, <1>4
    <2> QED
      BY <1>1, <2>1, <2>2 DEF Inv, TypeOK
  <1>6. SubmitInv' /\ FrameInv'
    BY <1>1 DEF Inv, SubmitInv, FrameInv
  <1>7. RecordInv'
    BY <1>1, <1>3 DEF Inv, RecordInv
  <1>8. FenceInv'
    <2> SUFFICES ASSUME NEW t \in 1..numTasks \ outside, cbRound[t] \in presented \cup {round}
                 PROVE  Covered(t)'
      BY <1>1 DEF FenceInv
    <2>1. cbRound[t] \in Nat /\ t \in Nat
      BY DEF Inv, TypeOK, Tasks, Rounds
    <2>2. CASE cbRound[t] = round
      BY <1>1, <1>2, <1>3, <2>2 DEF Covered, Inv, TypeOK, MaxFramesInFlight
    <2>3. CASE cbRound[t] # round
      <3>1. Covered(t) /\ cbRound[t] <= round
        <4>1. cbRound[t] \in presented /\ recorded[t] # "no"
          BY <1>3, <2>3
        <4> QED
          BY <1>2, <2>1, <4>1 DEF Inv, FenceInv
      <3>2. CASE t <= numExecuted
        BY <1>1, <3>2 DEF Covered
      <3>3. CASE ~(t <= numExecuted)
        <4>1. cbRound[t] % MaxFramesInFlight # f /\ cbRound[t] % MaxFramesInFlight \in Frames
          BY <1>1, <1>2, <2>1, <2>3, <3>1, <3>3, FrameOfRound DEF Covered
        <4> HIDE DEF f
        <4> QED
          BY <1>1, <3>1, <3>3, <4>1 DEF Covered, Inv, TypeOK
      <3> QED
        BY <3>2, <3>3
    <2> QED
      BY <2>2, <2>3
  <1> QED
    BY <1>5, <1>6, <1>7, <1>8 DEF Inv

\* The workers
LEMMA BeginRecordingKeepsInv == ASSUME Inv, NEW t \in Tasks, BeginRecording(t) PROVE Inv'
  <1> USE RendererAssumption DEF RendererAssumption
  <1>1. /\ t \in 1..numTasks /\ recorded[t] = "no" /\ recorded' = [recorded EXCEPT ![t] = "begun"]
        /\ cbRound' = [cbRound EXCEPT ![t] = gpuRound] /\ viewRound' = [viewRound EXCEPT ![t] = gpuRound]
        /\ UNCHANGED <<pc, round, gpuRound, fence, fenceAfter, presenting, numTasks, numSubmitted, numExecuted,
                       presented, outside>>
    BY DEF Inv, TypeOK, BeginRecording, frameVars, historyVars, Tasks
  <1>2. gpuRound \in Rounds
    BY DEF Inv, TypeOK, FrameInv, Rounds
  <1>3. TypeOK'
    BY <1>1, <1>2 DEF Inv, TypeOK
  <1>4. SubmitInv'
    BY <1>1 DEF Inv, TypeOK, SubmitInv, Tasks
  <1>5. RecordInv'
    BY <1>1, <1>2 DEF Inv, TypeOK, RecordInv, Tasks
  <1>6. FrameInv'
    BY <1>1 DEF Inv, TypeOK, FrameInv, Tasks
  <1>7. FenceInv'
    <2>1. t \notin outside => gpuRound \notin presented
      BY <1>1 DEF Inv, TypeOK, RecordInv, FrameInv
    <2> SUFFICES ASSUME NEW u \in 1..numTasks \ outside, recorded[u] # "no" \/ u = t, cbRound'[u] \in presented
                 PROVE  Covered(u)'
      BY <1>1 DEF FenceInv, Inv, TypeOK, Tasks
    <2>2. u # t /\ cbRound'[u] = cbRound[u]
      BY <1>1, <2>1 DEF Inv, TypeOK, Tasks
    <2>3. Covered(u)
      BY <2>2 DEF Inv, FenceInv
    <2> QED
      BY <1>1, <2>2, <2>3 DEF Covered
  <1> QED
    BY <1>3, <1>4, <1>5, <1>6, <1>7 DEF Inv

\* A task takes its view parameters from the frame it was scheduled in.
LEMMA CreateViewParametersKeepsInv == ASSUME Inv, NEW t \in Tasks, CreateViewParameters(t) PROVE Inv'
  <1> USE RendererAssumption DEF RendererAssumption
  <1>1. /\ recorded[t] = "begun" /\ recorded' = [recorded EXCEPT ![t] = "bound"]
        /\ viewRound' = [viewRound EXCEPT ![t] = round]
        /\ UNCHANGED <<pc, round, gpuRound, fence, fenceAfter, presenting, numTasks, cbRound, numSubmitted,
                       numExecuted, presented, outside>>
    BY DEF Inv, TypeOK, CreateViewParameters, frameVars, historyVars
  <1>2. t \in 1..numTasks
    BY <1>1 DEF Inv, TypeOK, SubmitInv, Tasks
  <1>3. TypeOK'
    BY <1>1 DEF Inv, TypeOK
  <1>4. SubmitInv'
    BY <1>1, <1>2 DEF Inv, TypeOK, SubmitInv, Tasks
  <1>5. RecordInv'
    <2>1. t \notin outside => cbRound[t] = round
      BY <1>1, <1>2 DEF Inv, TypeOK, RecordInv
    <2> QED
      BY <1>1, <1>2, <2>1 DEF Inv, TypeOK, RecordInv, Tasks
  <1>6. FrameInv'
    BY <1>1, <1>2 DEF Inv, TypeOK, FrameInv, Tasks
  <1>7. FenceInv'
    BY <1>1, <1>2 DEF Inv, TypeOK, FenceInv, Covered, Tasks
  <1> QED
    BY <1>3, <1>4, <1>5, <1>6, <1>7 DEF Inv

\* A recorded task is submitted with those before it.
LEMMA EndRecordingKeepsInv == ASSUME Inv, NEW t \in Tasks, EndRecording(t) PROVE Inv'
  <1> USE RendererAssumption DEF RendererAssumption
  <1>1. /\ recorded[t] \in {"begun", "bound"} /\ recorded' = [recorded EXCEPT ![t] = "ready"]
        /\ UNCHANGED <<pc, round, gpuRound, fence, fenceAfter, presenting, numTasks, cbRound, viewRound,
                       numExecuted, presented, outside>>
    BY DEF Inv, TypeOK, EndRecording, frameVars, historyVars
  <1>2. PICK last \in numSubmitted .. numTasks :
            /\ \A u \in numSubmitted + 1 .. last : recorded'[u] = "ready"
            /\ last < numTasks => recorded'[last + 1] # "ready"
            /\ numSubmitted' = last
    BY DEF EndRecording
  <1>3. t \in 1..numTasks
    BY <1>1 DEF Inv, TypeOK, SubmitInv, Tasks
  <1>4. TypeOK'
    BY <1>1, <1>2 DEF Inv, TypeOK
  <1>5. SubmitInv'
    BY <1>1, <1>2, <1>3 DEF Inv, TypeOK, SubmitInv, Tasks
  <1>6. RecordInv'
    BY <1>1, <1>3 DEF Inv, TypeOK, RecordInv, Tasks
  <1>7. FrameInv'
    BY <1>1 DEF Inv, FrameInv
  <1>8. FenceInv'
    BY <1>1, <1>3 DEF Inv, TypeOK, FenceInv, Covered, Tasks
  <1> QED
    BY <1>4, <1>5, <1>6, <1>7, <1>8 DEF Inv

\* The GPU
LEMMA GpuKeepsInv == ASSUME Inv, ExecuteTask \/ \E f \in Frames : SignalFence(f) PROVE Inv'
  <1> USE RendererAssumption DEF RendererAssumption
  <1>1. UNCHANGED <<pc, round, gpuRound, fenceAfter, presenting, numTasks, recorded, cbRound, viewRound,
                    numSubmitted, presented, outside>>
    BY DEF ExecuteTask, SignalFence, frameVars, taskVars, historyVars
  <1>2. SubmitInv' /\ RecordInv' /\ FrameInv'
    BY <1>1 DEF Inv, SubmitInv, RecordInv, FrameInv
  <1>3. CASE ExecuteTask
    <2>1. numExecuted' = numExecuted + 1 /\ numExecuted < numSubmitted /\ fence' = fence
      BY <1>3 DEF ExecuteTask, frameVars
    <2>2. TypeOK'
      BY <1>1, <2>1 DEF Inv, TypeOK
    <2>3. FenceInv'
      BY <1>1, <2>1 DEF Inv, TypeOK, FenceInv, Covered
    <2> QED
      BY <1>2, <2>2, <2>3 DEF Inv
  <1>4. CASE \E f \in Frames : SignalFence(f)
    <2>1. PICK f \in Frames : SignalFence(f)
      BY <1>4
    <2>2. fence' = [fence EXCEPT ![f] = "signalled"] /\ numExecuted >= fenceAfter[f] /\ numExecuted' = numExecuted
      BY <2>1 DEF SignalFence, taskVars
    <2>3. TypeOK'
      BY <1>1, <2>2 DEF Inv, TypeOK
    <2>4. FenceInv'
      <3> SUFFICES ASSUME NEW t \in 1..numTasks \ outside, recorded[t] # "no", cbRound[t] \in presented
                   PROVE  Covered(t)'
        BY <1>1 DEF FenceInv
      <3>1. Covered(t) /\ fenceAfter[f] \in Nat /\ t \in Nat /\ numExecuted \in Nat
        BY DEF Inv, FenceInv, TypeOK
      <3>2. CASE cbRound[t] % MaxFramesInFlight = f
        BY <1>1, <2>2, <3>1, <3>2 DEF Covered
      <3>3. CASE cbRound[t] % MaxFramesInFlight # f
        <4>1. cbRound[t] % MaxFramesInFlight \in Frames
          BY FrameOfRound DEF Inv, TypeOK, Tasks, Rounds
        <4> QED
          BY <1>1, <2>2, <3>1, <3>3, <4>1 DEF Covered, Inv, TypeOK
      <3> QED
        BY <3>2, <3>3
    <2> QED
      BY <1>2, <2>3, <2>4 DEF Inv
  <1> QED
    BY <1>3, <1>4

\* Every step keeps the invariant.
LEMMA InvNext == Inv /\ [Next]_vars => Inv'
  <1> SUFFICES ASSUME Inv, [Next]_vars PROVE Inv'
    OBVIOUS
  <1>1. CASE BeginFrame \/ EndFrame \/ EndWithoutPresent \/ Destroy \/ EndDestroy
    BY <1>1, LoopKeepsInv
  <1>2. CASE ResetFrame
    BY <1>2, ResetKeepsInv
  <1>3. CASE RenderToTexture \/ RenderToSurface
    BY <1>3, RenderKeepsInv
  <1>4. CASE EndWithPresent
    BY <1>4, PresentKeepsInv
  <1>5. CASE \E t \in Tasks : BeginRecording(t) \/ CreateViewParameters(t) \/ EndRecording(t)
    BY <1>5, BeginRecordingKeepsInv, CreateViewParametersKeepsInv, EndRecordingKeepsInv
  <1>6. CASE ExecuteTask \/ \E f \in Frames : SignalFence(f)
    BY <1>6, GpuKeepsInv
  <1>7. CASE UNCHANGED vars
    BY <1>7 DEF vars, frameVars, taskVars, historyVars, Inv, TypeOK, SubmitInv, RecordInv, FrameInv, FenceInv, Covered
  <1> QED
    BY <1>1, <1>2, <1>3, <1>4, <1>5, <1>6, <1>7 DEF Next, Terminated

\* The inductive invariant.
LEMMA Invariance == Spec => []Inv
  BY InvInit, InvNext, PTL DEF Spec

\* The variables have the types TypeOK gives them: the scheduler's counter of
\* frames is behind the renderer's inside BeginFrame, and only there.
THEOREM TypeCorrect == Spec => []TypeOK
  <1>1. Inv => TypeOK
    BY DEF Inv
  <1> QED
    BY <1>1, Invariance, PTL

\* BeginFrame and EndFrame, for any number of tasks and frames: what a task of a
\* frame that presents uses is not reset before the GPU has executed the task.
THEOREM Presented == Spec => []PresentedFramesAreWaitedFor
  <1>1. Inv => PresentedFramesAreWaitedFor
    <2> SUFFICES ASSUME Inv, NEW t \in Tasks \ outside, InUse(t), cbRound[t] \in presented
                 PROVE  ResourcesIntact(t)
      BY DEF PresentedFramesAreWaitedFor
    <2>1. t \in 1..numTasks
      BY RendererAssumption DEF RendererAssumption, Inv, TypeOK, SubmitInv, InUse, Tasks
    <2>2. Covered(t) /\ cbRound[t] = viewRound[t]
      BY <2>1 DEF Inv, FenceInv, RecordInv, InUse
    <2>3. t \in Nat /\ numExecuted \in Nat
      BY <2>1 DEF Inv, TypeOK
    <2> QED
      BY <2>2, <2>3 DEF Covered, ResourcesIntact, InUse
  <1> QED
    BY <1>1, Invariance, PTL

\* A task of a frame takes its command buffer and its view parameters from the
\* same frame, for any number of tasks, workers and frames.
THEOREM OneFrame == Spec => []OneFramePerTask
  <1>1. Inv => OneFramePerTask
    <2> SUFFICES ASSUME Inv, NEW t \in Tasks \ outside PROVE cbRound[t] = viewRound[t]
      BY DEF OneFramePerTask
    <2>1. CASE t > numTasks
      BY <2>1 DEF Inv, FrameInv
    <2>2. CASE ~(t > numTasks)
      <3>1. t \in 1..numTasks \ outside
        BY <2>2, RendererAssumption DEF RendererAssumption, Inv, TypeOK, Tasks
      <3> QED
        BY <3>1 DEF Inv, RecordInv
    <2> QED
      BY <2>1, <2>2
  <1> QED
    BY <1>1, Invariance, PTL

------------------------------------------------------------------------------
(***************************************************************************)
(* ThreadMap, for any finite set of threads and any capacity.              *)
(*                                                                         *)
(* The argument. Entries are taken by incrementing m_size, so an entry is  *)
(* taken once as long as m_size never falls below an entry that is taken.  *)
(* Only Undo decreases it, and each Undo takes back an increment that went *)
(* beyond the capacity: m_size is at least the capacity plus the number of *)
(* threads about to undo, so it never falls below the capacity.            *)
(***************************************************************************)
\* The threads whose increment went beyond the capacity.
Undoers == {t \in Threads : place[t] = "undo"}

\* Undo never takes m_size below the capacity.
SizeInv == Undoers # {} => size >= Capacity + Cardinality(Undoers)

\* An entry belongs to at most one thread, and to some thread exactly if it
\* lies below m_size.
HoldersInv ==
    /\ \A t, u \in Threads : \A i \in Entries : Holds(t, i) /\ Holds(u, i) => t = u
    /\ \A t \in Threads : \A i \in Entries : Holds(t, i) => i <= size
    /\ \A i \in Entries : i <= size => \E t \in Threads : Holds(t, i)

\* The ids are those of the threads that have an entry.
IdsInv ==
    \A t \in Threads : \A i \in Entries : ids[i] = t <=> entryOf[t] = i

\* A thread that has an entry finds it; one that takes an entry has none.
OneThreadInv(t) ==
    /\ place[t] = "find" /\ entryOf[t] # None =>
            position[t] < entryOf[t] /\ entryOf[t] <= usedEntries[t]
    /\ place[t] = "find" => position[t] <= usedEntries[t]
    /\ place[t] \in {"claim", "store", "undo"} => entryOf[t] = None
    /\ place[t] = "store" => index[t] \in Entries
    /\ place[t] = "using" => index[t] = entryOf[t] /\ index[t] \in Entries

ThreadInv == \A t \in Threads : OneThreadInv(t)

MapInv == MapTypeOK /\ SizeInv /\ HoldersInv /\ IdsInv /\ ThreadInv

------------------------------------------------------------------------------

\* A step of one thread.
MapStep(t) ==
    \/ LoadSize(t)
    \/ Find(t)
    \/ NotFound(t)
    \/ FetchAdd(t)
    \/ Undo(t)
    \/ StoreId(t)
    \/ Return(t)

\* An empty map.
LEMMA MapInvInit == MapInit => MapInv
  <1> SUFFICES ASSUME MapInit PROVE MapInv
    OBVIOUS
  <1> USE ThreadMapAssumption DEF ThreadMapAssumption, MapInit, Entries, None
  <1>1. MapTypeOK
    BY DEF MapTypeOK
  <1>2. SizeInv
    BY DEF SizeInv, Undoers
  <1>3. HoldersInv
    BY DEF HoldersInv, Holds
  <1>4. IdsInv
    BY DEF IdsInv
  <1>5. ThreadInv
    BY DEF ThreadInv, OneThreadInv
  <1> QED
    BY <1>1, <1>2, <1>3, <1>4, <1>5 DEF MapInv

\* Every step keeps the types.
LEMMA TypeNext ==
    ASSUME MapInv, NEW t \in Threads, MapStep(t)
    PROVE  MapTypeOK'
  <1> USE ThreadMapAssumption DEF ThreadMapAssumption, MapInv, MapTypeOK
  <1>1. CASE LoadSize(t)
    <2>1. Used \in 0..Capacity
      BY DEF Used
    <2> QED
      BY <1>1, <2>1 DEF LoadSize
  <1>2. CASE Find(t)
    <2>1. position[t] + 1 \in 0..Capacity /\ position[t] + 1 \in Nat
      BY <1>2 DEF Find
    <2>2. position' \in [Threads -> 0..Capacity]
      BY <1>2, <2>1 DEF Find
    <2>3. UNCHANGED <<size, ids, usedEntries, entryOf>>
      BY <1>2 DEF Find
    <2>4. CASE ids[position[t] + 1] = t
      <3>1. place' = [place EXCEPT ![t] = "using"] /\ index' = [index EXCEPT ![t] = position[t] + 1]
        BY <1>2, <2>4 DEF Find
      <3>2. index' \in [Threads -> Nat]
        BY <2>1, <3>1
      <3> QED
        BY <2>2, <2>3, <3>1, <3>2
    <2>5. CASE ids[position[t] + 1] # t
      BY <1>2, <2>2, <2>5 DEF Find
    <2> QED
      BY <2>4, <2>5
  <1>3. CASE NotFound(t)
    BY <1>3 DEF NotFound
  <1>4. CASE FetchAdd(t)
    <2>1. place' \in [Threads -> {"idle", "find", "claim", "store", "undo", "using"}]
      BY <1>4 DEF FetchAdd
    <2>2. size' \in Nat /\ index' \in [Threads -> Nat]
      BY <1>4 DEF FetchAdd, Increment
    <2> QED
      BY <1>4, <2>1, <2>2 DEF FetchAdd
  <1>5. CASE Undo(t)
    <2>1. t \in Undoers /\ IsFiniteSet(Undoers)
      BY <1>5, FS_Subset DEF Undo, Undoers
    <2>2. Cardinality(Undoers) \in Nat \ {0}
      BY <2>1, FS_CardinalityType, FS_EmptySet
    <2>3. size' \in Nat
      BY <1>5, <2>1, <2>2 DEF SizeInv, Undo
    <2> QED
      BY <1>5, <2>3 DEF Undo, None
  <1>6. CASE StoreId(t)
    <2>1. index[t] \in Entries
      BY <1>6 DEF StoreId, ThreadInv, OneThreadInv
    <2>2. ids' \in [Entries -> Threads \cup {Constructor}]
      BY <1>6 DEF StoreId
    <2>3. entryOf' \in [Threads -> 0..Capacity]
      BY <1>6, <2>1 DEF StoreId, Entries
    <2> QED
      BY <1>6, <2>2, <2>3 DEF StoreId
  <1>7. CASE Return(t)
    BY <1>7 DEF Return, None
  <1> QED
    BY <1>1, <1>2, <1>3, <1>4, <1>5, <1>6, <1>7 DEF MapStep

\* Each increment beyond the capacity makes one thread an undoer, and each
\* undoer takes back one.
LEMMA SizeNext ==
    ASSUME MapInv, NEW t \in Threads, MapStep(t)
    PROVE  SizeInv'
  <1> USE ThreadMapAssumption DEF ThreadMapAssumption, MapInv, MapTypeOK
  <1>1. IsFiniteSet(Undoers) /\ Cardinality(Undoers) \in Nat
    BY FS_Subset, FS_CardinalityType DEF Undoers
  <1>2. CASE FetchAdd(t) /\ size + 1 > Capacity
    <2>1. t \notin Undoers /\ Undoers' = Undoers \cup {t}
      BY <1>2 DEF FetchAdd, Undoers
    <2>2. Cardinality(Undoers') = Cardinality(Undoers) + 1
      BY <1>1, <2>1, FS_AddElement
    <2>3. Undoers = {} => Cardinality(Undoers) = 0
      BY FS_EmptySet
    <2>4. size' = size + 1
      BY <1>2 DEF FetchAdd, Increment
    <2> QED
      BY <1>1, <1>2, <2>2, <2>3, <2>4 DEF SizeInv
  <1>3. CASE FetchAdd(t) /\ ~(size + 1 > Capacity)
    <2>1. Undoers' = Undoers
      BY <1>3 DEF FetchAdd, Undoers
    <2>2. size' = size + 1
      BY <1>3 DEF FetchAdd, Increment
    <2> QED
      BY <1>1, <2>1, <2>2 DEF SizeInv
  <1>4. CASE Undo(t)
    <2>1. t \in Undoers /\ Undoers' = Undoers \ {t}
      BY <1>4 DEF Undo, Undoers
    <2>2. Cardinality(Undoers') = Cardinality(Undoers) - 1
      BY <1>1, <2>1, FS_RemoveElement
    <2>3. size' = size - 1
      BY <1>4 DEF Undo
    <2> QED
      BY <1>1, <2>1, <2>2, <2>3 DEF SizeInv
  <1>5. CASE ~FetchAdd(t) /\ ~Undo(t)
    <2>1. size' = size
      BY <1>5 DEF MapStep, LoadSize, Find, NotFound, StoreId, Return
    <2>2. \A u \in Threads : place'[u] = "undo" <=> place[u] = "undo"
      BY <1>5 DEF MapStep, LoadSize, Find, NotFound, StoreId, Return
    <2>3. Undoers' = Undoers
      BY <2>2 DEF Undoers
    <2> QED
      BY <2>1, <2>3 DEF SizeInv
  <1> QED
    BY <1>2, <1>3, <1>4, <1>5

\* Only FetchAdd, below the capacity, gives a thread an entry, and no step
\* takes one away.
LEMMA HoldsNext ==
    ASSUME MapInv, NEW t \in Threads, MapStep(t), NEW u \in Threads, NEW i \in Entries
    PROVE  Holds(u, i)' <=> Holds(u, i) \/ (FetchAdd(t) /\ u = t /\ i = size + 1)
  <1> USE ThreadMapAssumption DEF ThreadMapAssumption, MapInv, MapTypeOK, Holds, Entries, None
  <1>1. CASE LoadSize(t)
    BY <1>1 DEF LoadSize, FetchAdd
  <1>2. CASE Find(t)
    <2>1. CASE ids[position[t] + 1] = t
      BY <1>2, <2>1 DEF Find, FetchAdd
    <2>2. CASE ids[position[t] + 1] # t
      BY <1>2, <2>2 DEF Find, FetchAdd
    <2> QED
      BY <2>1, <2>2
  <1>3. CASE NotFound(t)
    BY <1>3 DEF NotFound, FetchAdd
  <1>4. CASE FetchAdd(t)
    <2>1. entryOf[t] = 0 /\ entryOf' = entryOf
      BY <1>4 DEF FetchAdd, ThreadInv, OneThreadInv
    <2>2. CASE u = t
      BY <1>4, <2>1, <2>2 DEF FetchAdd
    <2>3. CASE u # t
      BY <1>4, <2>1, <2>3 DEF FetchAdd
    <2> QED
      BY <2>2, <2>3
  <1>5. CASE Undo(t)
    BY <1>5 DEF Undo, FetchAdd
  <1>6. CASE StoreId(t)
    <2>1. entryOf[t] = 0 /\ place[t] = "store" /\ place'[t] = "using" /\ entryOf'[t] = index[t]
      BY <1>6 DEF StoreId, ThreadInv, OneThreadInv
    <2>2. CASE u = t
      BY <1>6, <2>1, <2>2 DEF FetchAdd
    <2>3. CASE u # t
      BY <1>6, <2>1, <2>3 DEF StoreId, FetchAdd
    <2> QED
      BY <2>2, <2>3
  <1>7. CASE Return(t)
    BY <1>7 DEF Return, FetchAdd
  <1> QED
    BY <1>1, <1>2, <1>3, <1>4, <1>5, <1>6, <1>7 DEF MapStep

\* Every step keeps one holder for each taken entry.
LEMMA HoldersNext ==
    ASSUME MapInv, NEW t \in Threads, MapStep(t)
    PROVE  HoldersInv'
  <1> USE ThreadMapAssumption DEF ThreadMapAssumption
  <1>0. \A u \in Threads : \A i \in Entries :
            Holds(u, i)' <=> Holds(u, i) \/ (FetchAdd(t) /\ u = t /\ i = size + 1)
    BY HoldsNext
  <1>1. size \in Nat /\ Capacity \in Nat /\ \A i \in Entries : i \in Nat /\ i <= Capacity
    BY DEF MapInv, MapTypeOK, Entries
  <1>2. /\ \A u, v \in Threads : \A i \in Entries : Holds(u, i) /\ Holds(v, i) => u = v
        /\ \A u \in Threads : \A i \in Entries : Holds(u, i) => i <= size
        /\ \A i \in Entries : i <= size => \E u \in Threads : Holds(u, i)
    BY DEF MapInv, HoldersInv
  <1>3. \/ FetchAdd(t) /\ size' = size + 1
        \/ ~FetchAdd(t) /\ size' = size
        \/ ~FetchAdd(t) /\ size' = size - 1 /\ size > Capacity
    <2>1. CASE FetchAdd(t)
      BY <2>1 DEF FetchAdd, Increment
    <2>2. CASE Undo(t)
      <3>1. t \in Undoers /\ IsFiniteSet(Undoers)
        BY <2>2, FS_Subset DEF Undo, Undoers
      <3>2. Cardinality(Undoers) \in Nat \ {0}
        BY <3>1, FS_CardinalityType, FS_EmptySet
      <3>3. size > Capacity
        BY <1>1, <3>1, <3>2 DEF MapInv, SizeInv
      <3> QED
        BY <2>2, <3>3 DEF Undo, FetchAdd
    <2>3. CASE ~FetchAdd(t) /\ ~Undo(t)
      BY <2>3 DEF MapStep, LoadSize, Find, NotFound, StoreId, Return
    <2> QED
      BY <2>1, <2>2, <2>3
  <1>4. ASSUME NEW u \in Threads, NEW v \in Threads, NEW i \in Entries,
               Holds(u, i)', Holds(v, i)'
        PROVE  u = v
    BY <1>0, <1>1, <1>2, <1>4
  <1>5. ASSUME NEW u \in Threads, NEW i \in Entries, Holds(u, i)'
        PROVE  i <= size'
    BY <1>0, <1>1, <1>2, <1>3, <1>5
  <1>6. ASSUME NEW i \in Entries, i <= size'
        PROVE  \E u \in Threads : Holds(u, i)'
    <2>1. CASE i <= size
      BY <1>0, <1>2, <2>1
    <2>2. CASE ~(i <= size)
      <3>1. FetchAdd(t) /\ i = size + 1
        BY <1>1, <1>3, <1>6, <2>2
      <3> QED
        BY <1>0, <3>1
    <2> QED
      BY <2>1, <2>2
  <1>7. Entries' = Entries
    BY DEF Entries
  <1> QED
    BY <1>4, <1>5, <1>6, <1>7 DEF HoldersInv

\* Every step keeps the ids right.
LEMMA IdsNext ==
    ASSUME MapInv, NEW t \in Threads, MapStep(t)
    PROVE  IdsInv'
  <1> USE ThreadMapAssumption DEF ThreadMapAssumption, MapInv, MapTypeOK
  <1>1. CASE StoreId(t)
    <2>1. index[t] \in Entries /\ entryOf[t] = None /\ place[t] = "store"
      BY <1>1 DEF StoreId, ThreadInv, OneThreadInv
    <2>2. SUFFICES ASSUME NEW u \in Threads, NEW i \in Entries
                   PROVE  ids'[i] = u <=> entryOf'[u] = i
      BY DEF IdsInv, Entries
    <2>3. entryOf[t] # i
      BY <2>1 DEF None, Entries
    <2>4. CASE u = t
      BY <1>1, <2>1, <2>3, <2>4 DEF StoreId, IdsInv
    <2>5. CASE u # t
      <3>1. entryOf[u] # index[t]
        BY <2>1, <2>5 DEF HoldersInv, Holds
      <3> QED
        BY <1>1, <2>1, <2>5, <3>1 DEF StoreId, IdsInv
    <2> QED
      BY <2>4, <2>5
  <1>2. CASE ~StoreId(t)
    <2>1. ids' = ids /\ entryOf' = entryOf
      BY <1>2 DEF MapStep, LoadSize, Find, NotFound, FetchAdd, Undo, Return
    <2> QED
      BY <2>1 DEF IdsInv, Entries
  <1> QED
    BY <1>1, <1>2

\* Every step keeps what is known of a thread's search.
LEMMA ThreadNext ==
    ASSUME MapInv, NEW t \in Threads, MapStep(t)
    PROVE  ThreadInv'
  <1> USE ThreadMapAssumption DEF ThreadMapAssumption, MapInv, MapTypeOK
  <1>0. OneThreadInv(t)
    BY DEF ThreadInv
  <1>1. ASSUME NEW u \in Threads, u # t
        PROVE  OneThreadInv(u)'
    <2>1. OneThreadInv(u)
      BY DEF ThreadInv
    <2>2. /\ place'[u] = place[u] /\ entryOf'[u] = entryOf[u] /\ position'[u] = position[u]
          /\ usedEntries'[u] = usedEntries[u] /\ index'[u] = index[u]
      BY <1>1 DEF MapStep, LoadSize, Find, NotFound, FetchAdd, Undo, StoreId, Return
    <2> QED
      BY <2>1, <2>2 DEF OneThreadInv, Entries, None
  <1>2. OneThreadInv(t)'
    <2>1. CASE LoadSize(t)
      <3>1. /\ place'[t] = "find" /\ entryOf'[t] = entryOf[t] /\ position'[t] = 0
            /\ usedEntries'[t] = Used
        BY <2>1 DEF LoadSize
      <3>2. ASSUME entryOf[t] # None PROVE 0 < entryOf[t] /\ entryOf[t] <= Used
        <4>1. entryOf[t] \in Entries /\ entryOf[t] <= Capacity
          BY <3>2 DEF Entries, None
        <4>2. entryOf[t] <= size
          BY <4>1 DEF HoldersInv, Holds
        <4> QED
          BY <4>1, <4>2 DEF Entries, Used
      <3>3. Used \in Nat
        BY DEF Used
      <3> QED
        BY <3>1, <3>2, <3>3 DEF OneThreadInv, None
    <2>2. CASE Find(t)
      <3>1. /\ place[t] = "find" /\ position[t] < usedEntries[t] /\ position'[t] = position[t] + 1
            /\ usedEntries'[t] = usedEntries[t] /\ entryOf'[t] = entryOf[t]
        BY <2>2 DEF Find
      <3>2. position[t] + 1 \in Entries
        BY <3>1 DEF Entries
      <3>3. ids[position[t] + 1] = t <=> entryOf[t] = position[t] + 1
        BY <3>2 DEF IdsInv
      <3>4. CASE ids[position[t] + 1] = t
        <4>1. place'[t] = "using" /\ index'[t] = position[t] + 1
          BY <2>2, <3>4 DEF Find
        <4> QED
          BY <3>1, <3>2, <3>3, <3>4, <4>1 DEF OneThreadInv, Entries
      <3>5. CASE ids[position[t] + 1] # t
        <4>1. place'[t] = "find"
          BY <2>2, <3>1, <3>5 DEF Find
        <4>2. entryOf[t] \in Int /\ position[t] \in Int /\ usedEntries[t] \in Int
          OBVIOUS
        <4>3. position[t] + 1 <= usedEntries[t]
          BY <3>1, <4>2
        <4>4. entryOf[t] # None => position[t] + 1 < entryOf[t] /\ entryOf[t] <= usedEntries[t]
          BY <1>0, <3>1, <3>3, <3>5, <4>2 DEF OneThreadInv
        <4> QED
          BY <3>1, <4>1, <4>3, <4>4 DEF OneThreadInv, None
      <3> QED
        BY <3>4, <3>5
    <2>3. CASE NotFound(t)
      <3>1. place[t] = "find" /\ position[t] = usedEntries[t] /\ place'[t] = "claim" /\ entryOf' = entryOf
        BY <2>3 DEF NotFound
      <3>2. entryOf[t] \in Int /\ position[t] \in Int
        OBVIOUS
      <3>3. entryOf[t] = None
        BY <1>0, <3>1, <3>2 DEF OneThreadInv
      <3> QED
        BY <3>1, <3>3 DEF OneThreadInv, None
    <2>4. CASE FetchAdd(t)
      <3>1. /\ index'[t] = size + 1 /\ entryOf' = entryOf /\ entryOf[t] = None
            /\ place'[t] = IF size + 1 > Capacity THEN "undo" ELSE "store"
        BY <1>0, <2>4 DEF FetchAdd, OneThreadInv
      <3>2. place'[t] = "store" => index'[t] \in Entries
        BY <3>1 DEF Entries
      <3>3. place'[t] \in {"undo", "store"}
        BY <3>1
      <3> QED
        BY <3>1, <3>2, <3>3 DEF OneThreadInv, None, Entries
    <2>5. CASE Undo(t) \/ Return(t)
      <3>1. place'[t] = "idle"
        BY <2>5 DEF Undo, Return
      <3> QED
        BY <3>1 DEF OneThreadInv
    <2>6. CASE StoreId(t)
      <3>1. place'[t] = "using" /\ entryOf'[t] = index[t] /\ index'[t] = index[t] /\ index[t] \in Entries
        BY <1>0, <2>6 DEF StoreId, OneThreadInv
      <3> QED
        BY <3>1 DEF OneThreadInv, Entries
    <2> QED
      BY <2>1, <2>2, <2>3, <2>4, <2>5, <2>6 DEF MapStep
  <1> QED
    BY <1>1, <1>2 DEF ThreadInv

\* Every step keeps the invariant.
LEMMA MapInvNext == MapInv /\ [MapNext]_mapVars => MapInv'
  <1> SUFFICES ASSUME MapInv, [MapNext]_mapVars PROVE MapInv'
    OBVIOUS
  <1>1. ASSUME NEW t \in Threads, MapStep(t) PROVE MapInv'
    BY <1>1, TypeNext, SizeNext, HoldersNext, IdsNext, ThreadNext DEF MapInv
  <1>2. CASE MapNext
    BY <1>1, <1>2 DEF MapNext, MapStep
  <1>3. CASE UNCHANGED mapVars
    BY <1>3 DEF mapVars, MapInv, MapTypeOK, SizeInv, Undoers, HoldersInv, Holds, IdsInv, ThreadInv, OneThreadInv,
                Entries, None
  <1> QED
    BY <1>2, <1>3

\* The inductive invariant of the map.
LEMMA InvAlways == MapSpec => []MapInv
  BY MapInvInit, MapInvNext, PTL DEF MapSpec

------------------------------------------------------------------------------
(* The properties *)

\* ThreadMap's variables keep their types: in particular m_size, which is
\* unsigned, never wraps below zero and no entry beyond the array is written.
THEOREM MapTypeCorrect == MapSpec => []MapTypeOK
  <1>1. MapInv => MapTypeOK
    BY DEF MapInv
  <1> QED
    BY <1>1, InvAlways, PTL

\* Two threads never use the object of one entry of ThreadMap.
THEOREM Exclusive == MapSpec => []ObjectsAreExclusive
  <1>1. MapInv => ObjectsAreExclusive
    BY DEF MapInv, ObjectsAreExclusive, ThreadInv, OneThreadInv, HoldersInv, Holds
  <1> QED
    BY <1>1, InvAlways, PTL

\* LockCurrent gives a thread the same object each time.
THEOREM SameObject == MapSpec => []SameObjectEachTime
  <1>1. MapInv => SameObjectEachTime
    BY DEF MapInv, SameObjectEachTime, ThreadInv, OneThreadInv
  <1> QED
    BY <1>1, InvAlways, PTL

\* GetCurrentObject throws its length_error only to a thread without an
\* entry, when all the entries are other threads'.
THEOREM Throws == MapSpec => []ThrowsOnlyWhenFull
  <1>1. ASSUME MapInv, NEW t \in Threads, place[t] = "undo"
        PROVE  /\ entryOf[t] = None
               /\ \A i \in Entries : \E u \in Threads \ {t} : Holds(u, i)
    <2>1. t \in Undoers /\ IsFiniteSet(Undoers)
      BY <1>1, ThreadMapAssumption, FS_Subset DEF Undoers, ThreadMapAssumption
    <2>2. Cardinality(Undoers) \in Nat
      BY <2>1, FS_CardinalityType
    <2>3. size \in Nat /\ size >= Capacity /\ Capacity \in Nat
      BY <1>1, <2>1, <2>2, ThreadMapAssumption DEF MapInv, MapTypeOK, SizeInv, ThreadMapAssumption
    <2>4. entryOf[t] = None
      BY <1>1 DEF MapInv, ThreadInv, OneThreadInv
    <2>5. ASSUME NEW i \in Entries
          PROVE  \E u \in Threads \ {t} : Holds(u, i)
      <3>1. i <= size /\ i # None
        BY <2>3 DEF Entries, None
      <3>2. PICK u \in Threads : Holds(u, i)
        BY <1>1, <3>1 DEF MapInv, HoldersInv
      <3>3. u # t
        BY <1>1, <2>4, <3>1, <3>2 DEF Holds
      <3> QED
        BY <3>2, <3>3
    <2> QED
      BY <2>4, <2>5
  <1>2. MapInv => ThrowsOnlyWhenFull
    BY <1>1 DEF ThrowsOnlyWhenFull
  <1> QED
    BY <1>2, InvAlways, PTL

=============================================================================
