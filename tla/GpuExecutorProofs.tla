------------------------- MODULE GpuExecutorProofs -------------------------
(***************************************************************************)
(* Proofs about GpuExecutor, for any number of tasks and of workers.       *)
(*                                                                         *)
(* The argument.  A slot is empty until the one worker that records for it *)
(* hands its command buffer in.  So the slots that were submitted are      *)
(* always a prefix of full ones, a handler that is still with the executor *)
(* is of a slot behind that prefix, and a batch takes all of those.  The   *)
(* command buffers in use are within what their pool has handed out, all   *)
(* but the ones that were in use when NextFrame reset it: of those nothing *)
(* is known any more.                                                      *)
(***************************************************************************)
EXTENDS GpuExecutor, SequenceTheorems, FiniteSetTheorems, TLAPS

\* A command buffer, with no bound on the size of the pool it is from
Buffer == [frame : Frames, thread : Workers, index : Nat]

Types ==
    /\ numSlots \in 0..MaxSlots
    /\ ready \in [Slots -> Buffer \cup {None}]
    /\ handlers \subseteq Slots
    /\ numSubmittedCBs \in 0..numSlots
    /\ batches \in Seq([first : Nat, last : Nat, handlers : SUBSET Slots])
    /\ frame \in Frames
    /\ pools \in [Frames -> [Workers -> [size : Nat, used : Nat]]]
    /\ recording \in [Workers -> 0..MaxSlots]
    /\ target \in [Workers -> Buffer \cup {None}]
    /\ started \subseteq 1..numSlots
    /\ numExecuted \in 0..Len(batches)
    /\ completed \subseteq 1..numExecuted
    /\ calls \in [Slots -> Nat]
    /\ caught \subseteq started

\* Every slot is filled once, by the one worker that records for it.
RecordInv ==
    /\ \A w \in Workers : recording[w] # 0 =>
          recording[w] \in started /\ ready[recording[w]] = None /\ target[w] # None
    /\ \A w \in Workers : target[w] # None => recording[w] # 0
    /\ \A v, w \in Workers : recording[v] # 0 /\ recording[v] = recording[w] => v = w
    /\ \A i \in Slots \ started : ready[i] = None

\* A slot that was not handed in has no handler anywhere.
EmptyInv ==
    \A i \in Slots : ready[i] = None =>
        /\ i \notin handlers /\ calls[i] = 0
        /\ \A n \in 1..Len(batches) : i \notin batches[n].handlers

\* The command buffers in use are among those their pools have handed out,
\* unless a reset of the pool caught them.
Fits(b) == b.index <= pools[b.frame][b.thread].used
PoolInv ==
    /\ \A w \in Workers : target[w] # None =>
          target[w].thread = w /\ (recording[w] \notin caught => Fits(target[w]))
    /\ \A i \in Slots \ caught : Pending(i) => Fits(ready[i])

Inv == /\ Types /\ RecordInv /\ BatchesFollowSlotOrder
       /\ EmptyInv /\ HandlerInOnePlace /\ PoolInv /\ LiveCommandBuffersDistinct

-----------------------------------------------------------------------------

LEMMA BufferIsNotNone == ASSUME NEW b \in Buffer PROVE b # None /\ b.frame \in Frames
  BY DEF Buffer, None, Frames, MaxFramesInFlight

LEMMA InvInit == Init => Inv
  <1> SUFFICES ASSUME Init PROVE Inv
    OBVIOUS
  <1> USE GpuExecutorAssumption DEF GpuExecutorAssumption, Init, m_queue!Init
  <1>1. Types
    BY DEF Types, Slots, Frames, MaxFramesInFlight
  <1>2. RecordInv /\ EmptyInv
    BY DEF RecordInv, EmptyInv
  <1>3. BatchesFollowSlotOrder /\ HandlerInOnePlace
    BY DEF BatchesFollowSlotOrder, HandlerInOnePlace, Slots
  <1>4. PoolInv /\ LiveCommandBuffersDistinct
    BY DEF PoolInv, LiveCommandBuffersDistinct, Pending
  <1> QED
    BY <1>1, <1>2, <1>3, <1>4 DEF Inv

-----------------------------------------------------------------------------
(* A step that only reserves a slot *)

LEMMA AddKeepsInv == ASSUME Inv, AddCommandBufferSlot PROVE Inv'
  <1> USE GpuExecutorAssumption DEF GpuExecutorAssumption, AddCommandBufferSlot, Inv, poolVars, taskVars, queueVars
  <1>1. Types'
    BY DEF Types
  <1>2. RecordInv' /\ EmptyInv'
    BY DEF Types, RecordInv, EmptyInv
  <1>3. BatchesFollowSlotOrder'
    <2>1. numSlots + 1 \in Slots \ started
      BY DEF Types, Slots
    <2>2. ready[numSlots + 1] = None
      BY <2>1 DEF RecordInv
    <2>3. numSubmittedCBs = numSlots \/ numSubmittedCBs < numSlots
      BY DEF Types
    <2>4. ready[numSubmittedCBs + 1] = None
      BY <2>2, <2>3 DEF BatchesFollowSlotOrder
    <2> QED
      BY <2>4 DEF BatchesFollowSlotOrder
  <1>4. HandlerInOnePlace'
    BY DEF HandlerInOnePlace
  <1>5. PoolInv' /\ LiveCommandBuffersDistinct'
    BY DEF PoolInv, LiveCommandBuffersDistinct, Pending, Executed, Fits
  <1> QED
    BY <1>1, <1>2, <1>3, <1>4, <1>5

-----------------------------------------------------------------------------
(* A worker starts to record *)

LEMMA GetKeepsInv == ASSUME Inv, NEW w \in Workers, NEW i \in Slots, GetCommandBuffer(w, i) PROVE Inv'
  <1> DEFINE pool == pools[frame][w]
  <1> USE DEF Inv
  <1>0. /\ pools \in [Frames -> [Workers -> [size : Nat, used : Nat]]] /\ frame \in Frames
        /\ pool \in [size : Nat, used : Nat] /\ Grown(pool) \in Nat
    BY DEF Types, Grown
  <1>b. pool.used + 1 \in Nat
    BY <1>0
  <1>c. [frame |-> frame, thread |-> w, index |-> pool.used + 1] \in Buffer
    <2> HIDE DEF pool
    <2> QED
      BY <1>0, <1>b DEF Buffer
  <1>a. PICK new \in Buffer : new = [frame |-> frame, thread |-> w, index |-> pool.used + 1]
    BY <1>c
  <1>1. /\ recording[w] = 0 /\ i \in (1..numSlots) \ started /\ started' = started \cup {i}
        /\ recording' = [recording EXCEPT ![w] = i]
        /\ target' = [target EXCEPT ![w] = new]
        /\ UNCHANGED <<slotVars, frame, queueVars, calls, caught>>
    BY <1>a DEF GetCommandBuffer
  <1>2. /\ pools' \in [Frames -> [Workers -> [size : Nat, used : Nat]]]
        /\ pools'[frame][w].used = pool.used + 1
        /\ \A f \in Frames, v \in Workers : pools'[f][v].used >= pools[f][v].used
    BY <1>0, SMTT(60) DEF GetCommandBuffer
  <1>3. Types'
    <2>1. recording' \in [Workers -> 0..MaxSlots]
      BY <1>1 DEF Types, Slots
    <2>2. target' \in [Workers -> Buffer \cup {None}]
      BY <1>1 DEF Types
    <2>3. started' \subseteq 1..numSlots /\ caught' \subseteq started'
      BY <1>1 DEF Types
    <2> QED
      BY <1>1, <1>2, <2>1, <2>2, <2>3 DEF Types, slotVars, queueVars
  <1>4. RecordInv' /\ EmptyInv'
    <2>1. ready[i] = None /\ new # None
      BY <1>1, BufferIsNotNone DEF RecordInv, Slots
    <2>2. \A v \in Workers : recording[v] # 0 => recording[v] # i
      BY <1>1 DEF RecordInv
    <2> QED
      BY <1>1, <2>1, <2>2 DEF RecordInv, EmptyInv, Types, slotVars, Slots
  <1>5. BatchesFollowSlotOrder' /\ HandlerInOnePlace'
    BY <1>1 DEF BatchesFollowSlotOrder, HandlerInOnePlace, slotVars, queueVars
  <1>6. /\ \A j \in Slots : Pending(j)' <=> Pending(j)
        /\ ready' = ready
    BY <1>1 DEF Pending, Executed, slotVars, queueVars
  <1>7. \A b \in Buffer : b.index <= pools[b.frame][b.thread].used =>
            b.index <= pools'[b.frame][b.thread].used /\ b # new
    <2> SUFFICES ASSUME NEW b \in Buffer, b.index <= pools[b.frame][b.thread].used
                 PROVE  b.index <= pools'[b.frame][b.thread].used /\ b # new
      OBVIOUS
    <2>1. b.frame \in Frames /\ b.thread \in Workers /\ b.index \in Nat
      BY DEF Buffer
    <2>2. b.index <= pools'[b.frame][b.thread].used
      BY <2>1, <1>0, <1>2
    <2>3. b # new
      BY <2>1, <1>0, <1>a
    <2> QED
      BY <2>2, <2>3
  <1>8. new.thread = w /\ new.index <= pools'[new.frame][new.thread].used
    BY <1>0, <1>2, <1>a
  <1>9. /\ \A v \in Workers : /\ target'[v] = IF v = w THEN new ELSE target[v]
                              /\ recording'[v] = IF v = w THEN i ELSE recording[v]
        /\ caught' = caught /\ i \notin caught
    <2>1. caught' = caught /\ i \notin caught
      BY <1>1 DEF Types
    <2>2. /\ target \in [Workers -> Buffer \cup {None}] /\ target' = [target EXCEPT ![w] = new]
          /\ recording \in [Workers -> 0..MaxSlots] /\ recording' = [recording EXCEPT ![w] = i]
      BY <1>1 DEF Types
    <2> QED
      BY <2>1, <2>2
  <1>10. /\ \A v \in Workers : target[v] # None =>
               /\ target[v] \in Buffer /\ target[v].thread = v
               /\ recording[v] \notin caught =>
                     target[v].index <= pools[target[v].frame][target[v].thread].used
         /\ \A j \in Slots \ caught : Pending(j) =>
               ready[j] \in Buffer /\ ready[j].index <= pools[ready[j].frame][ready[j].thread].used
    BY DEF Types, PoolInv, Pending, Fits
  <1>11. PoolInv'
    <2> DEFINE FitsNext(b) == b.index <= pools'[b.frame][b.thread].used
    <2>1. ASSUME NEW v \in Workers, target'[v] # None
          PROVE  target'[v].thread = v /\ (recording'[v] \notin caught' => FitsNext(target'[v]))
      <3>1. CASE v = w
        BY <1>8, <1>9, <3>1
      <3>2. CASE v # w
        BY <1>7, <1>9, <1>10, <2>1, <3>2
      <3> QED
        BY <3>1, <3>2
    <2>2. ASSUME NEW j \in Slots \ caught, Pending(j)'
          PROVE  FitsNext(ready'[j])
      BY <1>6, <1>7, <1>10, <2>2
    <2> QED
      BY <1>9, <2>1, <2>2 DEF PoolInv, Fits
  \* No command buffer that is in use, and was not caught, is the new one.
  <1>12. /\ \A v \in Workers : v # w /\ target[v] # None /\ recording[v] \notin caught => target[v] # new
         /\ \A j \in Slots \ caught : Pending(j) => ready[j] # new
    BY <1>7, <1>10
  <1>13. LiveCommandBuffersDistinct'
    <2> DEFINE rec == {v \in Workers : target[v] # None /\ recording[v] \notin caught}
    <2>1. \A v \in Workers : target'[v] # None /\ recording'[v] \notin caught' => v = w \/ v \in rec
      BY <1>9
    <2>2. \A j \in Slots \ caught' : Pending(j)' => j \in {k \in Slots \ caught : Pending(k)}
      BY <1>6, <1>9
    <2>3. \A u, v \in rec : target[u] = target[v] => u = v
      BY DEF LiveCommandBuffersDistinct
    <2>4. \A v \in rec : v # w => target'[v] = target[v] /\ target[v] # new
      BY <1>9, <1>12
    <2>5. target'[w] = new
      BY <1>9
    <2>6. \A j \in Slots \ caught : Pending(j) => ready[j] # new /\ ready'[j] = ready[j]
      BY <1>6, <1>12
    <2> QED
      BY <2>1, <2>2, <2>3, <2>4, <2>5, <2>6 DEF LiveCommandBuffersDistinct
  <1> QED
    BY <1>3, <1>4, <1>5, <1>11, <1>13

-----------------------------------------------------------------------------
(* A worker hands in what it has recorded *)

LEMMA SubmitKeepsInv == ASSUME Inv, NEW w \in Workers, SubmitCommandBuffer(w) PROVE Inv'
  <1> USE DEF Inv
  <1>1. PICK i \in Slots, b \in Buffer : i = recording[w] /\ b = target[w]
    BY DEF SubmitCommandBuffer, Types, RecordInv, Slots
  <1>2. i \in started /\ i <= numSlots /\ ready[i] = None /\ b # None
    BY <1>1 DEF SubmitCommandBuffer, RecordInv, Types, Slots
  <1>3. /\ recording' = [recording EXCEPT ![w] = 0]
        /\ target' = [target EXCEPT ![w] = None]
        /\ ready' = [ready EXCEPT ![i] = b]
        /\ UNCHANGED <<numSlots, started, poolVars, calls, caught>>
    BY <1>1 DEF SubmitCommandBuffer
  <1>4. i > numSubmittedCBs
    BY <1>2 DEF BatchesFollowSlotOrder, Types, Slots
  <1>5. \A j \in handlers : j > numSubmittedCBs /\ ready[j] # None
    BY DEF EmptyInv, HandlerInOnePlace, Types
  <1> DEFINE present == handlers \cup {i}
  <1>6. PICK last \in numSubmittedCBs .. numSlots :
            /\ EndsBatch(ready', last)
            /\ numSubmittedCBs' = last
            /\ IF last > numSubmittedCBs
               THEN /\ handlers' = {}
                    /\ batches' = Append(batches,
                         [first |-> numSubmittedCBs + 1, last |-> last, handlers |-> present])
               ELSE handlers' = present /\ batches' = batches
            /\ UNCHANGED queueVars
    <2>1. PICK last \in numSubmittedCBs .. numSlots :
            /\ EndsBatch(ready', last)
            /\ numSubmittedCBs' = last
            /\ IF last > numSubmittedCBs
               THEN LET moved == HandlersToSubmit(present, last) IN
                    /\ handlers' = present \ moved
                    /\ batches' = Append(batches,
                         [first |-> numSubmittedCBs + 1, last |-> last, handlers |-> moved])
                    /\ m_queue!Submit
               ELSE handlers' = present /\ UNCHANGED <<batches, queueVars>>
      BY <1>1 DEF SubmitCommandBuffer
    <2>2. HandlersToSubmit(present, last) = present
      BY <1>4, <1>5 DEF HandlersToSubmit
    <2>3. UNCHANGED queueVars
      BY <2>1 DEF m_queue!Submit, queueVars
    <2> QED
      BY <2>1, <2>2, <2>3
  <1> HIDE DEF present
  <1>7. last \in Nat /\ numSubmittedCBs <= last /\ last <= numSlots /\ numSlots \in Nat /\ numSubmittedCBs \in Nat
    BY DEF Types
  <1>8. present \subseteq Slots
    BY DEF Types, present
  <1> DEFINE B == [first |-> numSubmittedCBs + 1, last |-> last, handlers |-> present]
             Entry == [first : Nat, last : Nat, handlers : SUBSET Slots]
  <1>9. B \in Entry
    BY <1>7, <1>8
  <1>10. batches \in Seq(Entry) /\ Len(batches) \in Nat
    BY DEF Types
  <1>11. /\ batches' \in Seq(Entry) /\ Len(batches') >= Len(batches)
         /\ \A n \in 1..Len(batches) : batches'[n] = batches[n]
    <2> HIDE DEF B, Entry
    <2>1. CASE batches' = batches
      BY <2>1, <1>10
    <2>2. CASE batches' = Append(batches, B)
      BY <2>2, <1>9, <1>10
    <2> QED
      BY <1>6, <2>1, <2>2 DEF B
  <1>12. last > numSubmittedCBs => /\ Len(batches') = Len(batches) + 1 /\ batches' # <<>>
                                  /\ batches'[Len(batches) + 1] = B
    <2> HIDE DEF Entry
    <2> SUFFICES ASSUME last > numSubmittedCBs
                 PROVE  /\ Len(batches') = Len(batches) + 1 /\ batches' # <<>>
                        /\ batches'[Len(batches) + 1] = B
      OBVIOUS
    <2>1. batches' = Append(batches, B)
      BY <1>6
    <2> HIDE DEF B
    <2> QED
      BY <2>1, <1>9, <1>10
  <1>13. last <= numSubmittedCBs => last = numSubmittedCBs /\ batches' = batches /\ handlers' = present
    BY <1>6, <1>7
  <1>14. \A j \in Slots : ready'[j] = IF j = i THEN b ELSE ready[j]
    BY <1>3 DEF Types
  <1> HIDE DEF B, Entry
  <1>20. Types'
    <2>1. ready' \in [Slots -> Buffer \cup {None}]
      BY <1>3 DEF Types
    <2>2. recording' \in [Workers -> 0..MaxSlots] /\ target' \in [Workers -> Buffer \cup {None}]
      BY <1>3, GpuExecutorAssumption DEF Types, GpuExecutorAssumption
    <2>3. handlers' \subseteq Slots
      BY <1>6, <1>8
    <2>4. numExecuted' \in 0..Len(batches') /\ completed' \subseteq 1..numExecuted'
      BY <1>6, <1>10, <1>11 DEF Types, queueVars
    <2>5. numSlots' \in 0..MaxSlots /\ numSubmittedCBs' \in 0..numSlots' /\ started' \subseteq 1..numSlots'
      BY <1>3, <1>6, <1>7 DEF Types
    <2>6. batches' \in Seq([first : Nat, last : Nat, handlers : SUBSET Slots])
      BY <1>11 DEF Entry
    <2>7. /\ frame' \in Frames /\ calls' \in [Slots -> Nat]
          /\ pools' \in [Frames -> [Workers -> [size : Nat, used : Nat]]]
          /\ caught' \subseteq started'
      BY <1>3 DEF Types, poolVars
    <2> QED
      BY <2>1, <2>2, <2>3, <2>4, <2>5, <2>6, <2>7 DEF Types
  <1>21. RecordInv'
    <2>1. \A v \in Workers : v # w /\ recording[v] # 0 => recording[v] # i /\ recording[v] \in Slots
      BY <1>1, <1>2 DEF RecordInv, Types, Slots
    <2>2. i # 0
      BY DEF Slots
    <2>3. \A v \in Workers : /\ recording'[v] = IF v = w THEN 0 ELSE recording[v]
                             /\ target'[v] = IF v = w THEN None ELSE target[v]
      BY <1>3 DEF Types
    <2>4. \A v \in Workers : recording'[v] # 0 =>
              recording'[v] \in started' /\ ready'[recording'[v]] = None /\ target'[v] # None
      BY <1>3, <1>14, <2>1, <2>3 DEF RecordInv
    <2>5. \A u, v \in Workers : recording'[u] # 0 /\ recording'[u] = recording'[v] => u = v
      BY <2>3 DEF RecordInv
    <2>6. \A j \in Slots \ started' : ready'[j] = None
      BY <1>2, <1>3, <1>14 DEF RecordInv
    <2>7. \A v \in Workers : target'[v] # None => recording'[v] # 0
      BY <2>3 DEF RecordInv
    <2> QED
      BY <2>4, <2>5, <2>6, <2>7 DEF RecordInv
  <1>22. BatchesFollowSlotOrder'
    <2>1. \A j \in 1..last : ready'[j] # None
      <3> SUFFICES ASSUME NEW j \in 1..last PROVE ready'[j] # None
        OBVIOUS
      <3>1. CASE j <= numSubmittedCBs
        <4>1. j \in 1..numSubmittedCBs
          BY <3>1, <1>7
        <4>3. j \in Slots
          <5>1. numSlots <= MaxSlots /\ MaxSlots \in Nat
            BY GpuExecutorAssumption DEF GpuExecutorAssumption, Types
          <5> QED
            BY <5>1, <1>7 DEF Slots
        <4>2. ready[j] # None
          BY <4>1 DEF BatchesFollowSlotOrder
        <4> QED
          BY <4>2, <4>3, <1>2, <1>14
      <3>2. CASE j > numSubmittedCBs
        BY <3>2, <1>6, <1>7 DEF EndsBatch
      <3> QED
        BY <3>1, <3>2, <1>7
    <2>2. last < numSlots => ready'[last + 1] = None
      BY <1>6 DEF EndsBatch
    <2>3. \A n \in 1..Len(batches) :
             /\ batches'[n].first <= batches'[n].last
             /\ batches'[n].first = IF n = 1 THEN 1 ELSE batches'[n-1].last + 1
      <3> SUFFICES ASSUME NEW n \in 1..Len(batches)
                   PROVE  /\ batches'[n].first <= batches'[n].last
                          /\ batches'[n].first = IF n = 1 THEN 1 ELSE batches'[n-1].last + 1
        OBVIOUS
      <3>1. batches'[n] = batches[n] /\ (n # 1 => batches'[n-1] = batches[n-1])
        BY <1>10, <1>11
      <3> QED
        BY <3>1 DEF BatchesFollowSlotOrder
    <2>4. CASE last > numSubmittedCBs
      <3>1. B.first = numSubmittedCBs + 1 /\ B.last = last
        BY DEF B
      <3>2. B.first = IF Len(batches) + 1 = 1 THEN 1 ELSE batches'[Len(batches)].last + 1
        <4>1. CASE Len(batches) = 0
          <5>1. batches = <<>>
            BY <4>1, <1>10
          <5> QED
            BY <5>1, <4>1, <3>1 DEF BatchesFollowSlotOrder
        <4>2. CASE Len(batches) # 0
          <5>1. batches # <<>> /\ batches'[Len(batches)] = batches[Len(batches)]
            BY <4>2, <1>10, <1>11
          <5> QED
            BY <5>1, <4>2, <1>10, <3>1 DEF BatchesFollowSlotOrder
        <4> QED
          BY <4>1, <4>2
      <3>3. \A n \in 1..Len(batches') :
             /\ batches'[n].first <= batches'[n].last
             /\ batches'[n].first = IF n = 1 THEN 1 ELSE batches'[n-1].last + 1
        <4> SUFFICES ASSUME NEW n \in 1..Len(batches')
                     PROVE  /\ batches'[n].first <= batches'[n].last
                            /\ batches'[n].first = IF n = 1 THEN 1 ELSE batches'[n-1].last + 1
          OBVIOUS
        <4>1. CASE n \in 1..Len(batches)
          BY <4>1, <2>3
        <4>2. CASE n = Len(batches) + 1
          BY <4>2, <2>4, <1>7, <1>10, <1>12, <3>1, <3>2
        <4> QED
          BY <4>1, <4>2, <2>4, <1>10, <1>12
      <3>4. numSubmittedCBs' = batches'[Len(batches')].last
        BY <2>4, <1>6, <1>12, <3>1
      <3> QED
        BY <1>3, <1>6, <1>12, <2>1, <2>2, <2>4, <3>3, <3>4 DEF BatchesFollowSlotOrder
    <2>5. CASE last <= numSubmittedCBs
      BY <1>3, <1>6, <1>13, <2>1, <2>2, <2>5 DEF BatchesFollowSlotOrder
    <2> QED
      BY <2>4, <2>5, <1>7
  <1>23. EmptyInv'
    <2> SUFFICES ASSUME NEW j \in Slots, ready'[j] = None
                 PROVE  /\ j \notin handlers' /\ calls'[j] = 0
                        /\ \A n \in 1..Len(batches') : j \notin batches'[n].handlers
      BY DEF EmptyInv
    <2>1. j # i /\ ready[j] = None
      BY <1>2, <1>14
    <2>2. j \notin present /\ calls'[j] = 0 /\ \A n \in 1..Len(batches) : j \notin batches'[n].handlers
      BY <2>1, <1>3, <1>11 DEF EmptyInv, present
    <2>3. CASE last > numSubmittedCBs
      <3>1. j \notin B.handlers
        BY <2>2 DEF B
      <3>2. \A n \in 1..Len(batches') : n \in 1..Len(batches) \/ n = Len(batches) + 1
        BY <2>3, <1>10, <1>12
      <3> QED
        BY <2>2, <2>3, <3>1, <3>2, <1>6, <1>12
    <2>4. CASE last <= numSubmittedCBs
      BY <2>2, <2>4, <1>13
    <2> QED
      BY <2>3, <2>4, <1>7
  <1>24. HandlerInOnePlace'
    <2> SUFFICES ASSUME NEW j \in Slots, ready'[j] # None
                 PROVE  \/ /\ j \in handlers' /\ j > numSubmittedCBs' /\ calls'[j] = 0
                           /\ \A n \in 1..Len(batches') : j \notin batches'[n].handlers
                        \/ j \notin handlers' /\ \E n \in 1..Len(batches') :
                            /\ j \in batches'[n].handlers
                            /\ \A m \in 1..Len(batches') : j \in batches'[m].handlers => m = n
                            /\ calls'[j] = IF n \in completed' THEN 1 ELSE 0
      BY DEF HandlerInOnePlace
    <2>1. completed' = completed /\ calls' = calls /\ completed \subseteq 1..Len(batches)
      BY <1>3, <1>6, <1>10 DEF Types, queueVars
    \* A handler that is there, or comes in now, is in no batch yet.
    <2>2. ASSUME j \in present
          PROVE  calls[j] = 0 /\ \A n \in 1..Len(batches) : j \notin batches'[n].handlers
      BY <2>2, <1>2, <1>5, <1>11 DEF present, EmptyInv, HandlerInOnePlace
    <2>3. ASSUME j \notin present
          PROVE  \E n \in 1..Len(batches) :
                    /\ j \in batches'[n].handlers
                    /\ \A m \in 1..Len(batches) : j \in batches'[m].handlers => m = n
                    /\ calls[j] = IF n \in completed THEN 1 ELSE 0
      <3>1. ready[j] # None /\ j \notin handlers
        BY <2>3, <1>14 DEF present
      <3> QED
        BY <3>1, <1>11 DEF HandlerInOnePlace
    <2>4. CASE last > numSubmittedCBs
      <3>1. handlers' = {} /\ B.handlers = present
        BY <2>4, <1>6 DEF B
      <3>2. \A n \in 1..Len(batches') : n \in 1..Len(batches) \/ n = Len(batches) + 1
        BY <2>4, <1>10, <1>12
      <3>3. Len(batches) + 1 \in 1..Len(batches') /\ Len(batches) + 1 \notin completed
        BY <2>1, <2>4, <1>10, <1>12
      <3>4. 1..Len(batches) \subseteq 1..Len(batches')
        BY <1>10, <1>11, <2>4, <1>12
      <3>5. CASE j \in present
        <4>1. \A m \in 1..Len(batches') : j \in batches'[m].handlers => m = Len(batches) + 1
          BY <2>2, <3>2, <3>5
        <4>2. j \in batches'[Len(batches) + 1].handlers
          BY <2>4, <1>12, <3>1, <3>5
        <4> QED
          BY <2>1, <2>2, <3>1, <3>3, <3>5, <4>1, <4>2
      <3>6. CASE j \notin present
        <4>1. j \notin batches'[Len(batches) + 1].handlers
          BY <2>4, <1>12, <3>1, <3>6
        <4> QED
          BY <2>1, <2>3, <3>1, <3>2, <3>4, <3>6, <4>1
      <3> QED
        BY <3>5, <3>6
    <2>5. CASE last <= numSubmittedCBs
      <3>1. CASE j \in present
        <4>1. j > last
          BY <2>5, <3>1, <1>4, <1>5, <1>13 DEF present
        <4> QED
          BY <2>1, <2>2, <2>5, <3>1, <4>1, <1>6, <1>13
      <3>2. CASE j \notin present
        BY <2>1, <2>3, <2>5, <3>2, <1>13
      <3> QED
        BY <3>1, <3>2
    <2> QED
      BY <2>4, <2>5, <1>7
  <1>25. \A j \in Slots : Pending(j)' /\ j # i => Pending(j) /\ ready'[j] = ready[j]
    <2>1. numExecuted' = numExecuted /\ \A n \in 1..numExecuted : batches'[n] = batches[n]
      BY <1>6, <1>10, <1>11 DEF Types, queueVars
    <2>2. \A j : Executed(j)' <=> Executed(j)
      BY <2>1 DEF Executed
    <2> QED
      BY <2>2, <1>14 DEF Pending
  <1>26. \A v \in Workers : /\ target'[v] = IF v = w THEN None ELSE target[v]
                            /\ v # w => recording'[v] = recording[v]
    BY <1>3 DEF Types
  <1>27. PoolInv'
    BY <1>1, <1>2, <1>3, <1>14, <1>25, <1>26 DEF PoolInv, Fits, poolVars
  \* What is in use is what was, and i's command buffer has moved into its slot.
  <1>28. LiveCommandBuffersDistinct'
    <2> DEFINE rec == {v \in Workers : target[v] # None /\ recording[v] \notin caught}
               wait == {j \in Slots \ caught : Pending(j)}
    <2>1. \A v \in Workers : target'[v] # None /\ recording'[v] \notin caught' =>
              v # w /\ v \in rec /\ target'[v] = target[v]
      BY <1>3, <1>26
    <2>2. \A j \in Slots \ caught' : Pending(j)' =>
              IF j = i THEN w \in rec /\ ready'[j] = target[w] ELSE j \in wait /\ ready'[j] = ready[j]
      BY <1>1, <1>2, <1>3, <1>14, <1>25
    <2>3. /\ \A j, k \in wait : ready[j] = ready[k] => j = k
          /\ \A u, v \in rec : target[u] = target[v] => u = v
          /\ \A v \in rec, j \in wait : ready[j] # target[v]
      BY DEF LiveCommandBuffersDistinct
    <2> HIDE DEF rec, wait
    <2>4. \A j, k \in Slots \ caught' : Pending(j)' /\ Pending(k)' /\ ready'[j] = ready'[k] => j = k
      BY <2>2, <2>3
    <2>5. \A u, v \in Workers : /\ target'[u] # None /\ recording'[u] \notin caught'
                               /\ target'[v] # None /\ recording'[v] \notin caught'
                               /\ target'[u] = target'[v] => u = v
      BY <2>1, <2>3
    <2>6. \A v \in Workers, j \in Slots \ caught' :
              target'[v] # None /\ recording'[v] \notin caught' /\ Pending(j)' => ready'[j] # target'[v]
      BY <2>1, <2>2, <2>3
    <2> QED
      BY <2>4, <2>5, <2>6 DEF LiveCommandBuffersDistinct
  <1> QED
    BY <1>20, <1>21, <1>22, <1>23, <1>24, <1>27, <1>28

-----------------------------------------------------------------------------
(* The queue executes and completes batches *)

LEMMA ExecuteKeepsInv == ASSUME Inv, ExecuteBatch PROVE Inv'
  <1> USE DEF Inv
  <1>1. /\ UNCHANGED <<slotVars, poolVars, taskVars, calls, caught>>
        /\ numExecuted < Len(batches) /\ numExecuted' = numExecuted + 1 /\ completed' = completed
    BY DEF ExecuteBatch, m_queue!Execute
  <1>2. Types'
    <2>1. numExecuted' \in 0..Len(batches) /\ completed' \subseteq 1..numExecuted'
      BY <1>1 DEF Types
    <2> QED
      BY <1>1, <2>1 DEF Types, slotVars, poolVars, taskVars
  <1>3. RecordInv' /\ EmptyInv'
    BY <1>1 DEF RecordInv, EmptyInv, slotVars, taskVars
  <1>4. BatchesFollowSlotOrder' /\ HandlerInOnePlace'
    BY <1>1 DEF BatchesFollowSlotOrder, HandlerInOnePlace, slotVars
  <1>5. \A j \in Slots : Pending(j)' => Pending(j)
    <2>1. /\ ready' = ready /\ batches' = batches /\ numExecuted' = numExecuted + 1
          /\ numExecuted \in Nat
      BY <1>1 DEF Types, slotVars
    <2>2. \A j : Executed(j) => Executed(j)'
      BY <2>1 DEF Executed
    <2> QED
      BY <2>1, <2>2 DEF Pending
  <1>6. PoolInv' /\ LiveCommandBuffersDistinct'
    BY <1>1, <1>5 DEF PoolInv, LiveCommandBuffersDistinct, Fits, slotVars, poolVars, taskVars
  <1> QED
    BY <1>2, <1>3, <1>4, <1>6

LEMMA CompleteKeepsInv == ASSUME Inv, NEW n \in Slots, CompleteBatch(n) PROVE Inv'
  <1> USE DEF Inv
  <1>1. /\ UNCHANGED <<slotVars, poolVars, taskVars, caught>> /\ numExecuted' = numExecuted
        /\ n \in 1..numExecuted /\ n \notin completed /\ completed' = completed \cup {n}
        /\ calls' = [i \in Slots |-> IF i \in batches[n].handlers THEN calls[i] + 1 ELSE calls[i]]
    BY DEF CompleteBatch, m_queue!Complete
  <1>2. n \in 1..Len(batches)
    BY <1>1 DEF Types
  <1>3. Types'
    <2>1. calls' \in [Slots -> Nat]
      BY <1>1 DEF Types
    <2> QED
      BY <1>1, <2>1 DEF Types, slotVars, poolVars, taskVars
  <1>4. RecordInv' /\ EmptyInv'
    BY <1>1, <1>2 DEF RecordInv, EmptyInv, slotVars, taskVars
  <1>5. BatchesFollowSlotOrder'
    BY <1>1 DEF BatchesFollowSlotOrder, slotVars
  <1>6. HandlerInOnePlace'
    <2> SUFFICES ASSUME NEW j \in Slots, ready[j] # None
                 PROVE  \/ /\ j \in handlers /\ j > numSubmittedCBs /\ calls'[j] = 0
                           /\ \A k \in 1..Len(batches) : j \notin batches[k].handlers
                        \/ j \notin handlers /\ \E k \in 1..Len(batches) :
                            /\ j \in batches[k].handlers
                            /\ \A m \in 1..Len(batches) : j \in batches[m].handlers => m = k
                            /\ calls'[j] = IF k \in completed' THEN 1 ELSE 0
      BY <1>1 DEF HandlerInOnePlace, slotVars
    <2>1. CASE j \in handlers
      BY <1>1, <1>2, <2>1 DEF HandlerInOnePlace
    <2>2. CASE j \notin handlers
      <3>1. PICK k \in 1..Len(batches) :
              /\ j \in batches[k].handlers
              /\ \A m \in 1..Len(batches) : j \in batches[m].handlers => m = k
              /\ calls[j] = IF k \in completed THEN 1 ELSE 0
        BY <2>2 DEF HandlerInOnePlace
      <3>2. calls'[j] = IF k \in completed' THEN 1 ELSE 0
        BY <1>1, <1>2, <3>1
      <3> QED
        BY <2>2, <3>1, <3>2
    <2> QED
      BY <2>1, <2>2
  <1>7. \A j \in Slots : Pending(j)' <=> Pending(j)
    BY <1>1 DEF Pending, Executed, slotVars
  <1>8. PoolInv' /\ LiveCommandBuffersDistinct'
    BY <1>1, <1>7 DEF PoolInv, LiveCommandBuffersDistinct, Fits, slotVars, poolVars, taskVars
  <1> QED
    BY <1>3, <1>4, <1>5, <1>6, <1>8

-----------------------------------------------------------------------------
(* The next frame *)

LEMMA NextFrameKeepsInv == ASSUME Inv, NextFrame PROVE Inv'
  <1> USE DEF Inv
  <1>1. PICK next \in Frames : /\ frame' = next /\ caught' = caught \cup InUse(next)
                               /\ pools' = ResetPools(pools, next)
                               /\ UNCHANGED <<slotVars, taskVars, queueVars, calls>>
    BY DEF NextFrame, Types, Frames, MaxFramesInFlight
  <1>2. /\ pools' \in [Frames -> [Workers -> [size : Nat, used : Nat]]]
        /\ \A f \in Frames : f # next => pools'[f] = pools[f]
    BY <1>1 DEF ResetPools, Types
  \* What is in use was started: its slot is recorded for, or is not empty.
  <1>3. InUse(next) \subseteq started
    <2>1. \A w \in Workers : target[w].frame = next => target[w] # None
      BY DEF None, Frames, MaxFramesInFlight
    <2>2. \A w \in Workers : target[w] # None => recording[w] \in started
      BY DEF RecordInv
    <2>3. \A i \in Slots : Pending(i) => i \in started
      BY DEF RecordInv, Pending
    <2> QED
      BY <2>1, <2>2, <2>3 DEF InUse
  <1>4. Types'
    BY <1>1, <1>2, <1>3 DEF Types, slotVars, taskVars, queueVars
  <1>5. RecordInv' /\ EmptyInv'
    BY <1>1 DEF RecordInv, EmptyInv, slotVars, taskVars
  <1>6. BatchesFollowSlotOrder' /\ HandlerInOnePlace'
    BY <1>1 DEF BatchesFollowSlotOrder, HandlerInOnePlace, slotVars, queueVars
  <1>7. /\ \A j \in Slots : Pending(j)' <=> Pending(j)
        /\ caught \subseteq caught'
    BY <1>1 DEF Pending, Executed, slotVars, queueVars
  <1>8. LiveCommandBuffersDistinct'
    BY <1>1, <1>7 DEF LiveCommandBuffersDistinct, slotVars, taskVars
  <1>9. /\ \A w \in Workers : target[w] # None =>
              target[w].frame \in Frames /\ (target[w].frame = next => recording[w] \in caught')
        /\ \A j \in Slots : Pending(j) =>
              ready[j].frame \in Frames /\ (ready[j].frame = next => j \in caught')
    BY <1>1 DEF InUse, Types, Buffer, Pending
  <1>10. PoolInv'
    <2> DEFINE FitsNext(b) == b.index <= pools'[b.frame][b.thread].used
    <2>1. ready' = ready /\ target' = target /\ recording' = recording
      BY <1>1 DEF slotVars, taskVars
    <2>2. ASSUME NEW w \in Workers, target[w] # None
          PROVE  target[w].thread = w /\ (recording[w] \notin caught' => FitsNext(target[w]))
      BY <1>2, <1>7, <1>9, <2>2 DEF PoolInv, Fits
    <2>3. ASSUME NEW j \in Slots \ caught', Pending(j)
          PROVE  FitsNext(ready[j])
      BY <1>2, <1>7, <1>9, <2>3 DEF PoolInv, Fits
    <2> QED
      BY <1>7, <2>1, <2>2, <2>3 DEF PoolInv, Fits
  <1> QED
    BY <1>4, <1>5, <1>6, <1>8, <1>10

-----------------------------------------------------------------------------

LEMMA InvNext == Inv /\ [Next]_vars => Inv'
  <1> SUFFICES ASSUME Inv, [Next]_vars PROVE Inv'
    OBVIOUS
  <1>1. CASE Next
    BY <1>1, AddKeepsInv, GetKeepsInv, SubmitKeepsInv, ExecuteKeepsInv, CompleteKeepsInv, NextFrameKeepsInv
    DEF Next
  <1>2. CASE UNCHANGED vars
    BY <1>2 DEF vars, slotVars, poolVars, taskVars, queueVars, Inv, Types, RecordInv, BatchesFollowSlotOrder,
                EmptyInv, HandlerInOnePlace, PoolInv, LiveCommandBuffersDistinct, Pending, Executed, Fits
  <1> QED
    BY <1>1, <1>2

LEMMA Invariance == Spec => []Inv
  BY InvInit, InvNext, PTL DEF Spec

\* SubmitCommandBuffer: in whatever order the workers finish, the batches are
\* consecutive ranges of slots, each slot in one, and only a gap holds one back.
THEOREM SlotOrder == Spec => []BatchesFollowSlotOrder
  <1>1. Inv => BatchesFollowSlotOrder
    BY DEF Inv
  <1> QED
    BY <1>1, Invariance, PTL

\* SubmitCommandBuffer and the callback of a batch: a completion handler is with
\* the executor or in one batch, and is called once, when that batch completes.
THEOREM Handlers == Spec => []HandlerInOnePlace
  <1>1. Inv => HandlerInOnePlace
    BY DEF Inv
  <1> QED
    BY <1>1, Invariance, PTL

\* GetCommandBuffer and NextFrame: although pools are reset and used again, two
\* tasks have one command buffer only if a reset caught one of them in the act:
\* NextFrame came before the frame two before was done.
THEOREM Distinct == Spec => []LiveCommandBuffersDistinct
  <1>1. Inv => LiveCommandBuffersDistinct
    BY DEF Inv
  <1> QED
    BY <1>1, Invariance, PTL

-----------------------------------------------------------------------------
(* The bounds of the type invariant.  A pool has handed out at most one    *)
(* command buffer for each task that was started, and holds all it has     *)
(* handed out; a batch takes only slots that were reserved.                *)

CountInv ==
    /\ \A f \in Frames, w \in Workers :
          pools[f][w].used <= Cardinality(started) /\ pools[f][w].used <= pools[f][w].size
    /\ \A w \in Workers : target[w] # None => target[w] \in CommandBuffer
    /\ \A i \in Slots : ready[i] # None => ready[i] \in CommandBuffer
    /\ handlers \subseteq 1..numSlots
    /\ \A w \in Workers : recording[w] <= numSlots
    /\ batches \in Seq(Batch)

LEMMA StartedTasks ==
    ASSUME NEW n \in 0..MaxSlots, NEW S \in SUBSET (1..n)
    PROVE  /\ IsFiniteSet(S) /\ Cardinality(S) \in Nat /\ Cardinality(S) <= MaxSlots
           /\ \A i \in (1..n) \ S : Cardinality(S \cup {i}) = Cardinality(S) + 1
                                    /\ Cardinality(S) + 1 <= MaxSlots
  <1> USE GpuExecutorAssumption DEF GpuExecutorAssumption
  <1>1. IsFiniteSet(1..n) /\ Cardinality(1..n) = n
    BY FS_Interval
  <1>2. \A T \in SUBSET (1..n) : IsFiniteSet(T) /\ Cardinality(T) \in Nat /\ Cardinality(T) <= n
    BY <1>1, FS_Subset, FS_CardinalityType
  <1>3. \A i \in (1..n) \ S : Cardinality(S \cup {i}) = Cardinality(S) + 1
    BY <1>2, FS_AddElement
  <1>4. \A i \in (1..n) \ S : S \cup {i} \in SUBSET (1..n)
    OBVIOUS
  <1> QED
    BY <1>2, <1>3, <1>4

LEMMA CountInit == Init => CountInv
  <1> SUFFICES ASSUME Init PROVE CountInv
    OBVIOUS
  <1>1. Cardinality(started) = 0
    BY FS_EmptySet DEF Init
  <1> QED
    BY <1>1 DEF Init, CountInv

LEMMA CountGet ==
    ASSUME Inv, CountInv, NEW w \in Workers, NEW i \in Slots, GetCommandBuffer(w, i)
    PROVE  CountInv'
  <1> USE GpuExecutorAssumption DEF GpuExecutorAssumption
  <1>1. /\ pools \in [Frames -> [Workers -> [size : Nat, used : Nat]]] /\ frame \in Frames
        /\ numSlots \in 0..MaxSlots /\ started \in SUBSET (1..numSlots)
        /\ recording \in [Workers -> 0..MaxSlots] /\ target \in [Workers -> Buffer \cup {None}]
    BY DEF Inv, Types
  <1>2. PICK size \in Nat, used \in Nat : pools[frame][w] = [size |-> size, used |-> used]
    BY <1>1
  <1>3. used <= Cardinality(started) /\ used <= size
    BY <1>1, <1>2 DEF CountInv
  <1>4. /\ i \in (1..numSlots) \ started /\ started' = started \cup {i}
        /\ recording' = [recording EXCEPT ![w] = i]
        /\ UNCHANGED <<slotVars, frame, queueVars, calls, caught>>
    BY DEF GetCommandBuffer
  <1>5. /\ Cardinality(started) \in Nat /\ Cardinality(started') = Cardinality(started) + 1
        /\ Cardinality(started) + 1 <= MaxSlots
    BY <1>1, <1>4, StartedTasks
  <1>6. PICK room \in Nat : room = Grown(pools[frame][w]) /\ used + 1 <= room
    BY <1>2, <1>3 DEF Grown
  <1>7. pools' = [pools EXCEPT ![frame][w] = [size |-> room, used |-> used + 1]]
    BY <1>2, <1>6 DEF GetCommandBuffer
  <1>8. PICK new \in CommandBuffer : target' = [target EXCEPT ![w] = new]
    <2>1. used + 1 \in Slots
      BY <1>3, <1>5 DEF Slots
    <2>2. [frame |-> frame, thread |-> w, index |-> used + 1] \in CommandBuffer
      BY <1>1, <2>1 DEF CommandBuffer
    <2>3. target' = [target EXCEPT ![w] =
                        [frame |-> frame, thread |-> w, index |-> pools[frame][w].used + 1]]
      BY DEF GetCommandBuffer
    <2>4. pools[frame][w].used = used
      BY <1>2
    <2> QED
      BY <2>2, <2>3, <2>4
  <1>9. \A f \in Frames, v \in Workers :
            pools'[f][v] = IF f = frame /\ v = w THEN [size |-> room, used |-> used + 1] ELSE pools[f][v]
    BY <1>1, <1>7
  <1>10. \A f \in Frames, v \in Workers :
            pools'[f][v].used <= Cardinality(started') /\ pools'[f][v].used <= pools'[f][v].size
    <2> SUFFICES ASSUME NEW f \in Frames, NEW v \in Workers
                 PROVE  pools'[f][v].used <= Cardinality(started') /\ pools'[f][v].used <= pools'[f][v].size
      OBVIOUS
    <2>1. pools[f][v].used \in Nat
      BY <1>1
    <2> QED
      BY <1>3, <1>5, <1>6, <1>9, <2>1 DEF CountInv
  <1>11. \A v \in Workers : /\ target'[v] # None => target'[v] \in CommandBuffer
                            /\ recording'[v] <= numSlots'
    BY <1>1, <1>4, <1>8 DEF CountInv, slotVars
  <1> QED
    BY <1>4, <1>10, <1>11 DEF CountInv, slotVars

LEMMA CountSubmit ==
    ASSUME Inv, CountInv, NEW w \in Workers, SubmitCommandBuffer(w)
    PROVE  CountInv'
  <1> USE GpuExecutorAssumption DEF GpuExecutorAssumption
  <1>1. /\ recording \in [Workers -> 0..MaxSlots] /\ target \in [Workers -> Buffer \cup {None}]
        /\ ready \in [Slots -> Buffer \cup {None}]
        /\ numSlots \in 0..MaxSlots /\ numSubmittedCBs \in 0..numSlots
    BY DEF Inv, Types
  <1>2. PICK i \in 1..numSlots, b \in CommandBuffer : i = recording[w] /\ b = target[w]
    BY <1>1 DEF SubmitCommandBuffer, Inv, RecordInv, CountInv
  <1>3. /\ recording' = [recording EXCEPT ![w] = 0]
        /\ target' = [target EXCEPT ![w] = None]
        /\ ready' = [ready EXCEPT ![i] = b]
        /\ UNCHANGED <<numSlots, started, poolVars, calls, caught>>
    BY <1>2 DEF SubmitCommandBuffer
  <1> DEFINE present == handlers \cup {i}
  <1>4. present \subseteq 1..numSlots
    BY DEF CountInv
  <1>5. PICK last \in numSubmittedCBs .. numSlots :
            IF last > numSubmittedCBs
            THEN /\ handlers' = present \ HandlersToSubmit(present, last)
                 /\ batches' = Append(batches, [first |-> numSubmittedCBs + 1, last |-> last,
                                                handlers |-> HandlersToSubmit(present, last)])
            ELSE handlers' = present /\ batches' = batches
    BY <1>2 DEF SubmitCommandBuffer
  <1>6. HandlersToSubmit(present, last) \subseteq present
    BY DEF HandlersToSubmit
  <1> HIDE DEF present
  <1>7. handlers' \subseteq 1..numSlots
    BY <1>4, <1>5
  <1>8. batches' \in Seq(Batch)
    <2>1. CASE last > numSubmittedCBs
      <3>1. numSubmittedCBs + 1 \in Slots /\ last \in Slots
        BY <1>1, <2>1 DEF Slots
      <3>2. HandlersToSubmit(present, last) \subseteq Slots
        <4>1. 1..numSlots \subseteq Slots
          BY <1>1 DEF Slots
        <4> QED
          BY <1>4, <1>6, <4>1
      <3>3. PICK B \in Batch : B = [first |-> numSubmittedCBs + 1, last |-> last,
                                    handlers |-> HandlersToSubmit(present, last)]
        BY <3>1, <3>2 DEF Batch
      <3> QED
        BY <1>5, <2>1, <3>3 DEF CountInv
    <2>2. CASE ~(last > numSubmittedCBs)
      BY <1>5, <2>2 DEF CountInv
    <2> QED
      BY <2>1, <2>2
  <1>9. \A v \in Workers : /\ target'[v] # None => target'[v] \in CommandBuffer
                           /\ recording'[v] <= numSlots'
    BY <1>1, <1>3 DEF CountInv
  <1>10. \A j \in Slots : ready'[j] # None => ready'[j] \in CommandBuffer
    BY <1>1, <1>3 DEF CountInv
  <1> QED
    BY <1>3, <1>7, <1>8, <1>9, <1>10 DEF CountInv, poolVars

LEMMA CountNextFrame == ASSUME Inv, CountInv, NextFrame PROVE CountInv'
  <1>1. PICK next \in Frames : /\ pools' = ResetPools(pools, next)
                               /\ UNCHANGED <<slotVars, taskVars>>
    BY DEF NextFrame, Inv, Types, Frames, MaxFramesInFlight
  <1>2. pools \in [Frames -> [Workers -> [size : Nat, used : Nat]]]
    BY DEF Inv, Types
  <1>3. \A f \in Frames, v \in Workers :
            pools'[f][v] = IF f = next THEN [size |-> pools[f][v].size, used |-> 0] ELSE pools[f][v]
    BY <1>1, <1>2 DEF ResetPools
  <1>4. Cardinality(started) \in Nat
    BY StartedTasks DEF Inv, Types
  <1>5. \A f \in Frames, v \in Workers :
            pools'[f][v].used <= Cardinality(started) /\ pools'[f][v].used <= pools'[f][v].size
    <2> SUFFICES ASSUME NEW f \in Frames, NEW v \in Workers
                 PROVE  pools'[f][v].used <= Cardinality(started) /\ pools'[f][v].used <= pools'[f][v].size
      OBVIOUS
    <2>1. pools[f][v].size \in Nat
      BY <1>2
    <2>2. CASE f = next
      <3>1. pools'[f][v] = [size |-> pools[f][v].size, used |-> 0]
        BY <1>3, <2>2
      <3>2. pools'[f][v].size = pools[f][v].size /\ pools'[f][v].used = 0
        BY <3>1
      <3> QED
        BY <1>4, <2>1, <3>2
    <2>3. CASE f # next
      BY <1>3, <2>3 DEF CountInv
    <2> QED
      BY <2>2, <2>3
  <1> QED
    BY <1>1, <1>5 DEF CountInv, slotVars, taskVars

LEMMA CountNext == Inv /\ CountInv /\ [Next]_vars => CountInv'
  <1> SUFFICES ASSUME Inv, CountInv, [Next]_vars PROVE CountInv'
    OBVIOUS
  <1>1. CASE AddCommandBufferSlot
    <2>1. \A w \in Workers : recording[w] \in Int
      BY DEF Inv, Types
    <2> QED
      BY <1>1, <2>1 DEF AddCommandBufferSlot, CountInv, Inv, Types, poolVars, taskVars
  <1>2. CASE ExecuteBatch \/ (\E n \in Slots : CompleteBatch(n)) \/ UNCHANGED vars
    <2>1. UNCHANGED <<slotVars, poolVars, taskVars>>
      BY <1>2 DEF ExecuteBatch, CompleteBatch, vars
    <2> QED
      BY <2>1 DEF CountInv, slotVars, poolVars, taskVars
  <1> QED
    BY <1>1, <1>2, CountGet, CountSubmit, CountNextFrame DEF Next

\* AddCommandBufferSlot, GetCommandBuffer, SubmitCommandBuffer, NextFrame: what
\* is indexed is always there: a slot that was reserved, a command buffer that
\* its pool holds, the batch whose handlers a callback runs.
THEOREM TypeCorrect == Spec => []TypeOK
  <1>1. Inv /\ CountInv => TypeOK
    <2> SUFFICES ASSUME Inv, CountInv PROVE TypeOK
      OBVIOUS
    <2>1. Types
      BY DEF Inv
    <2>2. Cardinality(started) \in Nat /\ Cardinality(started) <= MaxSlots
      BY <2>1, StartedTasks DEF Types
    <2>3. ready \in [Slots -> CommandBuffer \cup {None}] /\ target \in [Workers -> CommandBuffer \cup {None}]
      BY <2>1 DEF Types, CountInv
    <2>4. recording \in [Workers -> 0..numSlots]
      BY <2>1 DEF Types, CountInv
    <2>5. /\ pools \in [Frames -> [Workers -> [size : Nat, used : 0..MaxSlots]]]
          /\ \A f \in Frames, w \in Workers : pools[f][w].used <= pools[f][w].size
      <3>1. \A f \in Frames, w \in Workers :
                /\ pools[f][w] \in [size : Nat, used : Nat]
                /\ pools[f][w].used <= MaxSlots /\ pools[f][w].used <= pools[f][w].size
        BY <2>1, <2>2, GpuExecutorAssumption DEF Types, CountInv, GpuExecutorAssumption
      <3>2. \A f \in Frames, w \in Workers : pools[f][w] \in [size : Nat, used : 0..MaxSlots]
        BY <3>1, GpuExecutorAssumption DEF GpuExecutorAssumption
      <3> QED
        BY <2>1, <3>1, <3>2 DEF Types
    <2> QED
      BY <2>1, <2>3, <2>4, <2>5 DEF Types, CountInv, TypeOK
  <1> QED
    BY <1>1, CountInit, CountNext, Invariance, PTL DEF Spec

=============================================================================
