----------------------------- MODULE QueueProofs -----------------------------
(***************************************************************************)
(* Proofs about Queue, for any number of submissions and any set of        *)
(* calling threads.                                                        *)
(***************************************************************************)
EXTENDS Queue, TLAPS

(* Type correctness is inductive on its own: a new fence is within bounds  *)
(* because Submit creates at most one for each submission.                 *)
LEMMA TypeInit == Init => TypeOK
  <1> SUFFICES ASSUME Init PROVE TypeOK
    OBVIOUS
  <1> USE QueueAssumption DEF QueueAssumption, Init, Submissions, Fences, Entry
  <1>1. inFlight \subseteq Entry /\ unsignalled \subseteq Entry /\ signalled \subseteq Fences
    OBVIOUS
  <1>2. unused \in Seq(Fences)
    OBVIOUS
  <1>3. /\ numFences \in 0..numSubmitted /\ numSubmitted \in 0..MaxSubmits
        /\ cursor \in 0..MaxSubmits /\ numExecuted \in 0..numSubmitted
    OBVIOUS
  <1>4. pc \in [Threads -> {"idle", "wait", "poll", "pollWait", "flush", "done"}]
    OBVIOUS
  <1>5. snapshot \in [Threads -> SUBSET Entry] /\ awaited \in [Threads -> SUBSET Submissions]
    OBVIOUS
  <1>6. calls \in [Submissions -> Nat] /\ stopRequested \in BOOLEAN
    OBVIOUS
  <1> QED
    BY <1>1, <1>2, <1>3, <1>4, <1>5, <1>6 DEF TypeOK

LEMMA TypeNext == TypeOK /\ [Next]_vars => TypeOK'
  <1> SUFFICES ASSUME TypeOK, [Next]_vars PROVE TypeOK'
    OBVIOUS
  <1> USE QueueAssumption DEF QueueAssumption, TypeOK, Threads, Submissions, Fences, Entry,
                              poolVars, deviceVars, threadVars
  <1>1. CASE Submit
    <2>1. NextFence \in Fences
      <3>1. CASE unused = <<>>
        BY <1>1, <3>1 DEF Submit, NextFence
      <3>2. CASE unused # <<>>
        BY <1>1, <3>2 DEF NextFence
      <3> QED
        BY <3>1, <3>2
    <2>2. unused' \in Seq(Fences)
      <3>1. CASE unused = <<>>
        BY <1>1, <3>1 DEF Submit, GetFence
      <3>2. CASE unused # <<>>
        BY <1>1, <3>2 DEF Submit, GetFence
      <3> QED
        BY <3>1, <3>2
    <2>3. numFences' \in 0..numSubmitted' /\ numSubmitted' \in 0..MaxSubmits
      BY <1>1 DEF Submit, GetFence
    <2>4. [sub |-> numSubmitted + 1, fence |-> NextFence] \in Entry
      BY <1>1, <2>1 DEF Submit
    <2>5. inFlight' \subseteq Entry /\ unsignalled' \subseteq Entry
      BY <1>1, <2>4 DEF Submit
    <2>6. numExecuted' \in 0..numSubmitted'
      BY <1>1 DEF Submit
    <2> QED
      BY <1>1, <2>2, <2>3, <2>5, <2>6 DEF Submit
  <1>2. CASE Execute
    BY <1>2 DEF Execute
  <1>3. ASSUME NEW e \in unsignalled, Signal(e) PROVE TypeOK'
    BY <1>3 DEF Signal
  <1>4. ASSUME NEW t \in Threads, BeginWait(t) PROVE TypeOK'
    <2>1. {e.sub : e \in inFlight} \subseteq Submissions
      OBVIOUS
    <2>2. pc' \in [Threads -> {"idle", "wait", "poll", "pollWait", "flush", "done"}]
      BY <1>4 DEF BeginWait
    <2>3. snapshot' \in [Threads -> SUBSET Entry]
      BY <1>4 DEF BeginWait
    <2>4. awaited' \in [Threads -> SUBSET Submissions]
      BY <1>4, <2>1 DEF BeginWait
    <2> QED
      BY <1>4, <2>2, <2>3, <2>4 DEF BeginWait
  <1>5. ASSUME NEW t \in Callers, Return(t) PROVE TypeOK'
    BY <1>5 DEF Return
  <1>6. ASSUME NEW t \in Threads, NEW e \in snapshot[t], ObserveSignalled(t, e) PROVE TypeOK'
    BY <1>6 DEF ObserveSignalled
  <1>7. ASSUME NEW t \in Threads, WaitSucceeds(t) \/ WaitTimesOut(t) PROVE TypeOK'
    <2>1. CASE WaitSucceeds(t)
      BY <2>1 DEF WaitSucceeds
    <2>2. CASE WaitTimesOut(t)
      BY <2>2 DEF WaitTimesOut
    <2> QED
      BY <1>7, <2>1, <2>2
  <1>8. CASE PollFences \/ FlushEnd \/ RequestStop
    <2>1. CASE PollFences
      BY <2>1 DEF PollFences
    <2>2. CASE FlushEnd
      BY <2>2 DEF FlushEnd
    <2>3. CASE RequestStop
      BY <2>3 DEF RequestStop
    <2> QED
      BY <1>8, <2>1, <2>2, <2>3
  <1>9. CASE PollReturns
    BY <1>9 DEF PollReturns
  <1>10. ASSUME NEW e \in inFlight, FlushEntry(e) PROVE TypeOK'
    <2>1. e.sub \in Submissions /\ e.fence \in Fences
      OBVIOUS
    <2>2. unused' \in Seq(Fences)
      <3>1. unused' = unused \/ unused' = Append(unused, e.fence)
        BY <1>10 DEF FlushEntry, PoolFence
      <3>2. CASE unused' = unused
        BY <3>2
      <3>3. CASE unused' = Append(unused, e.fence)
        BY <2>1, <3>3
      <3> QED
        BY <3>1, <3>2, <3>3
    <2>3. calls' \in [Submissions -> Nat]
      <3>1. calls' = calls \/ calls' = [calls EXCEPT ![e.sub] = @ + 1]
        BY <1>10 DEF FlushEntry
      <3>2. CASE calls' = calls
        BY <3>2
      <3>3. CASE calls' = [calls EXCEPT ![e.sub] = @ + 1]
        BY <2>1, <3>3
      <3> QED
        BY <3>1, <3>2, <3>3
    <2>4. inFlight' \subseteq Entry /\ signalled' \subseteq Fences
      <3>1. inFlight' \subseteq inFlight /\ signalled' \subseteq signalled
        BY <1>10 DEF FlushEntry, ResetFence
      <3> QED
        BY <3>1
    <2>5. cursor' \in 0..MaxSubmits
      BY <1>10, <2>1 DEF FlushEntry
    <2> QED
      BY <1>10, <2>2, <2>3, <2>4, <2>5 DEF FlushEntry
  <1>11. CASE Terminated \/ UNCHANGED vars
    BY <1>11 DEF Terminated, vars
  <1> QED
    BY <1>1, <1>2, <1>3, <1>4, <1>5, <1>6, <1>7, <1>8, <1>9, <1>10, <1>11
    DEF Next, WaitForTasks, Drain

\* Every variable of Queue keeps its type; in particular a Queue never has
\* more fences than submissions (GetFence creates one only when the pool is
\* empty, and at most once per Submit).
THEOREM TypeCorrect == Spec => []TypeOK
  <1> QED
    BY TypeInit, TypeNext, PTL DEF Spec

------------------------------------------------------------------------------
(* The inductive invariant. Between them its parts say who owns a fence    *)
(* and what its signal means: an entry in flight is the only one with its  *)
(* fence, the fences the device has signalled or will signal all belong to *)
(* entries in flight, and a signal is only there once the submission has   *)
(* executed. A snapshot taken for WaitForTasks may be out of date, but an  *)
(* entry that has left m_inFlightSubmits since has executed.               *)

EntriesInv ==
    /\ \A d, e \in inFlight : d.sub = e.sub => d = e
    /\ \A e \in inFlight : e.sub <= numSubmitted /\ calls[e.sub] = 0
    /\ unsignalled \subseteq inFlight
    /\ \A e \in inFlight : e.fence \in signalled => e.sub <= numExecuted /\ e \notin unsignalled
    /\ \A f \in signalled : \E e \in inFlight : e.fence = f

CallsInv ==
    /\ CallbackOnceAfterExecution
    /\ \A n \in Submissions : n > numSubmitted => calls[n] = 0

WaitInv ==
    /\ WaitCoversItsSubmissions
    /\ \A t \in Threads : \A e \in snapshot[t] : e.sub <= numExecuted \/ e \in inFlight

Inv ==
    /\ TypeOK
    /\ FenceHasOneOwner
    /\ EntriesInv
    /\ CallsInv
    /\ WaitInv

(* Apart from four actions, a step only moves threads.                     *)
LEMMA StepKinds ==
    ASSUME [Next]_vars
    PROVE  \/ Submit
           \/ Execute
           \/ \E e \in unsignalled : Signal(e)
           \/ \E e \in inFlight : FlushEntry(e)
           \/ UNCHANGED <<poolVars, deviceVars, calls>>
  BY DEF Next, vars, WaitForTasks, Return, BeginWait, ObserveSignalled, WaitSucceeds,
         WaitTimesOut, PollFences, PollReturns, FlushEnd, RequestStop, Drain, Terminated

LEMMA InvInit == Init => Inv
  <1> SUFFICES ASSUME Init PROVE Inv
    OBVIOUS
  <1> USE QueueAssumption DEF QueueAssumption, Init
  <1>1. TypeOK
    BY TypeInit
  <1>2. FenceHasOneOwner
    BY DEF FenceHasOneOwner, PooledFences
  <1>3. EntriesInv
    BY DEF EntriesInv
  <1>4. CallsInv
    BY DEF CallsInv, CallbackOnceAfterExecution, Submissions
  <1>5. WaitInv
    BY DEF WaitInv, WaitCoversItsSubmissions, Threads
  <1> QED
    BY <1>1, <1>2, <1>3, <1>4, <1>5 DEF Inv

(* Submit takes a fence that no entry in flight has.                       *)
LEMMA NextFenceIsFree ==
    ASSUME TypeOK, FenceHasOneOwner
    PROVE  \A e \in inFlight : e.fence # NextFence
  <1>1. CASE unused = <<>>
    BY <1>1 DEF TypeOK, Entry, Fences, FenceHasOneOwner, NextFence
  <1>2. CASE unused # <<>>
    <2>1. 1 \in DOMAIN unused /\ Head(unused) = unused[1]
      BY <1>2 DEF TypeOK
    <2> QED
      BY <1>2, <2>1 DEF FenceHasOneOwner, PooledFences, NextFence
  <1> QED
    BY <1>1, <1>2

LEMMA EntriesNext ==
    ASSUME Inv, [Next]_vars
    PROVE  EntriesInv'
  <1> USE QueueAssumption DEF QueueAssumption, Inv
  <1>1. CASE Submit
    <2> DEFINE new == [sub |-> numSubmitted + 1, fence |-> NextFence]
    <2>1. /\ inFlight' = inFlight \cup {new}
          /\ unsignalled' = unsignalled \cup {new}
          /\ numSubmitted' = numSubmitted + 1
          /\ numSubmitted + 1 \in Submissions
          /\ UNCHANGED <<signalled, numExecuted, calls>>
      BY <1>1 DEF Submit, threadVars, TypeOK, Submissions
    <2>2. new.fence \notin signalled
      BY NextFenceIsFree DEF EntriesInv
    <2>3. \A e \in inFlight : e.sub # new.sub /\ e # new /\ e.sub \in Nat
      BY DEF EntriesInv, TypeOK, Entry, Submissions
    <2>4. calls[new.sub] = 0
      BY <2>1 DEF CallsInv, TypeOK
    <2>5. \A d, e \in inFlight' : d.sub = e.sub => d = e
      BY <2>1, <2>3 DEF EntriesInv
    <2>6. \A e \in inFlight' : e.sub <= numSubmitted' /\ calls'[e.sub] = 0
      BY <2>1, <2>3, <2>4 DEF EntriesInv, TypeOK
    <2>7. unsignalled' \subseteq inFlight'
      BY <2>1 DEF EntriesInv
    <2>8. \A e \in inFlight' : e.fence \in signalled' => e.sub <= numExecuted' /\ e \notin unsignalled'
      BY <2>1, <2>2, <2>3 DEF EntriesInv
    <2>9. \A f \in signalled' : \E e \in inFlight' : e.fence = f
      BY <2>1 DEF EntriesInv
    <2> QED
      BY <2>5, <2>6, <2>7, <2>8, <2>9 DEF EntriesInv
  <1>2. CASE Execute
    BY <1>2 DEF Execute, EntriesInv, TypeOK, poolVars, Entry, Submissions
  <1>3. ASSUME NEW e \in unsignalled, Signal(e) PROVE EntriesInv'
    <2>1. e \in inFlight
      BY DEF EntriesInv
    <2>2. \A d \in inFlight : d.fence = e.fence => d = e
      BY <2>1 DEF FenceHasOneOwner
    <2> QED
      BY <1>3, <2>1, <2>2 DEF Signal, EntriesInv, poolVars
  <1>4. ASSUME NEW e \in inFlight, FlushEntry(e) PROVE EntriesInv'
    <2>1. CASE ~IsSignalled(e.fence)
      BY <1>4, <2>1 DEF FlushEntry, EntriesInv
    <2>2. CASE IsSignalled(e.fence)
      <3>1. /\ inFlight' = inFlight \ {e}
            /\ signalled' = signalled \ {e.fence}
            /\ calls' = [calls EXCEPT ![e.sub] = @ + 1]
            /\ UNCHANGED <<unsignalled, numSubmitted, numExecuted>>
        BY <1>4, <2>2 DEF FlushEntry, ResetFence
      <3>2. e \notin unsignalled
        BY <2>2 DEF IsSignalled, EntriesInv
      <3>3. \A d \in inFlight' : d.sub # e.sub /\ d.fence # e.fence
        BY <3>1 DEF EntriesInv, FenceHasOneOwner
      <3>4. \A d \in inFlight' : calls'[d.sub] = calls[d.sub]
        BY <3>1, <3>3 DEF TypeOK, Entry
      <3> QED
        BY <3>1, <3>2, <3>3, <3>4 DEF EntriesInv
    <2> QED
      BY <2>1, <2>2
  <1>5. CASE UNCHANGED <<poolVars, deviceVars, calls>>
    BY <1>5 DEF EntriesInv, poolVars, deviceVars
  <1> QED
    BY <1>1, <1>2, <1>3, <1>4, <1>5, StepKinds

LEMMA FencesNext ==
    ASSUME Inv, [Next]_vars
    PROVE  FenceHasOneOwner'
  <1> USE QueueAssumption DEF QueueAssumption, Inv
  <1>1. CASE Submit
    <2> DEFINE new == [sub |-> numSubmitted + 1, fence |-> NextFence]
    <2>1. inFlight' = inFlight \cup {new}
      BY <1>1 DEF Submit
    <2>2. \A d, e \in inFlight' : d.fence = e.fence => d = e
      BY <2>1, NextFenceIsFree DEF FenceHasOneOwner
    <2>3. {e.fence : e \in inFlight'} = {e.fence : e \in inFlight} \cup {NextFence}
      <3>1. new \in inFlight' /\ new.fence = NextFence
        BY <2>1
      <3>2. \A e \in inFlight' : e \in inFlight \/ e.fence = NextFence
        BY <2>1
      <3>3. \A e \in inFlight : e \in inFlight'
        BY <2>1
      <3> HIDE DEF new
      <3> QED
        BY <3>1, <3>2, <3>3
    <2>4. CASE unused = <<>>
      <3>1. unused' = <<>> /\ numFences' = numFences + 1 /\ NextFence = numFences + 1
        BY <1>1, <2>4 DEF Submit, GetFence, NextFence
      <3>2. PooledFences' = {} /\ PooledFences = {}
        BY <2>4, <3>1 DEF PooledFences
      <3>3. 1..numFences' = (1..numFences) \cup {NextFence}
        BY <3>1 DEF TypeOK
      <3> QED
        BY <2>2, <2>3, <3>1, <3>2, <3>3 DEF FenceHasOneOwner
    <2>5. CASE unused # <<>>
      <3>1. unused' = Tail(unused) /\ numFences' = numFences /\ NextFence = Head(unused)
        BY <1>1, <2>5 DEF Submit, GetFence, NextFence
      <3>2. /\ DOMAIN unused = 1..Len(unused) /\ Len(unused) \in Nat \ {0}
            /\ DOMAIN unused' = 1..Len(unused) - 1
            /\ \A i \in 1..Len(unused) - 1 : unused'[i] = unused[i + 1]
            /\ NextFence = unused[1]
        BY <2>5, <3>1 DEF TypeOK
      <3>3. \A i, j \in DOMAIN unused' : unused'[i] = unused'[j] => i = j
        <4> SUFFICES ASSUME NEW i \in DOMAIN unused', NEW j \in DOMAIN unused',
                            unused'[i] = unused'[j]
                     PROVE  i = j
          OBVIOUS
        <4>1. i + 1 \in DOMAIN unused /\ j + 1 \in DOMAIN unused /\ unused[i + 1] = unused[j + 1]
          BY <3>2
        <4>2. i + 1 = j + 1
          BY <4>1 DEF FenceHasOneOwner
        <4> QED
          BY <3>2, <4>2
      <3>4. NextFence \in PooledFences /\ NextFence \notin PooledFences'
        <4>1. NextFence \in PooledFences
          BY <3>2 DEF PooledFences
        <4>2. ASSUME NEW i \in DOMAIN unused', unused'[i] = NextFence PROVE FALSE
          <5>1. i + 1 \in DOMAIN unused /\ 1 \in DOMAIN unused /\ unused[i + 1] = unused[1] /\ i + 1 # 1
            BY <3>2, <4>2
          <5> QED
            BY <5>1 DEF FenceHasOneOwner
        <4> QED
          BY <4>1, <4>2 DEF PooledFences
      <3>5. PooledFences = PooledFences' \cup {NextFence}
        <4>1. ASSUME NEW f \in PooledFences, f # NextFence PROVE f \in PooledFences'
          <5>1. PICK i \in DOMAIN unused : f = unused[i]
            BY DEF PooledFences
          <5>2. i # 1 /\ i - 1 \in DOMAIN unused' /\ unused'[i - 1] = unused[i]
            BY <3>2, <4>1, <5>1
          <5> QED
            BY <5>1, <5>2 DEF PooledFences
        <4>2. ASSUME NEW f \in PooledFences' PROVE f \in PooledFences
          <5>1. PICK i \in DOMAIN unused' : f = unused'[i]
            BY DEF PooledFences
          <5>2. i + 1 \in DOMAIN unused /\ unused[i + 1] = f
            BY <3>2, <5>1
          <5> QED
            BY <5>2 DEF PooledFences
        <4> QED
          BY <3>4, <4>1, <4>2
      <3>6. \A e \in inFlight' : e.fence \notin PooledFences'
        BY <2>1, <3>4, <3>5 DEF FenceHasOneOwner
      <3>7. 1..numFences' = PooledFences' \cup {e.fence : e \in inFlight'}
        BY <2>3, <3>1, <3>5 DEF FenceHasOneOwner
      <3> QED
        BY <2>2, <3>3, <3>6, <3>7 DEF FenceHasOneOwner
    <2> QED
      BY <2>4, <2>5
  <1>2. ASSUME NEW e \in inFlight, FlushEntry(e) PROVE FenceHasOneOwner'
    <2>1. CASE ~IsSignalled(e.fence)
      BY <1>2, <2>1 DEF FlushEntry, FenceHasOneOwner, PooledFences
    <2>2. CASE IsSignalled(e.fence)
      <3>1. /\ inFlight' = inFlight \ {e}
            /\ unused' = Append(unused, e.fence)
            /\ numFences' = numFences
        BY <1>2, <2>2 DEF FlushEntry, PoolFence
      <3>2. /\ DOMAIN unused = 1..Len(unused) /\ Len(unused) \in Nat
            /\ DOMAIN unused' = 1..Len(unused) + 1
            /\ \A i \in 1..Len(unused) : unused'[i] = unused[i]
            /\ unused'[Len(unused) + 1] = e.fence
        BY <3>1 DEF TypeOK
      <3>3. \A i \in DOMAIN unused : unused[i] # e.fence
        BY DEF FenceHasOneOwner, PooledFences
      <3>4. \A i, j \in DOMAIN unused' : unused'[i] = unused'[j] => i = j
        BY <3>2, <3>3 DEF FenceHasOneOwner
      <3>5. PooledFences' = PooledFences \cup {e.fence}
        <4>1. ASSUME NEW f \in PooledFences' PROVE f \in PooledFences \cup {e.fence}
          BY <3>2 DEF PooledFences
        <4>2. e.fence \in PooledFences'
          BY <3>2 DEF PooledFences
        <4>3. ASSUME NEW f \in PooledFences PROVE f \in PooledFences'
          BY <3>2 DEF PooledFences
        <4> QED
          BY <4>1, <4>2, <4>3
      <3>6. \A d \in inFlight' : d.fence # e.fence
        BY <3>1 DEF FenceHasOneOwner
      <3>7. {d.fence : d \in inFlight} = {d.fence : d \in inFlight'} \cup {e.fence}
        BY <3>1
      <3>8. \A d \in inFlight' : d.fence \notin PooledFences'
        BY <3>1, <3>5, <3>6 DEF FenceHasOneOwner
      <3>9. 1..numFences' = PooledFences' \cup {d.fence : d \in inFlight'}
        BY <3>1, <3>5, <3>7 DEF FenceHasOneOwner
      <3>10. \A c, d \in inFlight' : c.fence = d.fence => c = d
        BY <3>1 DEF FenceHasOneOwner
      <3> QED
        BY <3>4, <3>8, <3>9, <3>10 DEF FenceHasOneOwner
    <2> QED
      BY <2>1, <2>2
  <1>3. ASSUME UNCHANGED <<inFlight, unused, numFences>> PROVE FenceHasOneOwner'
    BY <1>3 DEF FenceHasOneOwner, PooledFences
  <1> QED
    BY <1>1, <1>2, <1>3, StepKinds DEF Execute, Signal, poolVars

LEMMA CallsNext ==
    ASSUME Inv, [Next]_vars
    PROVE  CallsInv'
  <1> USE QueueAssumption DEF QueueAssumption, Inv
  <1>0. \A n \in 1..numSubmitted : n \in Submissions
    BY DEF TypeOK, Submissions
  <1>1. CASE Submit
    <2> DEFINE new == [sub |-> numSubmitted + 1, fence |-> NextFence]
    <2>1. /\ inFlight' = inFlight \cup {new}
          /\ numSubmitted' = numSubmitted + 1
          /\ numSubmitted + 1 \in Submissions
          /\ UNCHANGED <<numExecuted, calls>>
      BY <1>1 DEF Submit, TypeOK, Submissions
    <2>2. calls[numSubmitted + 1] = 0 /\ new.sub = numSubmitted + 1 /\ new \in inFlight'
      BY <2>1 DEF CallsInv, TypeOK
    <2>3. \A n \in 1..numSubmitted' : n \in 1..numSubmitted \/ n = numSubmitted + 1
      BY <2>1 DEF TypeOK
    <2> HIDE DEF new
    <2>4. CallbackOnceAfterExecution'
      BY <2>1, <2>2, <2>3 DEF CallsInv, CallbackOnceAfterExecution
    <2>5. \A n \in Submissions : n > numSubmitted' => calls'[n] = 0
      BY <2>1 DEF CallsInv, TypeOK, Submissions
    <2> QED
      BY <2>4, <2>5 DEF CallsInv
  <1>2. CASE Execute
    BY <1>2 DEF Execute, CallsInv, CallbackOnceAfterExecution, TypeOK, poolVars
  <1>3. ASSUME NEW e \in unsignalled, Signal(e) PROVE CallsInv'
    BY <1>3 DEF Signal, CallsInv, CallbackOnceAfterExecution, poolVars
  <1>4. ASSUME NEW e \in inFlight, FlushEntry(e) PROVE CallsInv'
    <2>1. CASE ~IsSignalled(e.fence)
      BY <1>4, <2>1 DEF FlushEntry, CallsInv, CallbackOnceAfterExecution
    <2>2. CASE IsSignalled(e.fence)
      <3>1. /\ inFlight' = inFlight \ {e}
            /\ calls' = [calls EXCEPT ![e.sub] = @ + 1]
            /\ UNCHANGED <<numSubmitted, numExecuted>>
        BY <1>4, <2>2 DEF FlushEntry
      <3>2. e.sub \in Submissions /\ e.sub <= numSubmitted /\ calls[e.sub] = 0 /\ e.sub <= numExecuted
        BY <2>2 DEF IsSignalled, EntriesInv, TypeOK, Entry
      <3>3. calls'[e.sub] = 1
        BY <3>1, <3>2 DEF TypeOK
      <3>4. \A n \in Submissions : n # e.sub => calls'[n] = calls[n]
        BY <3>1 DEF TypeOK
      <3>5. \A d \in inFlight : d.sub # e.sub => d \in inFlight'
        BY <3>1
      <3>6. CallbackOnceAfterExecution'
        BY <1>0, <3>1, <3>2, <3>3, <3>4, <3>5 DEF CallsInv, CallbackOnceAfterExecution
      <3>7. \A n \in Submissions : n > numSubmitted' => calls'[n] = 0
        BY <3>1, <3>2, <3>4 DEF CallsInv, TypeOK, Submissions
      <3> QED
        BY <3>6, <3>7 DEF CallsInv
    <2> QED
      BY <2>1, <2>2
  <1>5. CASE UNCHANGED <<poolVars, deviceVars, calls>>
    BY <1>5 DEF CallsInv, CallbackOnceAfterExecution, poolVars, deviceVars
  <1> QED
    BY <1>1, <1>2, <1>3, <1>4, <1>5, StepKinds

(* The submissions a thread waits for, on their own: an entry of a snapshot *)
(* whose fence is signalled has executed, whoever the fence belongs to now. *)
LEMMA SignalledEntryExecuted ==
    ASSUME Inv, NEW t \in Threads, NEW e \in snapshot[t], e.fence \in signalled
    PROVE  e.sub <= numExecuted
  BY DEF Inv, WaitInv, EntriesInv

LEMMA WaitNext ==
    ASSUME Inv, [Next]_vars
    PROVE  WaitInv'
  <1> USE QueueAssumption DEF QueueAssumption, Inv
  <1> DEFINE Covered(t) == \A n \in awaited[t] : n <= numExecuted \/ n \in {e.sub : e \in snapshot[t]}
             Current(t) == \A e \in snapshot[t] : e.sub <= numExecuted \/ e \in inFlight
  <1>1. SUFFICES ASSUME NEW t \in Threads
                 PROVE  (pc'[t] = "wait" => Covered(t)') /\ Current(t)'
    BY DEF WaitInv, WaitCoversItsSubmissions, Threads
  <1>2. (pc[t] = "wait" => Covered(t)) /\ Current(t)
    BY DEF WaitInv, WaitCoversItsSubmissions
  <1>3. numExecuted \in Nat /\ \A e \in snapshot[t] : e.sub \in Nat
    BY DEF TypeOK, Entry, Submissions
  <1>4. awaited[t] \subseteq Nat
    BY DEF TypeOK, Submissions
  <1>5. CASE Submit
    BY <1>2, <1>5 DEF Submit, threadVars
  <1>6. CASE Execute
    BY <1>2, <1>3, <1>4, <1>6 DEF Execute, threadVars, poolVars
  <1>7. ASSUME NEW e \in unsignalled, Signal(e) PROVE (pc'[t] = "wait" => Covered(t)') /\ Current(t)'
    BY <1>2, <1>7 DEF Signal, threadVars, poolVars
  <1>8. ASSUME NEW e \in inFlight, FlushEntry(e) PROVE (pc'[t] = "wait" => Covered(t)') /\ Current(t)'
    <2>1. UNCHANGED <<pc, snapshot, awaited, numExecuted>>
      BY <1>8 DEF FlushEntry
    <2>2. inFlight' = inFlight \/ (inFlight' = inFlight \ {e} /\ e.sub <= numExecuted)
      BY <1>8 DEF FlushEntry, IsSignalled, EntriesInv
    <2> QED
      BY <1>2, <2>1, <2>2
  <1>9. ASSUME NEW u \in Threads, BeginWait(u) PROVE (pc'[t] = "wait" => Covered(t)') /\ Current(t)'
    <2>1. UNCHANGED <<inFlight, numExecuted>>
      BY <1>9 DEF BeginWait, poolVars, deviceVars
    <2>2. CASE t = u
      <3>1. snapshot'[t] = inFlight /\ awaited'[t] = {e.sub : e \in inFlight}
        BY <1>9, <2>2 DEF BeginWait, TypeOK
      <3> QED
        BY <2>1, <3>1
    <2>3. CASE t # u
      <3>1. snapshot'[t] = snapshot[t] /\ awaited'[t] = awaited[t] /\ pc'[t] = pc[t]
        BY <1>9, <2>3 DEF BeginWait, TypeOK
      <3> QED
        BY <1>2, <2>1, <3>1
    <2> QED
      BY <2>2, <2>3
  <1>10. ASSUME NEW u \in Threads, NEW e \in snapshot[u], ObserveSignalled(u, e)
         PROVE (pc'[t] = "wait" => Covered(t)') /\ Current(t)'
    <2>1. UNCHANGED <<inFlight, numExecuted, pc, awaited>>
      BY <1>10 DEF ObserveSignalled, poolVars, deviceVars
    <2>2. CASE t = u
      <3>1. snapshot'[t] = snapshot[t] \ {e}
        BY <1>10, <2>2 DEF ObserveSignalled, TypeOK
      <3>2. e.sub <= numExecuted
        BY <1>10, SignalledEntryExecuted DEF ObserveSignalled
      <3> QED
        BY <1>2, <2>1, <3>1, <3>2
    <2>3. CASE t # u
      <3>1. snapshot'[t] = snapshot[t]
        BY <1>10, <2>3 DEF ObserveSignalled, TypeOK
      <3> QED
        BY <1>2, <2>1, <3>1
    <2> QED
      BY <2>2, <2>3
  <1>11. ASSUME /\ UNCHANGED <<inFlight, numExecuted>>
                /\ pc'[t] = "wait" => pc[t] = "wait" /\ awaited'[t] = awaited[t] /\ snapshot'[t] = snapshot[t]
                /\ snapshot'[t] \in {snapshot[t], {}, inFlight}
         PROVE (pc'[t] = "wait" => Covered(t)') /\ Current(t)'
    BY <1>2, <1>11
  <1>12. ASSUME NEW u \in Callers, Return(u) PROVE (pc'[t] = "wait" => Covered(t)') /\ Current(t)'
    BY <1>11, <1>12 DEF Return, TypeOK, Threads, poolVars, deviceVars
  <1>13. ASSUME NEW u \in Threads, WaitSucceeds(u) PROVE (pc'[t] = "wait" => Covered(t)') /\ Current(t)'
    BY <1>11, <1>13 DEF WaitSucceeds, TypeOK, poolVars, deviceVars
  <1>14. ASSUME NEW u \in Threads, WaitTimesOut(u) PROVE (pc'[t] = "wait" => Covered(t)') /\ Current(t)'
    BY <1>11, <1>14 DEF WaitTimesOut, TypeOK, poolVars, deviceVars
  <1>15. CASE PollFences
    BY <1>11, <1>15 DEF PollFences, TypeOK, poolVars, deviceVars
  <1>16. CASE PollReturns
    BY <1>11, <1>16 DEF PollReturns, TypeOK, poolVars, deviceVars
  <1>17. CASE FlushEnd
    BY <1>11, <1>17 DEF FlushEnd, TypeOK, poolVars, deviceVars
  <1>18. CASE RequestStop \/ Terminated \/ UNCHANGED vars
    BY <1>11, <1>18 DEF RequestStop, Terminated, vars, threadVars, poolVars, deviceVars
  <1> HIDE DEF Covered, Current
  <1> QED
    BY <1>5, <1>6, <1>7, <1>8, <1>9, <1>10, <1>12, <1>13, <1>14, <1>15, <1>16, <1>17, <1>18
    DEF Next, WaitForTasks, Drain, Threads

------------------------------------------------------------------------------
(* The theorems *)

\* Inv holds throughout: it holds initially and every step preserves it.
THEOREM Invariance == Spec => []Inv
  <1>1. Inv /\ [Next]_vars => Inv'
    <2> SUFFICES ASSUME Inv, [Next]_vars PROVE Inv'
      OBVIOUS
    <2>1. TypeOK'
      BY TypeNext DEF Inv
    <2> QED
      BY <2>1, FencesNext, EntriesNext, CallsNext, WaitNext DEF Inv
  <1> QED
    BY InvInit, <1>1, PTL DEF Spec

\* No two submissions ever share a fence and no fence is lost, however Submit
\* and Flush interleave.
THEOREM FenceOwnership == Spec => []FenceHasOneOwner
  <1>1. Inv => FenceHasOneOwner
    BY DEF Inv
  <1> QED
    BY Invariance, <1>1, PTL

\* Submit never gives vkQueueSubmit a fence that is signalled or still to be
\* signalled.
THEOREM FenceReuse == Spec => []NextFenceIsIdle
  <1>1. Inv => NextFenceIsIdle
    <2> SUFFICES ASSUME Inv PROVE NextFenceIsIdle
      OBVIOUS
    <2>1. \A e \in inFlight : e.fence # NextFence
      BY NextFenceIsFree DEF Inv
    <2> QED
      BY <2>1 DEF Inv, EntriesInv, NextFenceIsIdle
  <1> QED
    BY Invariance, <1>1, PTL

\* A completion callback runs at most once, only after its submission has
\* executed, and is kept until it has run.
THEOREM Callbacks == Spec => []CallbackOnceAfterExecution
  <1>1. Inv => CallbackOnceAfterExecution
    BY DEF Inv, CallsInv
  <1> QED
    BY Invariance, <1>1, PTL

\* A WaitForTasks that does not time out returns after every submission it
\* found in flight has executed, although its fences may be stale.
THEOREM WaitIsSound == Spec => []WaitCoversItsSubmissions
  <1>1. Inv => WaitCoversItsSubmissions
    BY DEF Inv, WaitInv
  <1> QED
    BY Invariance, <1>1, PTL

(* A step of Queue is a step of SubmitQueue: a Submit, an Execute, the     *)
(* Complete of the entry Flush is at, or nothing.                          *)
LEMMA AbstractInit == Init => Abstract!Init
  BY DEF Init, Abstract!Init

LEMMA AbstractNext == Inv /\ [Next]_vars => [Abstract!Next]_(Abstract!vars)
  <1> SUFFICES ASSUME Inv, [Next]_vars PROVE [Abstract!Next]_(Abstract!vars)
    OBVIOUS
  <1> USE QueueAssumption DEF QueueAssumption, Inv
  <1> DEFINE completed == {n \in 1..numSubmitted : calls[n] > 0}
  <1>1. CASE Submit
    <2>1. /\ numSubmitted < MaxSubmits
          /\ numSubmitted' = numSubmitted + 1
          /\ UNCHANGED <<numExecuted, calls>>
      BY <1>1 DEF Submit
    <2>2. calls[numSubmitted + 1] = 0
      BY <2>1 DEF CallsInv, TypeOK, Submissions
    <2>3. completed' = completed
      BY <2>1, <2>2 DEF TypeOK
    <2> QED
      BY <2>1, <2>3 DEF Abstract!Next, Abstract!Submit
  <1>2. CASE Execute
    BY <1>2 DEF Execute, poolVars, Abstract!Next, Abstract!Execute
  <1>3. ASSUME NEW e \in unsignalled, Signal(e) PROVE UNCHANGED Abstract!vars
    BY <1>3 DEF Signal, poolVars, Abstract!vars
  <1>4. ASSUME NEW e \in inFlight, FlushEntry(e) PROVE [Abstract!Next]_(Abstract!vars)
    <2>1. CASE ~IsSignalled(e.fence)
      BY <1>4, <2>1 DEF FlushEntry, Abstract!vars
    <2>2. CASE IsSignalled(e.fence)
      <3>1. /\ calls' = [calls EXCEPT ![e.sub] = @ + 1]
            /\ UNCHANGED <<numSubmitted, numExecuted>>
        BY <1>4, <2>2 DEF FlushEntry
      <3>2. /\ e.sub \in Submissions /\ e.sub \in 1..numSubmitted
            /\ e.sub \in 1..numExecuted /\ calls[e.sub] = 0
        BY <2>2 DEF IsSignalled, EntriesInv, TypeOK, Entry, Submissions
      <3>3. calls'[e.sub] = 1 /\ \A n \in 1..numSubmitted : n # e.sub => calls'[n] = calls[n]
        BY <3>1, <3>2 DEF TypeOK, Submissions
      <3>4. completed' = completed \cup {e.sub} /\ e.sub \notin completed
        BY <3>1, <3>2, <3>3
      <3>5. Abstract!Complete(e.sub)
        BY <3>1, <3>2, <3>4 DEF Abstract!Complete
      <3> QED
        BY <3>2, <3>5 DEF Abstract!Next, Submissions
    <2> QED
      BY <2>1, <2>2
  <1>5. CASE UNCHANGED <<poolVars, deviceVars, calls>>
    BY <1>5 DEF poolVars, deviceVars, Abstract!vars
  <1> QED
    BY <1>1, <1>2, <1>3, <1>4, <1>5, StepKinds

\* Queue implements SubmitQueue: what GpuExecutor relies on when it is built
\* on the abstract queue.
THEOREM Implements == Spec => Refinement
  <1> QED
    BY AbstractInit, AbstractNext, Invariance, PTL DEF Spec, Refinement, Abstract!Spec

==============================================================================
