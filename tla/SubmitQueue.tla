----------------------------- MODULE SubmitQueue -----------------------------
(***************************************************************************)
(* What Teide's Queue promises its callers, with no fence, no lock and no  *)
(* polling thread: submissions are numbered in the order in which they are *)
(* made, the device executes them in that order, and each has its          *)
(* completion callback called once, at some time after it has executed.    *)
(* Queue implements this specification (Queue!Refinement); GpuExecutor is  *)
(* built on its actions.                                                   *)
(***************************************************************************)
EXTENDS Naturals

CONSTANT MaxSubmits     \* bound on the number of submissions

VARIABLES
    numSubmitted,       \* submissions 1..numSubmitted have been made
    numExecuted,        \* submissions 1..numExecuted have been executed
    completed           \* the submissions whose callback has been called

vars == <<numSubmitted, numExecuted, completed>>

TypeOK ==
    /\ numSubmitted \in 0..MaxSubmits
    /\ numExecuted \in 0..numSubmitted
    /\ completed \subseteq 1..numExecuted

Init ==
    /\ numSubmitted = 0
    /\ numExecuted = 0
    /\ completed = {}

Submit ==
    /\ numSubmitted < MaxSubmits
    /\ numSubmitted' = numSubmitted + 1
    /\ UNCHANGED <<numExecuted, completed>>

Execute ==
    /\ numExecuted < numSubmitted
    /\ numExecuted' = numExecuted + 1
    /\ UNCHANGED <<numSubmitted, completed>>

Complete(n) ==
    /\ n \in (1..numExecuted) \ completed
    /\ completed' = completed \cup {n}
    /\ UNCHANGED <<numSubmitted, numExecuted>>

Next ==
    \/ Submit
    \/ Execute
    \/ \E n \in 1..MaxSubmits : Complete(n)

Spec == Init /\ [][Next]_vars

==============================================================================
