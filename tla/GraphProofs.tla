----------------------------- MODULE GraphProofs -----------------------------
(***************************************************************************)
(* Proofs about Graph, for any textures and any number of nodes.           *)
(*                                                                         *)
(* The argument. The barriers of a node depend on the list of state        *)
(* changes alone, which is the same in whatever order the nodes are        *)
(* recorded. When the device has executed the first nodes, a texture is in *)
(* the state that the last of them to use it ensures, and that is what the *)
(* next node's barrier names. So no barrier discards what was written. A   *)
(* read that was skipped leaves its texture in another state than the      *)
(* barriers name until one of them changes it; a node with a texture twice *)
(* leaves it in the right state, but may lose its content.                 *)
(***************************************************************************)
EXTENDS Graph, WellFoundedInduction, TLAPS

\* The types whose Process does nothing yet.
Unfinished == {"Dispatch", "Present"}

\* What the functions that add nodes make sure of.
WellFormed(node) ==
    /\ node \in CommandNode
    /\ node.type = "Write" => node.inputs = <<>> /\ \E t \in Textures : node.outputs = <<t>>
    /\ node.type = "Read" => node.outputs = <<>> /\ \E t \in Textures : node.inputs = <<t>>
    /\ node.type = "Present" => node.outputs = <<>>
    /\ Range(node.inputs) \cap Range(node.outputs) = {}

\* A texture has no use after one that is not finished.
NodesInv ==
    /\ \A n \in DOMAIN nodes : WellFormed(nodes[n])
    /\ \A m, n \in DOMAIN nodes :
          m < n /\ nodes[m].type \in Unfinished => Uses(m) \cap Uses(n) = {}

\* What each phase has done, and what only a later one does.
PhaseInv ==
    /\ phase = "adding" => processed = {}
    /\ phase # "adding" => stateChanges = [t \in Textures |-> StateChangesOf(t)]
    /\ phase \in {"adding", "recording"} => numExecuted = 0
    /\ phase \in {"executing", "completing"} => processed = DOMAIN nodes
    /\ phase = "completing" => numExecuted = Len(nodes)
    /\ phase # "completing" => called = {}

\* A finished node is recorded when its turn comes, but for a read node that
\* nobody holds any more. Its barriers are those of the state changes.
RecordInv ==
    /\ \A n \in recorded : nodes[n].type \notin Unfinished
    /\ \A n \in processed : nodes[n].type \in {"Write", "Render"} => n \in recorded
    /\ \A n \in Nodes : n \in recorded => barriers[n] = BarriersOf(n)
    /\ \A n \in Nodes : n \notin recorded => barriers[n] = <<>>
    /\ \A n \in Reads : n \in processed => n \in recorded \/ holders[n] = {}

\* The state in which node n leaves a texture it uses.
Ensured(t, n) ==
    IF t \in Range(nodes[n].inputs) THEN InputState(nodes[n].type) ELSE OutputEnsured(nodes[n].type, t)

\* Node n is the last of the first k that uses t; that writes t.
LastUse(t, n, k) ==
    /\ n \in DOMAIN nodes /\ n <= k /\ t \in Uses(n)
    /\ \A m \in DOMAIN nodes : m <= k /\ t \in Uses(m) => m <= n

LastWrite(t, n, k) ==
    /\ n \in DOMAIN nodes /\ n <= k /\ t \in Range(nodes[n].outputs)
    /\ \A m \in DOMAIN nodes : m <= k /\ t \in Range(nodes[m].outputs) => m <= n

\* An unfinished node among the first k uses t.
LeftBy(t, k) == \E n \in DOMAIN nodes : n <= k /\ t \in Uses(n) /\ nodes[n].type \in Unfinished

\* After k nodes t is in the state that its last use ensures, or misses that of
\* a read.
LayoutAt(t, k) ==
    \/ LeftBy(t, k)
    \/ \E n \in Nodes :
          /\ LastUse(t, n, k)
          /\ layout[t] = Layout(Ensured(t, n)) \/ (nodes[n].type = "Read" /\ Missed(t, k))
    \/ layout[t] = Undefined /\ \A n \in DOMAIN nodes : n <= k => t \notin Uses(n)

\* After k nodes t has what its last writer wrote, or nothing if a render pass
\* or a node since has lost it.
ContentAt(t, k) ==
    \/ LeftBy(t, k)
    \/ \E n \in Nodes :
          /\ LastWrite(t, n, k)
          /\ content[t] = n \/ (content[t] = Nothing /\ (nodes[n].type = "Render" \/ Upset(t, n + 1, k)))
    \/ content[t] = Nothing /\ \A n \in DOMAIN nodes : n <= k => t \notin Range(nodes[n].outputs)

DeviceInv == \A t \in Textures : LayoutAt(t, numExecuted) /\ ContentAt(t, numExecuted)

\* A result that is right for read node n.
Right(n, value) ==
    \/ value = LastWriter(n)
    \/ /\ value = Nothing
       /\ nodes[LastWriter(n)].type = "Render" \/ Upset(nodes[n].inputs[1], LastWriter(n) + 1, n - 1)

StagingInv == \A n \in Reads : n \in recorded /\ n <= numExecuted => Right(n, staging[n])

\* A result is kept or delivered by the one call of the receiver, and delivered
\* once.
ListenInv ==
    /\ called \subseteq Reads
    /\ \A n \in Nodes : completion[n] = "ResultValue" \/ delivered[n] # <<>> => n \in called \cap recorded
    /\ \A n \in Nodes : delivered[n] = <<>> \/ delivered[n] = <<staging[n]>>

Inv == TypeOK /\ NodesInv /\ PhaseInv /\ RecordInv /\ DeviceInv /\ StagingInv /\ ListenInv

------------------------------------------------------------------------------
(* Definitions *)

\* The greatest of some node numbers.
LEMMA Greatest ==
    ASSUME NEW k \in Nat, NEW S, S \subseteq 1..k, S # {}
    PROVE  \E m \in S : \A n \in S : n <= m
<1>0. ASSUME NEW n \in S PROVE n \in Nat /\ n <= k
  <2>1. n \in 1..k
    OBVIOUS
  <2> QED  BY <2>1
<1> DEFINE R == OpToRel(<, Nat)
           T == {k - n : n \in S}
<1>1. IsWellFoundedOn(R, Nat)
  BY NatLessThanWellFounded
<1>2. T \subseteq Nat /\ T # {}
  <2>1. \A n \in S : k - n \in Nat
    BY <1>0
  <2>2. PICK n \in S : TRUE
    OBVIOUS
  <2>3. k - n \in T
    OBVIOUS
  <2> QED  BY <2>1, <2>3
<1>3. PICK x \in T : \A y \in T : <<y, x>> \notin R
  <2> HIDE DEF R, T
  <2> QED  BY <1>1, <1>2, WFMin
<1>4. \A y \in T : ~(y < x)
  BY <1>2, <1>3 DEF OpToRel
<1>5. PICK m \in S : x = k - m
  BY <1>3
<1>6. \A n \in S : ~(k - n < k - m)
  BY <1>4, <1>5
<1> QED  BY <1>0, <1>6

\* What is worked out from the nodes stays the same with them.
LEMMA Static ==
    ASSUME nodes' = nodes
    PROVE  /\ Reads' = Reads
           /\ \A n \in Nodes : Uses(n)' = Uses(n)
           /\ \A t \in Textures : StateChangesOf(t)' = StateChangesOf(t)
           /\ stateChanges' = stateChanges => \A n \in Nodes : BarriersOf(n)' = BarriersOf(n)
<1>1. \A n \in Nodes : Uses(n)' = Uses(n)
  BY DEF Uses
<1>2. Reads' = Reads
  BY DEF Reads
<1>3. ASSUME NEW t \in Textures PROVE StateChangesOf(t)' = StateChangesOf(t)
  BY DEF StateChangesOf
<1>4. ASSUME stateChanges' = stateChanges, NEW n \in Nodes PROVE BarriersOf(n)' = BarriersOf(n)
  BY <1>4 DEF BarriersOf, Transitioned, Transition, GetStateTransition, LowerBound, PreviousState
<1> QED  BY <1>1, <1>2, <1>3, <1>4

\* What the tables of BuildGraph hold.
LEMMA Tables ==
    /\ InputState("Read") = "TransferSrc" /\ InputState("Render") = "SampledByFragment"
    /\ InputState("Dispatch") = "SampledByCompute" /\ InputState("Present") = "PresentSrc"
    /\ OutputExpected("Write") = "TransferDst" /\ OutputExpected("Render") = Undefined
    /\ OutputExpected("Dispatch") = "Storage"
    /\ \A t \in Textures :
          /\ OutputEnsured("Write", t) = "TransferDst"
          /\ OutputEnsured("Render", t) \in {"DepthTarget", "ColorTarget"}
          /\ OutputEnsured("Dispatch", t) = "Storage"
BY DEF InputState, OutputExpected, OutputEnsured

\* A node's fields.
LEMMA Fields ==
    ASSUME NEW node \in CommandNode
    PROVE  /\ node.type \in CommandTypes
           /\ node.inputs \in Seq(Textures) /\ node.outputs \in Seq(Textures)
           /\ Range(node.inputs) \subseteq Textures /\ Range(node.outputs) \subseteq Textures
<1>1. node.type \in CommandTypes /\ node.inputs \in Seq(Textures) /\ node.outputs \in Seq(Textures)
  BY DEF CommandNode
<1>2. ASSUME NEW s \in Seq(Textures) PROVE Range(s) \subseteq Textures
  BY DEF Range
<1> QED  BY <1>1, <1>2

\* The numbers of the nodes.
LEMMA Numbers ==
    ASSUME TypeOK
    PROVE  /\ Len(nodes) \in Nat /\ MaxNodes \in Nat
           /\ DOMAIN nodes = 1..Len(nodes) /\ DOMAIN nodes \subseteq Nodes
           /\ \A n \in DOMAIN nodes : n \in Nat /\ nodes[n] \in CommandNode
<1>1. nodes \in Seq(CommandNode) /\ Len(nodes) <= MaxNodes /\ MaxNodes \in Nat
  BY GraphAssumption DEF TypeOK, GraphAssumption
<1> QED  BY <1>1 DEF Nodes

\* The state in which node n needs a texture it uses.
Expected(t, n) ==
    IF t \in Range(nodes[n].inputs) THEN InputState(nodes[n].type) ELSE OutputExpected(nodes[n].type)

\* The states of a node are those of its type.
LEMMA NodeStates ==
    ASSUME TypeOK, NodesInv, NEW n \in DOMAIN nodes, NEW t \in Uses(n)
    PROVE  /\ t \in Textures
           /\ Expected(t, n) \in States /\ Ensured(t, n) \in States
           /\ t \in Range(nodes[n].inputs) => nodes[n].type # "Write"
           /\ t \in Range(nodes[n].outputs) =>
                 t \notin Range(nodes[n].inputs) /\ nodes[n].type \in {"Write", "Render", "Dispatch"}
<1>1. PICK d : d = nodes[n]
  OBVIOUS
<1>2. WellFormed(d) /\ d \in CommandNode
  BY <1>1 DEF NodesInv, WellFormed
<1>3. t \in Textures /\ d.type \in CommandTypes
  BY <1>1, <1>2, Fields DEF Uses
<1>4. \A s : s = <<>> => t \notin Range(s)
  BY DEF Range
<1>5. t \in Range(d.inputs) => d.type # "Write"
  BY <1>2, <1>4 DEF WellFormed
<1>6. t \in Range(d.outputs) => t \notin Range(d.inputs) /\ d.type \in {"Write", "Render", "Dispatch"}
  BY <1>2, <1>3, <1>4 DEF WellFormed, CommandTypes
<1>7. CASE t \in Range(d.inputs)
  <2>1. Expected(t, n) = InputState(d.type) /\ Ensured(t, n) = InputState(d.type)
    BY <1>1, <1>7 DEF Expected, Ensured
  <2>2. d.type \in {"Read", "Render", "Dispatch", "Present"}
    BY <1>3, <1>5, <1>7 DEF CommandTypes
  <2> QED  BY <1>1, <1>3, <1>5, <1>6, <2>1, <2>2, Tables DEF States
<1>8. CASE t \notin Range(d.inputs)
  <2>1. Expected(t, n) = OutputExpected(d.type) /\ Ensured(t, n) = OutputEnsured(d.type, t)
    BY <1>1, <1>8 DEF Expected, Ensured
  <2>2. d.type \in {"Write", "Render", "Dispatch"}
    BY <1>1, <1>6, <1>8 DEF Uses
  <2> QED  BY <1>1, <1>3, <1>5, <1>6, <2>1, <2>2, Tables DEF States
<1> QED  BY <1>7, <1>8

\* A texture has a state change for each node that uses it, and no other.
LEMMA Changes ==
    ASSUME TypeOK, NodesInv, NEW t \in Textures
    PROVE  /\ \A c \in StateChangesOf(t) :
                 /\ c.node \in DOMAIN nodes /\ t \in Uses(c.node)
                 /\ c.expected = Expected(t, c.node) /\ c.ensured = Ensured(t, c.node)
           /\ \A n \in DOMAIN nodes : t \in Uses(n) => \E c \in StateChangesOf(t) : c.node = n
           /\ StateChangesOf(t) \subseteq StateChange
<1>1. ASSUME NEW c \in StateChangesOf(t)
      PROVE  /\ c.node \in DOMAIN nodes /\ t \in Uses(c.node)
             /\ c.expected = Expected(t, c.node) /\ c.ensured = Ensured(t, c.node)
             /\ c \in StateChange
  <2>1. CASE \E n \in DOMAIN nodes : t \in Range(nodes[n].inputs) /\
               c = [node |-> n, expected |-> InputState(nodes[n].type), ensured |-> InputState(nodes[n].type)]
    <3>1. PICK n \in DOMAIN nodes : t \in Range(nodes[n].inputs) /\
               c = [node |-> n, expected |-> InputState(nodes[n].type), ensured |-> InputState(nodes[n].type)]
      BY <2>1
    <3>2. t \in Uses(n) /\ Expected(t, n) = InputState(nodes[n].type) /\ Ensured(t, n) = InputState(nodes[n].type)
      BY <3>1 DEF Uses, Expected, Ensured
    <3>3. Expected(t, n) \in States /\ Ensured(t, n) \in States /\ n \in Nodes
      BY <3>2, NodeStates, Numbers
    <3> QED  BY <3>1, <3>2, <3>3 DEF StateChange
  <2>2. CASE \E n \in DOMAIN nodes : t \in Range(nodes[n].outputs) /\
               c = [node |-> n, expected |-> OutputExpected(nodes[n].type), ensured |-> OutputEnsured(nodes[n].type, t)]
    <3>1. PICK n \in DOMAIN nodes : t \in Range(nodes[n].outputs) /\
               c = [node |-> n, expected |-> OutputExpected(nodes[n].type), ensured |-> OutputEnsured(nodes[n].type, t)]
      BY <2>2
    <3>2. t \in Uses(n)
      BY <3>1 DEF Uses
    <3>3. t \notin Range(nodes[n].inputs)
      BY <3>1, <3>2, NodeStates
    <3>4. Expected(t, n) = OutputExpected(nodes[n].type) /\ Ensured(t, n) = OutputEnsured(nodes[n].type, t)
      BY <3>3 DEF Expected, Ensured
    <3>5. Expected(t, n) \in States /\ Ensured(t, n) \in States /\ n \in Nodes
      BY <3>2, NodeStates, Numbers
    <3> QED  BY <3>1, <3>2, <3>4, <3>5 DEF StateChange
  <2> QED  BY <1>1, <2>1, <2>2 DEF StateChangesOf
<1>2. ASSUME NEW n \in DOMAIN nodes, t \in Uses(n)
      PROVE  \E c \in StateChangesOf(t) : c.node = n
  <2>1. CASE t \in Range(nodes[n].inputs)
    <3> DEFINE c == [node |-> n, expected |-> InputState(nodes[n].type), ensured |-> InputState(nodes[n].type)]
    <3>1. c \in StateChangesOf(t)
      BY <2>1 DEF StateChangesOf
    <3> QED  BY <3>1
  <2>2. CASE t \in Range(nodes[n].outputs)
    <3> DEFINE c == [node |-> n, expected |-> OutputExpected(nodes[n].type), ensured |-> OutputEnsured(nodes[n].type, t)]
    <3>1. c \in StateChangesOf(t)
      BY <2>2 DEF StateChangesOf
    <3> QED  BY <3>1
  <2> QED  BY <1>2, <2>1, <2>2 DEF Uses
<1> QED  BY <1>1, <1>2

\* The transition of a texture that node n uses: to the state n needs, from
\* the one the last use before n ensures.
LEMMA Transitions ==
    ASSUME TypeOK, NodesInv, stateChanges = [t \in Textures |-> StateChangesOf(t)],
           NEW n \in DOMAIN nodes, NEW t \in Uses(n)
    PROVE  /\ GetStateTransition(t, n) \in Barrier
           /\ GetStateTransition(t, n).texture = t
           /\ GetStateTransition(t, n).to = Expected(t, n)
           /\ (\A m \in DOMAIN nodes : m < n => t \notin Uses(m)) => GetStateTransition(t, n).from = Undefined
           /\ \A m \in DOMAIN nodes : LastUse(t, m, n - 1) => GetStateTransition(t, n).from = Ensured(t, m)
<1>1. t \in Textures /\ Expected(t, n) \in States
  BY NodeStates
<1>2. PICK S : S = StateChangesOf(t)
  OBVIOUS
<1>3. stateChanges[t] = S
  BY <1>1, <1>2
<1>4. /\ \A c \in S : c.node \in DOMAIN nodes /\ t \in Uses(c.node)
      /\ \A c \in S : c.expected = Expected(t, c.node) /\ c.ensured = Ensured(t, c.node)
      /\ \A m \in DOMAIN nodes : t \in Uses(m) => \E c \in S : c.node = m
  BY <1>1, <1>2, Changes
<1>5. \A m \in DOMAIN nodes : m \in Nat
  BY Numbers
<1> DEFINE from == {c \in S : c.node >= n}
           change == CHOOSE c \in from : \A d \in from : c.node <= d.node
<1>6. change \in from /\ change.node = n
  <2>1. PICK c \in S : c.node = n
    BY <1>4
  <2>2. c \in from /\ \A d \in from : c.node <= d.node
    BY <1>4, <1>5, <2>1
  <2>3. change \in from /\ \A d \in from : change.node <= d.node
    BY <2>2
  <2>4. change.node >= n /\ change.node <= n /\ change.node \in Nat /\ n \in Nat
    BY <1>4, <1>5, <2>1, <2>2, <2>3
  <2> QED  BY <2>3, <2>4
<1>7. change.expected = Expected(t, n)
  BY <1>4, <1>6
<1> DEFINE before == {c \in S : c.node < n}
           previous == LastChange(before)
           state == IF before = {} THEN Undefined ELSE previous.ensured
<1>8. GetStateTransition(t, n) = [texture |-> t, from |-> state, to |-> Expected(t, n)]
  <2>1. LowerBound(t, n) = from
    BY <1>3 DEF LowerBound
  <2>2. PICK c : c = change
    OBVIOUS
  <2>3. PreviousState(t, c) = state
    <3>1. c.node = n
      BY <1>6, <2>2
    <3>2. {d \in stateChanges[t] : d.node < c.node} = before
      BY <1>3, <3>1
    <3>3. PICK B : B = before
      OBVIOUS
    <3>4. {d \in stateChanges[t] : d.node < c.node} = B
      BY <3>2, <3>3
    <3>5. PreviousState(t, c) = IF B = {} THEN Undefined ELSE LastChange(B).ensured
      BY <3>4 DEF PreviousState
    <3> QED  BY <3>3, <3>5
  <2>4. GetStateTransition(t, n) = [texture |-> t, from |-> PreviousState(t, c), to |-> c.expected]
    BY <1>6, <2>1, <2>2 DEF GetStateTransition
  <2> QED  BY <1>7, <2>2, <2>3, <2>4
<1>9. (\A m \in DOMAIN nodes : m < n => t \notin Uses(m)) => state = Undefined
  BY <1>4
<1>10. ASSUME before # {}
       PROVE  /\ previous \in before /\ \A d \in before : d.node <= previous.node
              /\ previous.ensured = Ensured(t, previous.node)
  <2> DEFINE N == {c.node : c \in before}
  <2>1. n \in Nat /\ N \subseteq 1..n /\ N # {}
    <3>1. DOMAIN nodes = 1..Len(nodes) /\ Len(nodes) \in Nat /\ n \in 1..Len(nodes)
      BY Numbers
    <3>2. \A c \in before : c.node \in 1..Len(nodes) /\ c.node < n
      BY <1>4, <3>1
    <3>3. \A c \in before : c.node \in 1..n
      BY <3>1, <3>2
    <3>4. PICK c \in before : TRUE
      BY <1>10
    <3>5. c.node \in N
      OBVIOUS
    <3>6. N \subseteq 1..n
      BY <3>3
    <3>7. n \in Nat
      BY <3>1
    <3> QED  BY <3>5, <3>6, <3>7
  <2>2. PICK m \in N : \A k \in N : k <= m
    <3> HIDE DEF N
    <3> QED  BY <2>1, Greatest
  <2>3. PICK c \in before : c.node = m
    BY <2>2
  <2>4. \A d \in before : d.node <= c.node
    BY <2>2, <2>3
  <2>5. previous \in before /\ \A d \in before : d.node <= previous.node
    BY <2>3, <2>4 DEF LastChange
  <2> QED  BY <1>4, <2>5
<1>11. state \in States
  <2>1. CASE before = {}
    BY <2>1 DEF States
  <2>2. CASE before # {}
    <3>1. previous.node \in DOMAIN nodes /\ t \in Uses(previous.node)
      BY <1>4, <1>10, <2>2
    <3> QED  BY <1>10, <2>2, <3>1, NodeStates
  <2> QED  BY <2>1, <2>2
<1>12. ASSUME NEW m \in DOMAIN nodes, LastUse(t, m, n - 1) PROVE state = Ensured(t, m)
  <2>1. m <= n - 1 /\ t \in Uses(m) /\ m \in Nat /\ n \in Nat
    BY <1>5, <1>12 DEF LastUse
  <2>2. PICK c \in S : c.node = m
    BY <1>4, <2>1
  <2>3. c \in before
    BY <2>1, <2>2
  <2>4. previous \in before /\ m <= previous.node
    BY <1>10, <2>2, <2>3
  <2>5. previous.node <= m /\ previous.node \in Nat
    BY <1>4, <1>5, <1>12, <2>1, <2>4 DEF LastUse
  <2>6. previous.node = m
    BY <2>1, <2>4, <2>5
  <2> QED  BY <1>10, <2>3, <2>6
<1> HIDE DEF state
<1>13. [texture |-> t, from |-> state, to |-> Expected(t, n)] \in Barrier
  BY <1>1, <1>11 DEF Barrier
<1> QED  BY <1>8, <1>9, <1>12, <1>13

------------------------------------------------------------------------------
(* The device *)

\* What a node's barriers are about: it transitions a texture once, unless it
\* has it twice.
LEMMA Transitioning ==
    ASSUME TypeOK, NodesInv, NEW n \in DOMAIN nodes, nodes[n].type \notin Unfinished
    PROVE  /\ Transitioned(n) \in Seq(Textures) /\ Range(Transitioned(n)) \subseteq Uses(n)
           /\ \A t : ~BoundTwice(t, n) =>
                 \A i, j \in DOMAIN Transitioned(n) : Transitioned(n)[i] = t /\ Transitioned(n)[j] = t => i = j
           /\ nodes[n].type = "Write" => Range(Transitioned(n)) = Range(nodes[n].outputs)
           /\ Range(nodes[n].inputs) \subseteq Range(Transitioned(n))
<1>1. PICK d : d = nodes[n]
  OBVIOUS
<1>2. WellFormed(d) /\ d \in CommandNode /\ d.type \in {"Write", "Read", "Render"}
  BY <1>1, Fields DEF NodesInv, WellFormed, Unfinished, CommandTypes
<1>3. Range(<<>>) = {}
  BY DEF Range
<1>4. CASE d.type = "Write"
  <2>1. Transitioned(n) = d.outputs
    BY <1>1, <1>4 DEF Transitioned
  <2>2. PICK u \in Textures : d.outputs = <<u>>
    BY <1>2, <1>4 DEF WellFormed
  <2>3. Range(d.inputs) = {}
    BY <1>2, <1>3, <1>4 DEF WellFormed
  <2> QED  BY <1>1, <2>1, <2>2, <2>3 DEF Uses
<1>5. CASE d.type # "Write"
  <2>1. Transitioned(n) = d.inputs /\ d.inputs \in Seq(Textures)
    BY <1>1, <1>2, <1>5, Fields DEF Transitioned
  <2> QED  BY <1>1, <1>5, <2>1 DEF Uses, BoundTwice
<1> QED  BY <1>4, <1>5

\* The barriers of a node on a texture are its transition, if that is one.
LEMMA Barriers ==
    ASSUME TypeOK, NodesInv, stateChanges = [u \in Textures |-> StateChangesOf(u)],
           NEW n \in DOMAIN nodes, nodes[n].type \notin Unfinished, barriers[n] = BarriersOf(n),
           NEW t \in Textures
    PROVE  /\ t \notin Range(Transitioned(n)) => BarriersOn(n, t) = {}
           /\ t \in Range(Transitioned(n)) /\ BarriersOn(n, t) = {} =>
                 GetStateTransition(t, n).to = GetStateTransition(t, n).from
           /\ \A i \in BarriersOn(n, t) : barriers[n][i] = GetStateTransition(t, n)
           /\ \E k \in Nat : BarriersOn(n, t) \subseteq 1..k
           /\ ~BoundTwice(t, n) => \A i, j \in BarriersOn(n, t) : i = j
<1>1. PICK T : T = Transitioned(n)
  OBVIOUS
<1>2. PICK B : B = barriers[n]
  OBVIOUS
<1>3. /\ DOMAIN B = {i \in DOMAIN T : GetStateTransition(T[i], n).to # GetStateTransition(T[i], n).from}
      /\ \A i \in DOMAIN B : B[i] = GetStateTransition(T[i], n)
  BY <1>1, <1>2 DEF BarriersOf, Transition
<1>4. /\ T \in Seq(Textures) /\ \A i \in DOMAIN T : T[i] \in Range(T) /\ T[i] \in Uses(n)
      /\ ~BoundTwice(t, n) => \A i, j \in DOMAIN T : T[i] = t /\ T[j] = t => i = j
  BY <1>1, Transitioning DEF Range
<1>5. \A i \in DOMAIN T : GetStateTransition(T[i], n).texture = T[i]
  BY <1>4, Transitions
<1>6. BarriersOn(n, t) = {i \in DOMAIN B : T[i] = t}
  BY <1>2, <1>3, <1>5 DEF BarriersOn
<1>7. t \notin Range(T) => BarriersOn(n, t) = {}
  BY <1>3, <1>4, <1>6
<1>8. ASSUME t \in Range(T), BarriersOn(n, t) = {}
      PROVE  GetStateTransition(t, n).to = GetStateTransition(t, n).from
  <2>1. PICK i \in DOMAIN T : T[i] = t
    BY <1>8 DEF Range
  <2> QED  BY <1>3, <1>6, <1>8, <2>1
<1>9. \A i \in BarriersOn(n, t) : B[i] = GetStateTransition(t, n)
  BY <1>3, <1>6
<1>10. BarriersOn(n, t) \subseteq 1..Len(T) /\ Len(T) \in Nat
  <2>1. DOMAIN T = 1..Len(T) /\ Len(T) \in Nat
    BY <1>4
  <2> QED  BY <1>3, <1>6, <2>1
<1>11. ~BoundTwice(t, n) => \A i, j \in BarriersOn(n, t) : i = j
  BY <1>3, <1>4, <1>6
<1> QED  BY <1>1, <1>2, <1>7, <1>8, <1>9, <1>10, <1>11

\* No barrier on a texture leaves it as it is.
LEMMA NoBarrier ==
    ASSUME NEW n, NEW t, BarriersOn(n, t) = {}
    PROVE  /\ MatchingBarriers(n, t) /\ LayoutAfterBarriers(n, t) = layout[t]
           /\ ContentAfterBarriers(n, t) = content[t]
BY DEF MatchingBarriers, LayoutAfterBarriers, LayoutAfter, ContentAfterBarriers

\* What equal barriers do, and what one does.
LEMMA EqualBarriers ==
    ASSUME NEW n, NEW t, NEW k \in Nat, BarriersOn(n, t) \subseteq 1..k, BarriersOn(n, t) # {},
           NEW b, \A i \in BarriersOn(n, t) : barriers[n][i] = b
    PROVE  /\ LayoutAfterBarriers(n, t) = Layout(b.to)
           /\ b.from = Undefined => ContentAfterBarriers(n, t) = Nothing
           /\ (\A i, j \in BarriersOn(n, t) : i = j) =>
                 /\ MatchingBarriers(n, t) <=> Layout(b.from) \in {Undefined, layout[t]}
                 /\ MatchingBarriers(n, t) /\ b.from # Undefined => ContentAfterBarriers(n, t) = content[t]
<1>1. PICK S : S = BarriersOn(n, t)
  OBVIOUS
<1>2. PICK m \in S : \A i \in S : i <= m
  BY <1>1, Greatest
<1>3. \A i \in S : i \in Nat
  BY <1>1
<1>4. Max(S) \in S
  <2>1. \A i \in S : m >= i
    BY <1>2, <1>3
  <2> QED  BY <2>1 DEF Max
<1>5. LayoutAfterBarriers(n, t) = Layout(b.to)
  BY <1>1, <1>4 DEF LayoutAfterBarriers, LayoutAfter
<1>6. ASSUME \A i, j \in S : i = j
      PROVE  MatchingBarriers(n, t) <=> Layout(b.from) \in {Undefined, layout[t]}
  <2>1. \A i \in S : {j \in S : j < i} = {}
    BY <1>3, <1>6
  <2>2. \A i \in S : LayoutAfter(n, t, {j \in S : j < i}) = layout[t]
    BY <2>1 DEF LayoutAfter
  <2>3. MatchingBarriers(n, t) <=> \A i \in S : Layout(b.from) \in {Undefined, layout[t]}
    BY <1>1, <2>2 DEF MatchingBarriers
  <2> QED  BY <1>2, <2>3
<1>7. b.from = Undefined => ContentAfterBarriers(n, t) = Nothing
  BY <1>1, <1>2 DEF ContentAfterBarriers
<1>8. MatchingBarriers(n, t) /\ b.from # Undefined => ContentAfterBarriers(n, t) = content[t]
  BY DEF ContentAfterBarriers
<1> QED  BY <1>1, <1>5, <1>6, <1>7, <1>8

\* The barriers of a node are on the textures it transitions.
LEMMA Untouched ==
    ASSUME TypeOK, NodesInv, PhaseInv, RecordInv, phase = "executing",
           NEW n \in DOMAIN nodes, NEW t \in Textures,
           n \notin recorded \/ t \notin Range(Transitioned(n))
    PROVE  BarriersOn(n, t) = {}
<1>1. n \in Nodes /\ stateChanges = [u \in Textures |-> StateChangesOf(u)]
  BY Numbers DEF PhaseInv
<1>2. CASE n \notin recorded
  <2>1. barriers[n] = <<>>
    BY <1>1, <1>2 DEF RecordInv
  <2> QED  BY <2>1 DEF BarriersOn
<1>3. CASE n \in recorded /\ t \notin Range(Transitioned(n))
  <2>1. barriers[n] = BarriersOf(n) /\ nodes[n].type \notin Unfinished
    BY <1>1, <1>3 DEF RecordInv
  <2> QED  BY <1>1, <1>3, <2>1, Barriers
<1> QED  BY <1>2, <1>3

\* The next node finds a texture it transitions in the state its barrier names,
\* gets it in the state it needs, and loses nothing: unless the texture misses
\* the state of a read, or the node has it twice.
LEMMA Found ==
    ASSUME TypeOK, NodesInv, PhaseInv, RecordInv, phase = "executing",
           NEW n \in DOMAIN nodes, n \in recorded, NEW t \in Range(Transitioned(n)),
           LayoutAt(t, n - 1), ContentAt(t, n - 1)
    PROVE  /\ ~Missed(t, n - 1) /\ ~BoundTwice(t, n) =>
                 MatchingBarriers(n, t) /\ ContentAfterBarriers(n, t) = content[t]
           /\ ~Missed(t, n - 1) \/ nodes[n].type # "Read" =>
                 LayoutAfterBarriers(n, t) = Layout(Expected(t, n))
<1>1. n \in Nodes /\ stateChanges = [u \in Textures |-> StateChangesOf(u)]
  BY Numbers DEF PhaseInv
<1>2. barriers[n] = BarriersOf(n) /\ nodes[n].type \notin Unfinished
  BY <1>1 DEF RecordInv
<1>3. t \in Uses(n)
  BY <1>2, Transitioning
<1>4. t \in Textures /\ Expected(t, n) \in States
  BY <1>3, NodeStates
<1>5. \A m \in DOMAIN nodes : m \in Nat
  BY Numbers
<1>6. ~LeftBy(t, n - 1)
  <2> SUFFICES ASSUME NEW m \in DOMAIN nodes, m <= n - 1, t \in Uses(m), nodes[m].type \in Unfinished
               PROVE  FALSE
    BY DEF LeftBy
  <2>1. m < n
    BY <1>5
  <2> QED  BY <1>3, <2>1 DEF NodesInv
<1>7. PICK g : g = GetStateTransition(t, n)
  OBVIOUS
<1>8. /\ g.to = Expected(t, n)
      /\ (\A m \in DOMAIN nodes : m < n => t \notin Uses(m)) => g.from = Undefined
      /\ \A m \in DOMAIN nodes : LastUse(t, m, n - 1) => g.from = Ensured(t, m)
  BY <1>1, <1>3, <1>7, Transitions
<1>9. Layout(Undefined) = Undefined
  BY DEF Layout, Undefined
<1>10. Layout(g.from) = layout[t] \/ (Missed(t, n - 1) /\ g.from = "TransferSrc")
  <2>1. CASE \E m \in Nodes : LastUse(t, m, n - 1) /\
               (layout[t] = Layout(Ensured(t, m)) \/ (nodes[m].type = "Read" /\ Missed(t, n - 1)))
    <3>1. PICK m \in Nodes : LastUse(t, m, n - 1) /\
               (layout[t] = Layout(Ensured(t, m)) \/ (nodes[m].type = "Read" /\ Missed(t, n - 1)))
      BY <2>1
    <3>2. m \in DOMAIN nodes /\ t \in Uses(m) /\ g.from = Ensured(t, m)
      BY <1>8, <3>1 DEF LastUse
    <3>3. nodes[m].type = "Read" => g.from = "TransferSrc"
      <4>1. nodes[m].type = "Read" => t \in Range(nodes[m].inputs)
        BY <3>2, NodeStates DEF Uses
      <4> QED  BY <3>2, <4>1, Tables DEF Ensured
    <3> QED  BY <3>1, <3>2, <3>3
  <2>2. CASE layout[t] = Undefined /\ \A m \in DOMAIN nodes : m <= n - 1 => t \notin Uses(m)
    <3>1. \A m \in DOMAIN nodes : m < n => t \notin Uses(m)
      BY <1>5, <2>2
    <3> QED  BY <1>8, <1>9, <2>2, <3>1
  <2> QED  BY <1>6, <2>1, <2>2 DEF LayoutAt
<1>11. ASSUME g.from = Undefined PROVE content[t] = Nothing
  <2>1. \A m \in DOMAIN nodes : ~LastUse(t, m, n - 1) \/ Ensured(t, m) = Undefined
    BY <1>8, <1>11
  <2>2. ASSUME NEW m \in DOMAIN nodes, LastUse(t, m, n - 1) PROVE FALSE
    <3>1. t \in Uses(m) /\ Ensured(t, m) = Undefined
      BY <2>1, <2>2 DEF LastUse
    <3>2. nodes[m].type \in CommandTypes
      BY Numbers, Fields
    <3>3. CASE t \in Range(nodes[m].inputs)
      <4>1. nodes[m].type # "Write" /\ Ensured(t, m) = InputState(nodes[m].type)
        BY <3>1, <3>3, NodeStates DEF Ensured
      <4> QED  BY <3>1, <3>2, <4>1, Tables DEF CommandTypes, Undefined
    <3>4. CASE t \notin Range(nodes[m].inputs)
      <4>1. t \in Range(nodes[m].outputs)
        BY <3>1, <3>4 DEF Uses
      <4>2. nodes[m].type \in {"Write", "Render", "Dispatch"} /\ Ensured(t, m) = OutputEnsured(nodes[m].type, t)
        BY <3>1, <3>4, <4>1, NodeStates DEF Ensured
      <4> QED  BY <1>4, <3>1, <4>2, Tables DEF Undefined
    <3> QED  BY <3>3, <3>4
  <2>3. \A m \in DOMAIN nodes : m <= n - 1 => t \notin Uses(m)
    <3>1. \A m \in Nodes : LastUse(t, m, n - 1) => m \in DOMAIN nodes
      BY DEF LastUse
    <3> QED  BY <1>6, <2>2, <3>1 DEF LayoutAt
  <2>4. \A m \in DOMAIN nodes : m <= n - 1 => t \notin Range(nodes[m].outputs)
    BY <2>3 DEF Uses
  <2> QED  BY <1>6, <2>4 DEF ContentAt, LastWrite
<1>12. nodes[n].type # "Read" => Expected(t, n) # "TransferSrc"
  <2>1. nodes[n].type \in {"Write", "Read", "Render"}
    BY <1>2, Numbers, Fields DEF Unfinished, CommandTypes
  <2>2. t \in Range(nodes[n].inputs) => nodes[n].type # "Write"
    BY <1>3, NodeStates
  <2> QED  BY <2>1, <2>2, Tables DEF Expected, Undefined
<1>13. CASE BarriersOn(n, t) = {}
  <2>1. g.to = g.from
    BY <1>1, <1>2, <1>4, <1>7, <1>13, Barriers
  <2>2. ASSUME ~Missed(t, n - 1) \/ nodes[n].type # "Read" PROVE layout[t] = Layout(Expected(t, n))
    BY <1>8, <1>10, <1>12, <2>1, <2>2
  <2> QED  BY <1>13, <2>2, NoBarrier
<1>14. CASE BarriersOn(n, t) # {}
  <2>1. PICK k \in Nat : BarriersOn(n, t) \subseteq 1..k
    BY <1>1, <1>2, <1>4, Barriers
  <2>2. /\ \A i \in BarriersOn(n, t) : barriers[n][i] = g
        /\ ~BoundTwice(t, n) => \A i, j \in BarriersOn(n, t) : i = j
    BY <1>1, <1>2, <1>4, <1>7, Barriers
  <2>3. /\ LayoutAfterBarriers(n, t) = Layout(g.to)
        /\ g.from = Undefined => ContentAfterBarriers(n, t) = Nothing
        /\ ~BoundTwice(t, n) => (MatchingBarriers(n, t) <=> Layout(g.from) \in {Undefined, layout[t]})
        /\ ~BoundTwice(t, n) /\ MatchingBarriers(n, t) /\ g.from # Undefined => ContentAfterBarriers(n, t) = content[t]
    <3> HIDE <1>7
    <3> QED  BY <1>14, <2>1, <2>2, EqualBarriers
  <2> QED  BY <1>8, <1>10, <1>11, <2>3
<1> QED  BY <1>13, <1>14

\* Every command is executed with its images in the right layouts.
LEMMA LayoutsAreRight == ASSUME Inv PROVE LayoutsMatch
<1> SUFFICES ASSUME phase = "executing", numExecuted < Len(nodes), numExecuted + 1 \in recorded,
                    NEW t \in Textures, ~Missed(t, numExecuted)
             PROVE  LET n == numExecuted + 1 IN
                    /\ MatchingBarriers(n, t) \/ BoundTwice(t, n)
                    /\ t \in Range(nodes[n].inputs) => LayoutAfterBarriers(n, t) = Layout(InputState(nodes[n].type))
                    /\ nodes[n].type = "Write" /\ t \in Range(nodes[n].outputs) =>
                          LayoutAfterBarriers(n, t) = "TransferDst"
  BY DEF LayoutsMatch
<1>1. TypeOK /\ NodesInv /\ PhaseInv /\ RecordInv /\ DeviceInv
  BY DEF Inv
<1>2. PICK n \in DOMAIN nodes : n = numExecuted + 1 /\ n - 1 = numExecuted
  BY <1>1, Numbers DEF TypeOK
<1>3. n \in recorded /\ nodes[n].type \notin Unfinished
  BY <1>1, <1>2 DEF RecordInv
<1>4. LayoutAt(t, n - 1) /\ ContentAt(t, n - 1) /\ ~Missed(t, n - 1)
  BY <1>1, <1>2 DEF DeviceInv
<1>5. CASE t \in Range(Transitioned(n))
  <2>1. /\ ~BoundTwice(t, n) => MatchingBarriers(n, t)
        /\ LayoutAfterBarriers(n, t) = Layout(Expected(t, n))
    BY <1>1, <1>3, <1>4, <1>5, Found
  <2>2. t \in Uses(n)
    BY <1>1, <1>3, <1>5, Transitioning
  <2>3. t \in Range(nodes[n].inputs) => Expected(t, n) = InputState(nodes[n].type)
    BY DEF Expected
  <2>4. nodes[n].type = "Write" /\ t \in Range(nodes[n].outputs) => Expected(t, n) = "TransferDst"
    BY <1>1, <2>2, NodeStates, Tables DEF Expected
  <2> QED  BY <1>2, <2>1, <2>3, <2>4 DEF Layout
<1>6. CASE t \notin Range(Transitioned(n))
  <2>1. MatchingBarriers(n, t)
    BY <1>1, <1>6, Untouched, NoBarrier
  <2>2. t \notin Range(nodes[n].inputs) /\ ~(nodes[n].type = "Write" /\ t \in Range(nodes[n].outputs))
    BY <1>1, <1>3, <1>6, Transitioning
  <2> QED  BY <1>2, <2>1, <2>2
<1> QED  BY <1>5, <1>6

\* Nothing writes a texture while it misses the state of a read.
LEMMA MissedUpsets ==
    ASSUME TypeOK, NodesInv, NEW k \in Nat, k <= Len(nodes), NEW t, Missed(t, k), NEW w, LastWrite(t, w, k)
    PROVE  Upset(t, w + 1, k)
<1>1. PICK m \in 1..k : /\ Skipped(m) /\ t \in Range(nodes[m].inputs)
                        /\ \A j \in m + 1 .. k : t \in Uses(j) => nodes[j].type = "Read"
  BY DEF Missed
<1>2. /\ m \in DOMAIN nodes /\ nodes[m].type = "Read" /\ m \in Nat /\ m <= k
      /\ w \in DOMAIN nodes /\ w <= k /\ t \in Range(nodes[w].outputs) /\ w \in Nat
  BY <1>1, Numbers DEF LastWrite, Skipped
<1>3. nodes[w].type # "Read"
  <2>1. t \in Uses(w)
    BY <1>2 DEF Uses
  <2> QED  BY <1>2, <2>1, NodeStates
<1>4. w < m
  <2>1. w # m
    BY <1>2, <1>3
  <2>2. ~(m < w)
    <3> SUFFICES ASSUME m < w PROVE FALSE
      OBVIOUS
    <3>1. w \in m + 1 .. k /\ t \in Uses(w)
      BY <1>2 DEF Uses
    <3> QED  BY <1>1, <1>3, <3>1
  <2> QED  BY <1>2, <2>1, <2>2
<1>5. m \in w + 1 .. k
  BY <1>2, <1>4
<1> QED  BY <1>1, <1>5 DEF Upset

\* What the execution of node n does to a texture.
LEMMA Executed ==
    ASSUME TypeOK, NodesInv, PhaseInv, RecordInv, ExecuteNode, NEW t \in Textures,
           LayoutAt(t, numExecuted), ContentAt(t, numExecuted),
           NEW n \in DOMAIN nodes, n = numExecuted + 1
    PROVE  \/ nodes[n].type \in Unfinished /\ t \in Uses(n)
           \/ t \notin Uses(n) /\ layout'[t] = layout[t] /\ content'[t] = content[t]
           \/ /\ t \in Range(nodes[n].outputs) /\ nodes[n].type \in {"Write", "Render"}
              /\ layout'[t] = Layout(Ensured(t, n))
              /\ content'[t] = n \/ (content'[t] = Nothing /\ nodes[n].type = "Render")
           \/ /\ t \in Range(nodes[n].inputs) /\ t \notin Range(nodes[n].outputs) /\ Skipped(n)
              /\ layout'[t] = layout[t] /\ content'[t] = content[t]
           \/ /\ t \in Range(nodes[n].inputs) /\ t \notin Range(nodes[n].outputs)
              /\ \/ layout'[t] = Layout(Ensured(t, n))
                 \/ nodes[n].type = "Read" /\ Missed(t, n - 1)
              /\ \/ content'[t] = content[t]
                 \/ content'[t] = Nothing /\ (BoundTwice(t, n) \/ Missed(t, n - 1))
<1>1. /\ phase = "executing" /\ n - 1 = numExecuted /\ n \in Nodes /\ n \in processed
      /\ nodes[n].type \in CommandTypes
  BY Numbers, Fields DEF ExecuteNode, PhaseInv, TypeOK
<1> DEFINE written == IF n \in recorded THEN Range(nodes[n].outputs) ELSE {}
<1>2. layout'[t] = IF t \in written THEN OutputEnsured(nodes[n].type, t) ELSE LayoutAfterBarriers(n, t)
  BY DEF ExecuteNode
<1>3. PICK kept \in Kept(n) :
         content'[t] = IF t \notin written THEN ContentAfterBarriers(n, t) ELSE IF t \in kept THEN n ELSE Nothing
  BY DEF ExecuteNode
<1>4. /\ n \in recorded => nodes[n].type \notin Unfinished
      /\ n \notin recorded => nodes[n].type \in Unfinished \/ Skipped(n)
  BY <1>1 DEF RecordInv, Skipped, Unfinished, CommandTypes
<1>5. CASE n \notin recorded
  <2>1. BarriersOn(n, t) = {} /\ t \notin written
    BY <1>1, <1>5, Untouched
  <2>2. layout'[t] = layout[t] /\ content'[t] = content[t]
    BY <1>2, <1>3, <2>1, NoBarrier
  <2>3. Skipped(n) => t \notin Range(nodes[n].outputs)
    <3>1. t \in Range(nodes[n].outputs) => t \in Uses(n)
      BY DEF Uses
    <3> QED  BY <3>1, NodeStates DEF Skipped
  <2> QED  BY <1>4, <1>5, <2>2, <2>3 DEF Uses
<1>6. CASE n \in recorded /\ t \in Range(nodes[n].outputs)
  <2>1. t \in Uses(n) /\ t \in written
    BY <1>6 DEF Uses
  <2>2. nodes[n].type \in {"Write", "Render"} /\ t \notin Range(nodes[n].inputs)
    BY <1>4, <1>6, <2>1, NodeStates DEF Unfinished
  <2>3. layout'[t] = Ensured(t, n) /\ Layout(Ensured(t, n)) = Ensured(t, n)
    BY <1>2, <2>1, <2>2, Tables DEF Ensured, Layout
  <2>4. content'[t] = n \/ (content'[t] = Nothing /\ nodes[n].type = "Render")
    BY <1>3, <1>6, <2>1, <2>2 DEF Kept
  <2> QED  BY <1>6, <2>2, <2>3, <2>4
<1>7. CASE n \in recorded /\ t \notin Range(nodes[n].outputs) /\ t \in Range(nodes[n].inputs)
  <2>1. t \notin written /\ t \in Range(Transitioned(n))
    BY <1>4, <1>7, Transitioning
  <2>2. layout'[t] = LayoutAfterBarriers(n, t) /\ content'[t] = ContentAfterBarriers(n, t)
    BY <1>2, <1>3, <2>1
  <2>3. Expected(t, n) = Ensured(t, n)
    BY <1>7 DEF Expected, Ensured
  <2>4. /\ ~Missed(t, n - 1) /\ ~BoundTwice(t, n) => ContentAfterBarriers(n, t) = content[t]
        /\ ~Missed(t, n - 1) \/ nodes[n].type # "Read" => LayoutAfterBarriers(n, t) = Layout(Expected(t, n))
    BY <1>1, <1>7, <2>1, Found
  <2>5. ContentAfterBarriers(n, t) \in {content[t], Nothing}
    BY DEF ContentAfterBarriers
  <2> QED  BY <1>7, <2>2, <2>3, <2>4, <2>5
<1>8. CASE n \in recorded /\ t \notin Uses(n)
  <2>1. t \notin written /\ t \notin Range(Transitioned(n))
    BY <1>4, <1>8, Transitioning DEF Uses
  <2> QED  BY <1>1, <1>2, <1>3, <1>8, <2>1, Untouched, NoBarrier
<1> QED  BY <1>5, <1>6, <1>7, <1>8 DEF Uses

\* The execution of a node keeps layouts and contents right.
LEMMA DeviceExecutes ==
    ASSUME TypeOK, NodesInv, PhaseInv, RecordInv, DeviceInv, ExecuteNode
    PROVE  DeviceInv'
<1>1. /\ numExecuted \in Nat /\ numExecuted < Len(nodes) /\ nodes' = nodes /\ numExecuted' = numExecuted + 1
      /\ processed' = processed /\ recorded' = recorded
  BY Numbers DEF ExecuteNode, graphVars, recordVars, TypeOK
<1>2. PICK n \in DOMAIN nodes : n = numExecuted + 1 /\ n - 1 = numExecuted
  BY <1>1, Numbers
<1>3. n \in Nodes /\ n \in Nat /\ \A m \in DOMAIN nodes : m \in Nat
  BY Numbers
<1>4. \A m \in DOMAIN nodes : m <= n => m = n \/ m <= numExecuted
  BY <1>1, <1>2, <1>3
<1>5. \A m \in DOMAIN nodes : m <= numExecuted => m <= n
  BY <1>1, <1>2, <1>3
<1> SUFFICES ASSUME NEW t \in Textures
             PROVE  LayoutAt(t, numExecuted)' /\ ContentAt(t, numExecuted)'
  BY DEF DeviceInv
<1>6. LayoutAt(t, numExecuted) /\ ContentAt(t, numExecuted)
  BY DEF DeviceInv
<1> DEFINE Left == LeftBy(t, n)
           Placed == \/ \E m \in Nodes :
                           /\ LastUse(t, m, n)
                           /\ layout'[t] = Layout(Ensured(t, m)) \/ (nodes[m].type = "Read" /\ Missed(t, n))
                     \/ layout'[t] = Undefined /\ \A m \in DOMAIN nodes : m <= n => t \notin Uses(m)
           Filled == \/ \E m \in Nodes :
                           /\ LastWrite(t, m, n)
                           /\ \/ content'[t] = m
                              \/ content'[t] = Nothing /\ (nodes[m].type = "Render" \/ Upset(t, m + 1, n))
                     \/ /\ content'[t] = Nothing
                        /\ \A m \in DOMAIN nodes : m <= n => t \notin Range(nodes[m].outputs)
<1>7. Left \/ Placed => LayoutAt(t, numExecuted)'
  BY <1>1, <1>2 DEF LayoutAt, LeftBy, LastUse, Uses, Ensured, Missed, Skipped
<1>8. Left \/ Filled => ContentAt(t, numExecuted)'
  BY <1>1, <1>2 DEF ContentAt, LeftBy, LastWrite, Uses, Upset, BoundTwice, Skipped
<1> HIDE DEF Left
<1> SUFFICES Left \/ (Placed /\ Filled)
  BY <1>7, <1>8
<1>9. LeftBy(t, numExecuted) => Left
  BY <1>5 DEF LeftBy, Left
<1>10. n <= n
  BY <1>3
<1>11. CASE nodes[n].type \in Unfinished /\ t \in Uses(n)
  BY <1>10, <1>11 DEF LeftBy, Left
<1>12. ASSUME Missed(t, numExecuted), t \in Uses(n) => nodes[n].type = "Read"
       PROVE  Missed(t, n)
  <2>1. PICK m \in 1..numExecuted :
               /\ Skipped(m) /\ t \in Range(nodes[m].inputs)
               /\ \A j \in m + 1 .. numExecuted : t \in Uses(j) => nodes[j].type = "Read"
    BY <1>12 DEF Missed
  <2>2. m \in 1..n /\ \A j \in m + 1 .. n : j = n \/ j \in m + 1 .. numExecuted
    BY <1>1, <1>2
  <2>3. \A j \in m + 1 .. n : t \in Uses(j) => nodes[j].type = "Read"
    BY <1>12, <2>1, <2>2
  <2> QED  BY <2>1, <2>2, <2>3 DEF Missed
<1>13. ASSUME Skipped(n), t \in Range(nodes[n].inputs) PROVE Missed(t, n)
  <2>1. n \in 1..n /\ n + 1 .. n = {}
    BY <1>1, <1>2
  <2> QED  BY <1>13, <2>1 DEF Missed
<1>14. ASSUME NEW a \in Nat, Upset(t, a, numExecuted) PROVE Upset(t, a, n)
  <2>1. a..numExecuted \subseteq a..n
    BY <1>1, <1>2
  <2> QED  BY <1>14, <2>1 DEF Upset
<1>15. ASSUME ~LeftBy(t, numExecuted), t \notin Uses(n), layout'[t] = layout[t] PROVE Placed
  <2>1. ASSUME NEW m \in Nodes, LastUse(t, m, numExecuted) PROVE LastUse(t, m, n)
    BY <1>4, <1>5, <1>15, <2>1 DEF LastUse
  <2>2. (\A m \in DOMAIN nodes : m <= numExecuted => t \notin Uses(m)) =>
            \A m \in DOMAIN nodes : m <= n => t \notin Uses(m)
    BY <1>4, <1>15
  <2>3. Missed(t, numExecuted) => Missed(t, n)
    BY <1>12, <1>15
  <2> QED  BY <1>6, <1>15, <2>1, <2>2, <2>3 DEF LayoutAt
<1>16. ASSUME ~LeftBy(t, numExecuted), t \notin Range(nodes[n].outputs),
              \/ content'[t] = content[t]
              \/ /\ content'[t] = Nothing
                 /\ \A m \in DOMAIN nodes : LastWrite(t, m, numExecuted) => Upset(t, m + 1, n)
       PROVE  Filled
  <2>1. ASSUME NEW m \in Nodes, LastWrite(t, m, numExecuted)
        PROVE  /\ LastWrite(t, m, n) /\ m \in DOMAIN nodes
               /\ Upset(t, m + 1, numExecuted) => Upset(t, m + 1, n)
    <3>1. LastWrite(t, m, n) /\ m \in DOMAIN nodes
      BY <1>4, <1>5, <1>16, <2>1 DEF LastWrite
    <3>2. m + 1 \in Nat
      BY <1>3, <3>1
    <3> QED  BY <1>14, <3>1, <3>2
  <2>2. (\A m \in DOMAIN nodes : m <= numExecuted => t \notin Range(nodes[m].outputs)) =>
            \A m \in DOMAIN nodes : m <= n => t \notin Range(nodes[m].outputs)
    BY <1>4, <1>16
  <2> QED  BY <1>6, <1>16, <2>1, <2>2 DEF ContentAt
<1>17. ASSUME t \in Uses(n), layout'[t] = Layout(Ensured(t, n)) \/ (nodes[n].type = "Read" /\ Missed(t, n))
       PROVE  Placed
  <2>1. LastUse(t, n, n)
    BY <1>10, <1>17 DEF LastUse
  <2> QED  BY <1>3, <1>17, <2>1
<1>18. ASSUME t \in Range(nodes[n].outputs), content'[t] = n \/ (content'[t] = Nothing /\ nodes[n].type = "Render")
       PROVE  Filled
  <2>1. LastWrite(t, n, n)
    BY <1>10, <1>18 DEF LastWrite
  <2> QED  BY <1>3, <1>18, <2>1
<1>19. ASSUME BoundTwice(t, n) \/ Missed(t, n - 1), NEW m \in DOMAIN nodes, LastWrite(t, m, numExecuted)
       PROVE  Upset(t, m + 1, n)
  <2>1. m \in Nat /\ m <= numExecuted
    BY <1>3, <1>19 DEF LastWrite
  <2>2. CASE BoundTwice(t, n)
    <3>1. n \in m + 1 .. n
      BY <1>1, <1>2, <2>1
    <3> QED  BY <2>2, <3>1 DEF Upset
  <2>3. CASE Missed(t, n - 1)
    <3>1. Missed(t, numExecuted) /\ numExecuted <= Len(nodes) /\ Len(nodes) \in Nat
      BY <1>1, <1>2, <2>3, Numbers
    <3>2. Upset(t, m + 1, numExecuted)
      BY <1>1, <1>19, <3>1, MissedUpsets
    <3> QED  BY <1>14, <2>1, <3>2
  <2> QED  BY <1>19, <2>2, <2>3
<1> HIDE DEF Placed, Filled
<1>20. /\ t \notin Uses(n) => t \notin Range(nodes[n].outputs)
       /\ t \in Range(nodes[n].outputs) \/ t \in Range(nodes[n].inputs) => t \in Uses(n)
       /\ Skipped(n) => nodes[n].type = "Read"
  BY DEF Uses, Skipped
<1>21. nodes[n].type = "Read" /\ Missed(t, n - 1) => Missed(t, n)
  BY <1>2, <1>12
<1> QED  BY <1>2, <1>6, <1>9, <1>11, <1>13, <1>15, <1>16, <1>17, <1>18, <1>19, <1>20, <1>21, Executed

\* The last writer before a read node.
LEMMA LastWriterOf ==
    ASSUME TypeOK, NEW n \in DOMAIN nodes, NEW t, nodes[n].inputs = <<t>>
    PROVE  /\ (\A m \in DOMAIN nodes : m <= n - 1 => t \notin Range(nodes[m].outputs)) => LastWriter(n) = Nothing
           /\ \A m \in DOMAIN nodes : LastWrite(t, m, n - 1) => LastWriter(n) = m
<1>1. Range(nodes[n].inputs) = {t}
  BY DEF Range
<1>2. /\ DOMAIN nodes = 1..Len(nodes) /\ Len(nodes) \in Nat
      /\ \A m \in 1 .. n - 1 : m \in DOMAIN nodes /\ m <= n - 1
      /\ \A m \in DOMAIN nodes : m <= n - 1 => m \in 1 .. n - 1
  BY Numbers
<1> DEFINE writers == {m \in 1 .. n - 1 : Range(nodes[m].outputs) \cap Range(nodes[n].inputs) # {}}
<1>3. \A m \in 1 .. n - 1 : m \in writers <=> t \in Range(nodes[m].outputs)
  BY <1>1
<1>4. LastWriter(n) = IF writers = {} THEN Nothing ELSE CHOOSE m \in writers : \A k \in writers : k <= m
  BY DEF LastWriter
<1>5. ASSUME \A m \in DOMAIN nodes : m <= n - 1 => t \notin Range(nodes[m].outputs)
      PROVE  LastWriter(n) = Nothing
  BY <1>2, <1>3, <1>4, <1>5
<1>6. ASSUME NEW m \in DOMAIN nodes, LastWrite(t, m, n - 1) PROVE LastWriter(n) = m
  <2>1. m \in writers /\ \A k \in writers : k <= m
    BY <1>2, <1>3, <1>6 DEF LastWrite
  <2>2. \A k \in writers : k \in Nat
    BY <1>2
  <2>3. PICK W : W = writers
    OBVIOUS
  <2>4. LastWriter(n) = CHOOSE k \in W : \A j \in W : j <= k
    BY <1>4, <2>1, <2>3
  <2>5. \A k \in W : (\A j \in W : j <= k) => k = m
    BY <2>1, <2>2, <2>3
  <2> QED  BY <2>1, <2>3, <2>4, <2>5
<1> QED  BY <1>5, <1>6

\* The staging buffer of a read node gets what the last node before it wrote.
LEMMA StagingExecutes ==
    ASSUME TypeOK, NodesInv, PhaseInv, RecordInv, DeviceInv, StagingInv, ExecuteNode
    PROVE  StagingInv'
<1>1. /\ numExecuted \in Nat /\ numExecuted < Len(nodes) /\ nodes' = nodes /\ numExecuted' = numExecuted + 1
      /\ phase = "executing" /\ processed' = processed /\ recorded' = recorded
  BY Numbers DEF ExecuteNode, graphVars, recordVars, TypeOK
<1>2. PICK n \in DOMAIN nodes : n = numExecuted + 1 /\ n - 1 = numExecuted
  BY <1>1, Numbers
<1>3. Reads' = Reads /\ n \in Nodes /\ \A m \in DOMAIN nodes : m \in Nat /\ m \in Nodes
  BY <1>1, Static, Numbers
<1>4. staging' = IF n \in recorded /\ nodes[n].type = "Read"
                 THEN [staging EXCEPT ![n] = ContentAfterBarriers(n, nodes[n].inputs[1])]
                 ELSE staging
  BY <1>2 DEF ExecuteNode
<1> SUFFICES ASSUME NEW m \in Reads, m \in recorded, m <= n PROVE Right(m, staging[m])'
  BY <1>1, <1>2, <1>3 DEF StagingInv
<1>5. m \in DOMAIN nodes /\ nodes[m].type = "Read"
  BY DEF Reads
<1> SUFFICES Right(m, staging'[m])
  <2>1. LastWriter(m)' = LastWriter(m)
    BY <1>1 DEF LastWriter
  <2>2. \A t, a, b : Upset(t, a, b)' <=> Upset(t, a, b)
    BY <1>1 DEF Upset, BoundTwice, Skipped
  <2> QED  BY <1>1, <2>1, <2>2 DEF Right
<1>6. CASE m # n
  <2>1. m <= numExecuted /\ staging'[m] = staging[m]
    BY <1>1, <1>2, <1>3, <1>4, <1>5, <1>6 DEF TypeOK
  <2> QED  BY <2>1 DEF StagingInv
<1>7. CASE m = n
  <2>1. PICK t \in Textures : nodes[n].inputs = <<t>>
    BY <1>5, <1>7 DEF NodesInv, WellFormed
  <2>2. t \in Range(nodes[n].inputs) /\ nodes[n].inputs[1] = t
    BY <2>1 DEF Range
  <2>3. n \in recorded /\ nodes[n].type \notin Unfinished
    BY <1>5, <1>7 DEF Unfinished
  <2>4. t \in Range(Transitioned(n)) /\ t \in Uses(n)
    BY <2>2, <2>3, Transitioning DEF Uses
  <2>5. LayoutAt(t, n - 1) /\ ContentAt(t, n - 1)
    BY <1>2 DEF DeviceInv
  <2>6. ~BoundTwice(t, n)
    BY <2>1 DEF BoundTwice
  <2>7. /\ ContentAfterBarriers(n, t) \in {content[t], Nothing}
        /\ ~Missed(t, n - 1) => ContentAfterBarriers(n, t) = content[t]
    BY <1>1, <2>3, <2>4, <2>5, <2>6, Found DEF ContentAfterBarriers
  <2>8. staging'[n] = ContentAfterBarriers(n, t)
    BY <1>3, <1>4, <1>5, <1>7, <2>2, <2>3 DEF TypeOK
  <2>9. ~LeftBy(t, n - 1)
    <3> SUFFICES ASSUME NEW k \in DOMAIN nodes, k <= n - 1, t \in Uses(k), nodes[k].type \in Unfinished
                 PROVE  FALSE
      BY DEF LeftBy
    <3>1. k < n
      BY <1>3
    <3> QED  BY <2>4, <3>1 DEF NodesInv
  <2>10. ASSUME NEW k \in Nodes, LastWrite(t, k, n - 1),
                content[t] = k \/ (content[t] = Nothing /\ (nodes[k].type = "Render" \/ Upset(t, k + 1, n - 1)))
         PROVE  Right(n, staging'[n])
    <3>1. LastWriter(n) = k
      BY <2>1, <2>10, LastWriterOf DEF LastWrite
    <3>2. Missed(t, n - 1) => Upset(t, k + 1, n - 1)
      <4>1. n - 1 \in Nat /\ n - 1 <= Len(nodes)
        BY <1>1, <1>2
      <4> QED  BY <2>10, <4>1, MissedUpsets
    <3>3. \/ staging'[n] = k
          \/ staging'[n] = Nothing /\ (nodes[k].type = "Render" \/ Upset(t, k + 1, n - 1))
      BY <2>7, <2>8, <2>10, <3>2
    <3> QED  BY <2>2, <3>1, <3>3 DEF Right
  <2>11. CASE content[t] = Nothing /\ \A k \in DOMAIN nodes : k <= n - 1 => t \notin Range(nodes[k].outputs)
    <3>1. LastWriter(n) = Nothing /\ staging'[n] = Nothing
      BY <2>1, <2>7, <2>8, <2>11, LastWriterOf
    <3> QED  BY <1>7, <3>1 DEF Right
  <2> QED  BY <1>7, <2>5, <2>9, <2>10, <2>11 DEF ContentAt
<1> QED  BY <1>6, <1>7

\* Types of what the device changes.
LEMMA DeviceTypes ==
    ASSUME TypeOK, NodesInv, PhaseInv, RecordInv, DeviceInv, ExecuteNode
    PROVE  TypeOK'
<1>1. /\ numExecuted \in 0..Len(nodes) /\ numExecuted < Len(nodes) /\ Len(nodes) \in Nat
      /\ nodes' = nodes /\ numExecuted' = numExecuted + 1
      /\ UNCHANGED <<phase, usage, source, stateChanges, processed, recorded, barriers, called,
                     completion, holders, delivered>>
  BY Numbers DEF ExecuteNode, graphVars, recordVars, listenVars, TypeOK
<1>2. PICK n \in DOMAIN nodes : n = numExecuted + 1
  BY <1>1, Numbers
<1>3. n \in Nodes
  BY Numbers
<1> DEFINE written == IF n \in recorded THEN Range(nodes[n].outputs) ELSE {}
<1>4. /\ layout' = [t \in Textures |->
               IF t \in written THEN OutputEnsured(nodes[n].type, t) ELSE LayoutAfterBarriers(n, t)]
      /\ \E kept \in Kept(n) : content' = [t \in Textures |->
               IF t \notin written THEN ContentAfterBarriers(n, t) ELSE IF t \in kept THEN n ELSE Nothing]
      /\ staging' = IF n \in recorded /\ nodes[n].type = "Read"
                    THEN [staging EXCEPT ![n] = ContentAfterBarriers(n, nodes[n].inputs[1])]
                    ELSE staging
  BY <1>2 DEF ExecuteNode
<1>5. \A t : ContentAfterBarriers(n, t) \in {content[t], Nothing}
  BY DEF ContentAfterBarriers
<1>6. content' \in [Textures -> {Nothing} \cup DOMAIN nodes]
  BY <1>4, <1>5 DEF TypeOK
<1>7. ASSUME n \in recorded, nodes[n].type = "Read"
      PROVE  ContentAfterBarriers(n, nodes[n].inputs[1]) \in {Nothing} \cup Nodes
  <2>1. PICK t \in Textures : nodes[n].inputs = <<t>>
    BY <1>7 DEF NodesInv, WellFormed
  <2>2. content[t] \in {Nothing} \cup Nodes
    BY Numbers DEF TypeOK
  <2> QED  BY <1>5, <2>1, <2>2
<1>8. staging' \in [Nodes -> {Nothing} \cup Nodes]
  <2>1. staging \in [Nodes -> {Nothing} \cup Nodes]
    BY DEF TypeOK
  <2> QED  BY <1>3, <1>4, <1>7, <2>1
<1>9. ASSUME NEW t \in Textures PROVE layout'[t] \in Layouts
  <2>1. CASE t \in written
    <3>1. t \in Uses(n) /\ t \in Range(nodes[n].outputs)
      BY <2>1 DEF Uses
    <3>2. OutputEnsured(nodes[n].type, t) = Ensured(t, n) /\ Ensured(t, n) \in States
      BY <3>1, NodeStates DEF Ensured
    <3>3. layout'[t] = OutputEnsured(nodes[n].type, t) /\ nodes[n].type \in {"Write", "Render", "Dispatch"}
      BY <1>4, <2>1, <3>1, NodeStates
    <3>4. Layout(OutputEnsured(nodes[n].type, t)) = OutputEnsured(nodes[n].type, t)
      BY <3>3, Tables DEF Layout
    <3> QED  BY <3>2, <3>3, <3>4 DEF Layouts
  <2>2. CASE t \notin written /\ BarriersOn(n, t) = {}
    <3>1. layout'[t] = LayoutAfterBarriers(n, t) /\ layout[t] \in Layouts
      BY <1>4, <2>2 DEF TypeOK
    <3> QED  BY <2>2, <3>1, NoBarrier
  <2>3. CASE t \notin written /\ BarriersOn(n, t) # {}
    <3>1. n \in recorded /\ stateChanges = [u \in Textures |-> StateChangesOf(u)]
      BY <2>3, Untouched DEF ExecuteNode, PhaseInv
    <3>2. barriers[n] = BarriersOf(n) /\ nodes[n].type \notin Unfinished
      BY <1>3, <3>1 DEF RecordInv
    <3>3. PICK g : g = GetStateTransition(t, n)
      OBVIOUS
    <3>4. PICK k \in Nat : BarriersOn(n, t) \subseteq 1..k
      BY <3>1, <3>2, Barriers
    <3>5. /\ \A i \in BarriersOn(n, t) : barriers[n][i] = g
          /\ t \in Range(Transitioned(n))
      BY <2>3, <3>1, <3>2, <3>3, Barriers
    <3>6. LayoutAfterBarriers(n, t) = Layout(g.to)
      <4> HIDE <3>3
      <4> QED  BY <2>3, <3>4, <3>5, EqualBarriers
    <3>7. g \in Barrier
      BY <3>1, <3>2, <3>3, <3>5, Transitioning, Transitions
    <3>8. layout'[t] = LayoutAfterBarriers(n, t)
      BY <1>4, <2>3
    <3> QED  BY <3>6, <3>7, <3>8 DEF Barrier, Layouts
  <2> QED  BY <2>1, <2>2, <2>3
<1>10. layout' \in [Textures -> Layouts]
  BY <1>4, <1>9
<1>11. numExecuted' \in 0..Len(nodes)
  BY <1>1
<1> QED  BY <1>1, <1>6, <1>8, <1>10, <1>11 DEF TypeOK

------------------------------------------------------------------------------
(* Adding nodes *)

UsageFlags == {"TransferDst", "TransferSrc", "Sampled", "Storage", "ColorAttachment", "DepthStencilAttachment"}

\* One of the functions that add a node adds a well-formed one.
AddsNode(node, flags) ==
    /\ WellFormed(node) /\ flags \in [Textures -> SUBSET UsageFlags]
    /\ NewCommandNode(node, flags)
    /\ holders' = IF node.type = "Read" THEN [holders EXCEPT ![Len(nodes) + 1] = {"sender"}] ELSE holders

\* The flags of AddUsage.
LEMMA FlagTypes ==
    /\ \A ts : \A flag \in UsageFlags : Flags(ts, flag) \in [Textures -> SUBSET UsageFlags]
    /\ \A ts : AttachmentFlags(ts) \in [Textures -> SUBSET UsageFlags]
BY DEF Flags, AttachmentFlags, UsageFlags

\* Whatever is added is a well-formed node.
LEMMA AddsWellFormed ==
    ASSUME Adding
    PROVE  \E node, flags : AddsNode(node, flags)
<1>1. /\ Range(<<>>) = {} /\ \A t : Range(<<t>>) = {t}
      /\ <<>> \in Seq(Textures) /\ \A t \in Textures : <<t>> \in Seq(Textures)
      /\ \A t, u \in Textures : <<t, u>> \in Seq(Textures) /\ Range(<<t, u>>) = {t, u}
  BY DEF Range
<1>2. ASSUME NEW t \in Textures, AddWriteNode(t) PROVE \E node, flags : AddsNode(node, flags)
  <2> DEFINE d == [type |-> "Write", inputs |-> <<>>, outputs |-> <<t>>]
  <2>1. WellFormed(d) /\ d.type # "Read"
    BY <1>1 DEF WellFormed, CommandNode, CommandTypes
  <2>2. Flags({t}, "TransferDst") \in [Textures -> SUBSET UsageFlags]
    BY FlagTypes DEF UsageFlags
  <2>3. NewCommandNode(d, Flags({t}, "TransferDst")) /\ UNCHANGED holders
    BY <1>2 DEF AddWriteNode
  <2> HIDE DEF d
  <2> QED  BY <2>1, <2>2, <2>3 DEF AddsNode
<1>3. ASSUME NEW t \in Textures, AddReadNode(t) PROVE \E node, flags : AddsNode(node, flags)
  <2> DEFINE d == [type |-> "Read", inputs |-> <<t>>, outputs |-> <<>>]
  <2>1. WellFormed(d) /\ d.type = "Read"
    BY <1>1 DEF WellFormed, CommandNode, CommandTypes
  <2>2. Flags({t}, "TransferSrc") \in [Textures -> SUBSET UsageFlags]
    BY FlagTypes DEF UsageFlags
  <2>3. NewCommandNode(d, Flags({t}, "TransferSrc")) /\ holders' = [holders EXCEPT ![Len(nodes) + 1] = {"sender"}]
    BY <1>3 DEF AddReadNode
  <2> HIDE DEF d
  <2> QED  BY <2>1, <2>2, <2>3 DEF AddsNode
<1>4. ASSUME NEW t \in Textures, AddPresentNode(t) PROVE \E node, flags : AddsNode(node, flags)
  <2> DEFINE d == [type |-> "Present", inputs |-> <<t>>, outputs |-> <<>>]
  <2>1. WellFormed(d) /\ d.type # "Read"
    BY <1>1 DEF WellFormed, CommandNode, CommandTypes
  <2>2. Flags({}, "Storage") \in [Textures -> SUBSET UsageFlags]
    BY FlagTypes DEF UsageFlags
  <2>3. NewCommandNode(d, Flags({}, "Storage")) /\ UNCHANGED holders
    BY <1>4 DEF AddPresentNode
  <2> HIDE DEF d
  <2> QED  BY <2>1, <2>2, <2>3 DEF AddsNode
<1>5. ASSUME NEW targets \in RenderTargets, NEW dependencies \in TextureLists(Textures \ Range(targets)),
             AddRenderNode(dependencies, targets)
      PROVE  \E node, flags : AddsNode(node, flags)
  <2> DEFINE d == [type |-> "Render", inputs |-> dependencies, outputs |-> targets]
  <2>1. targets \in Seq(Textures)
    <3>1. CASE \E c \in Textures : targets = <<c>>
      BY <1>1, <3>1
    <3>2. CASE \E c \in Textures \ DepthTextures, e \in DepthTextures : targets = <<c, e>>
      <4>1. PICK c \in Textures \ DepthTextures, e \in DepthTextures : targets = <<c, e>>
        BY <3>2
      <4>2. c \in Textures /\ e \in Textures
        BY GraphAssumption DEF GraphAssumption
      <4> QED  BY <1>1, <4>1, <4>2
    <3> QED  BY <3>1, <3>2 DEF RenderTargets
  <2>2. dependencies \in Seq(Textures) /\ Range(dependencies) \cap Range(targets) = {}
    <3>1. CASE dependencies = <<>>
      BY <1>1, <3>1
    <3>2. CASE \E t \in Textures \ Range(targets) : dependencies = <<t>>
      <4>1. PICK t \in Textures \ Range(targets) : dependencies = <<t>>
        BY <3>2
      <4>2. <<t>> \in Seq(Textures) /\ Range(<<t>>) = {t}
        BY <1>1
      <4> QED  BY <4>1, <4>2
    <3>3. CASE \E t, u \in Textures \ Range(targets) : dependencies = <<t, u>>
      <4>1. PICK t, u \in Textures \ Range(targets) : dependencies = <<t, u>>
        BY <3>3
      <4>2. <<t, u>> \in Seq(Textures) /\ Range(<<t, u>>) = {t, u}
        BY <1>1
      <4> QED  BY <4>1, <4>2
    <3> QED  BY <1>5, <3>1, <3>2, <3>3 DEF TextureLists
  <2>3. WellFormed(d) /\ d.type # "Read"
    BY <1>5, <2>1, <2>2 DEF WellFormed, CommandNode, CommandTypes
  <2>4. AttachmentFlags(Range(targets)) \in [Textures -> SUBSET UsageFlags]
    BY FlagTypes
  <2>5. NewCommandNode(d, AttachmentFlags(Range(targets))) /\ UNCHANGED holders
    BY <1>5 DEF AddRenderNode
  <2> HIDE DEF d
  <2> QED  BY <2>3, <2>4, <2>5 DEF AddsNode
<1>6. ASSUME NEW input \in Textures, NEW output \in Textures, input # output, AddDispatchNode(input, output)
      PROVE  \E node, flags : AddsNode(node, flags)
  <2> DEFINE d == [type |-> "Dispatch", inputs |-> <<input>>, outputs |-> <<output>>]
             f == [t \in Textures |-> Flags({input}, "Sampled")[t] \cup Flags({output}, "Storage")[t]]
  <2>1. WellFormed(d) /\ d.type # "Read"
    BY <1>1, <1>6 DEF WellFormed, CommandNode, CommandTypes
  <2>2. f \in [Textures -> SUBSET UsageFlags]
    <3>1. /\ Flags({input}, "Sampled") \in [Textures -> SUBSET UsageFlags]
          /\ Flags({output}, "Storage") \in [Textures -> SUBSET UsageFlags]
      BY FlagTypes DEF UsageFlags
    <3> QED  BY <3>1
  <2>3. NewCommandNode(d, f) /\ UNCHANGED holders
    BY <1>6 DEF AddDispatchNode
  <2> HIDE DEF d, f
  <2> QED  BY <2>1, <2>2, <2>3 DEF AddsNode
<1> QED  BY <1>2, <1>3, <1>4, <1>5, <1>6 DEF Adding

\* As long as nothing is executed, the nodes do not matter to the device.
LEMMA Unexecuted ==
    ASSUME TypeOK, TypeOK', DeviceInv, numExecuted = 0, UNCHANGED <<numExecuted, layout, content>>
    PROVE  DeviceInv' /\ StagingInv'
<1>1. \A t \in Textures : layout[t] = Undefined /\ content[t] = Nothing
  <2>1. \A n \in DOMAIN nodes : ~(n <= 0)
    BY Numbers
  <2> QED  BY <2>1 DEF DeviceInv, LayoutAt, ContentAt, LeftBy, LastUse, LastWrite
<1>2. \A n \in DOMAIN nodes' : ~(n <= 0)
  <2>1. nodes' \in Seq(CommandNode)
    BY DEF TypeOK
  <2> QED  BY <2>1
<1>3. numExecuted' = 0 /\ layout' = layout /\ content' = content
  OBVIOUS
<1>4. ASSUME NEW t \in Textures PROVE LayoutAt(t, numExecuted)' /\ ContentAt(t, numExecuted)'
  BY <1>1, <1>2, <1>3 DEF LayoutAt, ContentAt
<1>5. StagingInv'
  BY <1>2, <1>3 DEF StagingInv, Reads
<1> QED  BY <1>4, <1>5 DEF DeviceInv

\* Adding a node keeps the invariant.
LEMMA AddingNext ==
    ASSUME Inv, Adding
    PROVE  Inv'
<1>1. PICK node, flags : AddsNode(node, flags)
  BY AddsWellFormed
<1>2. /\ WellFormed(node) /\ node \in CommandNode /\ flags \in [Textures -> SUBSET UsageFlags]
      /\ phase = "adding" /\ Len(nodes) < MaxNodes
      /\ \A t \in Range(node.inputs) \cup Range(node.outputs) : Usable(t)
      /\ nodes' = Append(nodes, node)
      /\ usage' = [t \in Textures |-> usage[t] \cup flags[t]]
      /\ source' = [t \in Textures |-> IF t \in Range(node.outputs) THEN Len(nodes) + 1 ELSE source[t]]
      /\ UNCHANGED <<phase, stateChanges, processed, recorded, barriers, numExecuted, layout, content, staging,
                     called, completion, delivered>>
      /\ holders' = IF node.type = "Read" THEN [holders EXCEPT ![Len(nodes) + 1] = {"sender"}] ELSE holders
  BY <1>1 DEF AddsNode, NewCommandNode, WellFormed, recordVars, deviceVars
<1>3. TypeOK /\ NodesInv /\ PhaseInv /\ RecordInv /\ DeviceInv /\ StagingInv /\ ListenInv
  BY DEF Inv
<1>4. /\ Len(nodes) \in Nat /\ MaxNodes \in Nat /\ DOMAIN nodes = 1..Len(nodes) /\ DOMAIN nodes \subseteq Nodes
      /\ \A n \in DOMAIN nodes : n \in Nat /\ nodes[n] \in CommandNode
  BY <1>3, Numbers
<1>5. PICK N : N = Len(nodes) + 1
  OBVIOUS
<1>6. /\ nodes' \in Seq(CommandNode) /\ Len(nodes') = N /\ N <= MaxNodes /\ N \in Nodes
      /\ DOMAIN nodes' = DOMAIN nodes \cup {N} /\ N \notin DOMAIN nodes
      /\ \A n \in DOMAIN nodes : nodes'[n] = nodes[n]
      /\ nodes'[N] = node
  <2>1. nodes \in Seq(CommandNode)
    BY <1>3 DEF TypeOK
  <2> QED  BY <1>2, <1>4, <1>5, <2>1 DEF Nodes
<1>7. numExecuted = 0 /\ processed = {} /\ recorded = {} /\ called = {}
  BY <1>2, <1>3 DEF PhaseInv, TypeOK
<1>8. TypeOK'
  <2>1. usage' \in [Textures -> SUBSET UsageFlags]
    BY <1>2, <1>3 DEF TypeOK, UsageFlags
  <2>2. source' \in [Textures -> {Nothing} \cup DOMAIN nodes']
    BY <1>2, <1>3, <1>5, <1>6 DEF TypeOK
  <2>3. content' \in [Textures -> {Nothing} \cup DOMAIN nodes']
    BY <1>2, <1>3, <1>6 DEF TypeOK
  <2>4. holders' \in [Nodes -> SUBSET {"sender", "operation"}]
    BY <1>2, <1>3, <1>5, <1>6 DEF TypeOK
  <2>5. numExecuted' \in 0..Len(nodes')
    BY <1>2, <1>4, <1>6, <1>7
  <2> QED  BY <1>2, <1>3, <1>6, <1>7, <2>1, <2>2, <2>3, <2>4, <2>5 DEF TypeOK, UsageFlags
<1>9. NodesInv'
  <2>1. \A n \in DOMAIN nodes' : WellFormed(nodes[n])'
    <3>1. WellFormed(node) /\ \A n \in DOMAIN nodes : WellFormed(nodes[n])
      BY <1>2, <1>3 DEF NodesInv
    <3>2. \A n \in DOMAIN nodes' : WellFormed(nodes'[n])
      BY <1>6, <3>1
    <3> QED  BY <3>2 DEF WellFormed
  <2>2. /\ \A n \in DOMAIN nodes : Uses(n)' = Uses(n)
        /\ Uses(N)' = Range(node.inputs) \cup Range(node.outputs)
    BY <1>6 DEF Uses
  <2>3. ASSUME NEW m \in DOMAIN nodes', NEW n \in DOMAIN nodes', m < n, nodes'[m].type \in Unfinished
        PROVE  Uses(m)' \cap Uses(n)' = {}
    <3>1. m \in DOMAIN nodes
      BY <1>4, <1>5, <1>6, <2>3
    <3>2. CASE n \in DOMAIN nodes
      BY <1>3, <1>6, <2>2, <2>3, <3>1, <3>2 DEF NodesInv
    <3>3. CASE n = N
      BY <1>2, <1>6, <2>2, <2>3, <3>1, <3>3 DEF Usable, Unfinished, Uses
    <3> QED  BY <1>6, <3>2, <3>3
  <2> QED  BY <2>1, <2>3 DEF NodesInv
<1>10. PhaseInv'
  BY <1>2, <1>7 DEF PhaseInv
<1>11. RecordInv'
  <2>1. \A n \in Nodes : barriers[n] = <<>>
    BY <1>3, <1>7 DEF RecordInv
  <2> QED  BY <1>2, <1>7, <2>1 DEF RecordInv
<1>12. DeviceInv' /\ StagingInv'
  BY <1>2, <1>3, <1>7, <1>8, Unexecuted
<1>13. ListenInv'
  BY <1>2, <1>3, <1>7 DEF ListenInv
<1> QED  BY <1>8, <1>9, <1>10, <1>11, <1>12, <1>13 DEF Inv

------------------------------------------------------------------------------
(* The other steps *)

\* The parts of the invariant depend on these variables only.
LEMMA Frames ==
    ASSUME Inv, nodes' = nodes
    PROVE  /\ NodesInv'
           /\ UNCHANGED <<numExecuted, layout, content, processed, recorded>> => DeviceInv'
           /\ UNCHANGED <<numExecuted, staging, processed, recorded>> => StagingInv'
           /\ UNCHANGED <<stateChanges, processed, recorded, barriers, holders>> => RecordInv'
           /\ UNCHANGED <<called, completion, delivered, staging, recorded>> => ListenInv'
<1>1. TypeOK /\ NodesInv /\ RecordInv /\ DeviceInv /\ StagingInv /\ ListenInv
  BY DEF Inv
<1>2. NodesInv'
  BY <1>1 DEF NodesInv, WellFormed, Uses
<1>3. ASSUME UNCHANGED <<numExecuted, layout, content, processed, recorded>> PROVE DeviceInv'
  <2>1. /\ \A t, k : Missed(t, k)' <=> Missed(t, k)
        /\ \A t, a, k : Upset(t, a, k)' <=> Upset(t, a, k)
    BY <1>3 DEF Missed, Upset, BoundTwice, Skipped, Uses
  <2>2. \A t, n, k : (LastUse(t, n, k)' <=> LastUse(t, n, k)) /\ (LastWrite(t, n, k)' <=> LastWrite(t, n, k))
    BY DEF LastUse, LastWrite, Uses
  <2>3. \A t, n, k : (Ensured(t, n)' = Ensured(t, n)) /\ (LeftBy(t, k)' <=> LeftBy(t, k)) /\ Uses(n)' = Uses(n)
    BY DEF LeftBy, Ensured, Uses
  <2>4. \A t \in Textures : LayoutAt(t, numExecuted)' <=> LayoutAt(t, numExecuted)
    BY <1>3, <2>1, <2>2, <2>3 DEF LayoutAt
  <2>5. \A t \in Textures : ContentAt(t, numExecuted)' <=> ContentAt(t, numExecuted)
    BY <1>3, <2>1, <2>2, <2>3 DEF ContentAt
  <2> QED  BY <1>1, <2>4, <2>5 DEF DeviceInv
<1>4. ASSUME UNCHANGED <<numExecuted, staging, processed, recorded>> PROVE StagingInv'
  <2>1. Reads' = Reads /\ \A n \in Reads : LastWriter(n)' = LastWriter(n)
    BY DEF Reads, LastWriter
  <2>2. \A t, a, k : Upset(t, a, k)' <=> Upset(t, a, k)
    BY <1>4 DEF Upset, BoundTwice, Skipped
  <2>3. \A n \in Reads : Right(n, staging[n])' <=> Right(n, staging[n])
    BY <1>4, <2>1, <2>2 DEF Right
  <2> QED  BY <1>1, <1>4, <2>1, <2>3 DEF StagingInv
<1>5. ASSUME UNCHANGED <<stateChanges, processed, recorded, barriers, holders>> PROVE RecordInv'
  <2>1. Reads' = Reads /\ \A n \in Nodes : BarriersOf(n)' = BarriersOf(n)
    BY <1>5, Static
  <2> QED  BY <1>1, <1>5, <2>1 DEF RecordInv
<1>6. ASSUME UNCHANGED <<called, completion, delivered, staging, recorded>> PROVE ListenInv'
  BY <1>1, <1>6 DEF ListenInv, Reads
<1> QED  BY <1>2, <1>3, <1>4, <1>5, <1>6

\* BuildGraph leaves the changes that the invariant speaks of.
LEMMA ExecuteGraphNext == ASSUME Inv, ExecuteGraph PROVE Inv'
<1>1. /\ phase = "adding" /\ phase' = "recording" /\ nodes' = nodes
      /\ stateChanges' = [t \in Textures |-> StateChangesOf(t)]
      /\ UNCHANGED <<usage, source, processed, recorded, barriers, numExecuted, layout, content, staging,
                     called, completion, holders, delivered>>
  BY DEF ExecuteGraph, BuildGraph, recordVars, deviceVars, listenVars
<1>2. TypeOK /\ NodesInv /\ PhaseInv /\ RecordInv
  BY DEF Inv
<1>3. TypeOK'
  <2>1. stateChanges' \in [Textures -> SUBSET StateChange]
    BY <1>1, <1>2, Changes
  <2> QED  BY <1>1, <1>2, <2>1 DEF TypeOK
<1>4. PhaseInv'
  <2>1. \A t \in Textures : StateChangesOf(t)' = StateChangesOf(t)
    BY <1>1, Static
  <2>2. stateChanges' = [t \in Textures |-> StateChangesOf(t)']
    BY <1>1, <2>1
  <2> QED  BY <1>1, <1>2, <2>2 DEF PhaseInv
<1>5. RecordInv'
  <2>1. processed = {} /\ recorded = {} /\ Reads' = Reads
    BY <1>1, <1>2, Static DEF PhaseInv, TypeOK
  <2> QED  BY <1>1, <1>2, <2>1 DEF RecordInv
<1> QED  BY <1>1, <1>3, <1>4, <1>5, Frames DEF Inv

\* One call of Process keeps the invariant.
LEMMA RecordNodeNext == ASSUME Inv, NEW n \in Nodes, RecordNode(n) PROVE Inv'
<1>1. /\ phase = "recording" /\ phase' = phase /\ nodes' = nodes /\ n \in DOMAIN nodes /\ n \notin processed
      /\ processed' = processed \cup {n}
      /\ IF Processed(n)
         THEN recorded' = recorded \cup {n} /\ barriers' = [barriers EXCEPT ![n] = BarriersOf(n)]
         ELSE UNCHANGED <<recorded, barriers>>
      /\ UNCHANGED <<usage, source, stateChanges, numExecuted, layout, content, staging,
                     called, completion, holders, delivered>>
  BY DEF RecordNode, graphVars, deviceVars, listenVars
<1>2. TypeOK /\ NodesInv /\ PhaseInv /\ RecordInv
  BY DEF Inv
<1>3. /\ Processed(n) => nodes[n].type \notin Unfinished
      /\ ~Processed(n) => nodes[n].type \notin {"Write", "Render"} /\ (nodes[n].type = "Read" => holders[n] = {})
  BY DEF Processed, Unfinished, Expired
<1>4. ASSUME nodes[n].type \notin Unfinished
      PROVE  \A i \in DOMAIN BarriersOf(n) : BarriersOf(n)[i] \in Barrier
  <2>1. stateChanges = [t \in Textures |-> StateChangesOf(t)]
    BY <1>1, <1>2 DEF PhaseInv
  <2>2. PICK T : T = Transitioned(n)
    OBVIOUS
  <2>3. \A i \in DOMAIN T : T[i] \in Uses(n)
    BY <1>1, <1>2, <1>4, <2>2, Transitioning DEF Range
  <2>4. \A i \in DOMAIN T : GetStateTransition(T[i], n) \in Barrier
    BY <1>1, <1>2, <2>1, <2>3, Transitions
  <2>5. \A i \in DOMAIN BarriersOf(n) : i \in DOMAIN T /\ BarriersOf(n)[i] = GetStateTransition(T[i], n)
    BY <2>2 DEF BarriersOf
  <2> QED  BY <2>4, <2>5
<1>5. TypeOK'
  <2>1. processed' \subseteq DOMAIN nodes /\ recorded' \subseteq processed'
    BY <1>1, <1>2 DEF TypeOK
  <2>2. DOMAIN barriers' = Nodes /\ \A m \in Nodes : \A i \in DOMAIN barriers'[m] : barriers'[m][i] \in Barrier
    <3>1. DOMAIN barriers = Nodes /\ \A m \in Nodes : \A i \in DOMAIN barriers[m] : barriers[m][i] \in Barrier
      BY <1>2 DEF TypeOK
    <3>2. CASE Processed(n)
      <4>1. DOMAIN barriers' = Nodes /\ \A m \in Nodes : barriers'[m] = IF m = n THEN BarriersOf(n) ELSE barriers[m]
        BY <1>1, <3>1, <3>2
      <4> QED  BY <1>3, <1>4, <3>1, <3>2, <4>1
    <3>3. CASE ~Processed(n)
      BY <1>1, <3>1, <3>3
    <3> QED  BY <3>2, <3>3
  <2> QED  BY <1>1, <1>2, <2>1, <2>2 DEF TypeOK
<1>6. PhaseInv'
  <2>1. \A t \in Textures : StateChangesOf(t)' = StateChangesOf(t)
    BY <1>1, Static
  <2> QED  BY <1>1, <1>2, <2>1 DEF PhaseInv
<1>7. RecordInv'
  <2>1. Reads' = Reads /\ \A m \in Nodes : BarriersOf(m)' = BarriersOf(m)
    BY <1>1, Static
  <2>2. /\ \A m \in recorded' : nodes[m].type \notin Unfinished
        /\ \A m \in processed' : nodes[m].type \in {"Write", "Render"} => m \in recorded'
        /\ \A m \in Reads : m \in processed' => m \in recorded' \/ holders[m] = {}
    <3>1. /\ \A m \in recorded : nodes[m].type \notin Unfinished
          /\ \A m \in processed : nodes[m].type \in {"Write", "Render"} => m \in recorded
          /\ \A m \in Reads : nodes[m].type = "Read" /\ (m \in processed => m \in recorded \/ holders[m] = {})
      BY <1>2 DEF RecordInv, Reads
    <3>2. CASE Processed(n)
      BY <1>1, <1>3, <3>1, <3>2
    <3>3. CASE ~Processed(n)
      BY <1>1, <1>3, <3>1, <3>3
    <3> QED  BY <3>2, <3>3
  <2>3. ASSUME NEW m \in Nodes
        PROVE  /\ m \in recorded' => barriers'[m] = BarriersOf(m)
               /\ m \notin recorded' => barriers'[m] = <<>>
    <3>1. /\ m \in recorded => barriers[m] = BarriersOf(m)
          /\ m \notin recorded => barriers[m] = <<>>
          /\ DOMAIN barriers = Nodes
      BY <1>2 DEF RecordInv, TypeOK
    <3>2. CASE Processed(n)
      BY <1>1, <3>1, <3>2
    <3>3. CASE ~Processed(n)
      BY <1>1, <3>1, <3>3
    <3> QED  BY <3>2, <3>3
  <2> QED  BY <1>1, <2>1, <2>2, <2>3 DEF RecordInv
<1>8. DeviceInv' /\ StagingInv'
  BY <1>1, <1>2, <1>5, Unexecuted DEF Inv, PhaseInv
<1>9. ListenInv'
  <2>1. \A m \in called \cap recorded : m \in recorded'
    BY <1>1
  <2> QED  BY <1>1, <2>1, Static DEF Inv, ListenInv
<1> QED  BY <1>1, <1>5, <1>6, <1>7, <1>8, <1>9, Frames DEF Inv

\* Submit and Signal only change the phase.
LEMMA PhaseNext == ASSUME Inv, Submit \/ Signal PROVE Inv'
<1>1. /\ nodes' = nodes
      /\ UNCHANGED <<usage, source, stateChanges, processed, recorded, barriers, numExecuted, layout, content,
                     staging, called, completion, holders, delivered>>
      /\ \/ phase = "recording" /\ processed = DOMAIN nodes /\ phase' = "executing"
         \/ phase = "executing" /\ numExecuted = Len(nodes) /\ phase' = "completing"
  BY DEF Submit, Signal, graphVars, recordVars, deviceVars, listenVars
<1>2. TypeOK /\ PhaseInv
  BY DEF Inv
<1>3. TypeOK'
  BY <1>1, <1>2 DEF TypeOK
<1>4. PhaseInv'
  <2>1. \A t \in Textures : StateChangesOf(t)' = StateChangesOf(t)
    BY <1>1, Static
  <2> QED  BY <1>1, <1>2, <2>1 DEF PhaseInv
<1> QED  BY <1>1, <1>3, <1>4, Frames DEF Inv

\* The device executing a node keeps the invariant.
LEMMA ExecuteNodeNext == ASSUME Inv, ExecuteNode PROVE Inv'
<1>1. /\ phase = "executing" /\ phase' = phase /\ nodes' = nodes
      /\ UNCHANGED <<stateChanges, processed, recorded, barriers, called, completion, holders, delivered>>
  BY DEF ExecuteNode, graphVars, recordVars, listenVars
<1>2. TypeOK /\ NodesInv /\ PhaseInv /\ RecordInv /\ DeviceInv /\ StagingInv /\ ListenInv
  BY DEF Inv
<1>3. TypeOK' /\ DeviceInv' /\ StagingInv'
  BY <1>2, DeviceTypes, DeviceExecutes, StagingExecutes
<1>4. PhaseInv'
  <2>1. \A t \in Textures : StateChangesOf(t)' = StateChangesOf(t)
    BY <1>1, Static
  <2> QED  BY <1>1, <1>2, <2>1 DEF PhaseInv
<1>5. ListenInv'
  <2>1. called = {} /\ \A n \in Nodes : delivered[n] = <<>>
    BY <1>1, <1>2 DEF PhaseInv, ListenInv
  <2> QED  BY <1>1, <1>2, <2>1 DEF ListenInv
<1> QED  BY <1>1, <1>3, <1>4, <1>5, Frames DEF Inv

\* A step that may change the holders, completions and deliveries only.
Listening == UNCHANGED <<phase, nodes, usage, source, stateChanges, processed, recorded, barriers, numExecuted,
                         layout, content, staging>>

\* What such a step has to show.
LEMMA ListeningNext ==
    ASSUME Inv, Listening, ListenInv',
           called' \subseteq DOMAIN nodes, phase # "completing" => called' = called,
           completion' \in [Nodes -> {"AwaitingResult", "OnResult", "ResultValue"}],
           holders' \in [Nodes -> SUBSET {"sender", "operation"}],
           delivered' \in [Nodes -> Seq({Nothing} \cup Nodes)],
           \A n \in Reads : n \in processed => n \in recorded \/ holders'[n] = {}
    PROVE  Inv'
<1>1. nodes' = nodes /\ Listening
  BY DEF Listening
<1>2. TypeOK /\ PhaseInv /\ RecordInv
  BY DEF Inv
<1>3. TypeOK'
  BY <1>1, <1>2 DEF TypeOK, Listening
<1>4. PhaseInv'
  <2>1. \A t \in Textures : StateChangesOf(t)' = StateChangesOf(t)
    BY <1>1, Static
  <2> QED  BY <1>1, <1>2, <2>1 DEF PhaseInv, Listening
<1>5. RecordInv'
  <2>1. Reads' = Reads /\ \A n \in Nodes : BarriersOf(n)' = BarriersOf(n)
    BY <1>1, Static DEF Listening
  <2> QED  BY <1>1, <1>2, <2>1 DEF RecordInv, Listening
<1> QED  BY <1>1, <1>3, <1>4, <1>5, Frames DEF Inv, Listening

\* Delivering once keeps the types, and gives nobody a hold.
LEMMA Delivers ==
    ASSUME Inv, NEW n \in Nodes, Deliver(n), delivered[n] = <<>>
    PROVE  /\ delivered' = [delivered EXCEPT ![n] = <<staging[n]>>]
           /\ delivered' \in [Nodes -> Seq({Nothing} \cup Nodes)]
           /\ holders' \in [Nodes -> SUBSET {"sender", "operation"}]
           /\ \A m \in Nodes : holders[m] = {} => holders'[m] = {}
<1>1. /\ delivered \in [Nodes -> Seq({Nothing} \cup Nodes)] /\ staging[n] \in {Nothing} \cup Nodes
      /\ holders \in [Nodes -> SUBSET {"sender", "operation"}]
  BY DEF Inv, TypeOK
<1>2. /\ delivered' = [delivered EXCEPT ![n] = Append(delivered[n], staging[n])]
      /\ holders' = [holders EXCEPT ![n] = holders[n] \ {"operation"}]
  BY DEF Deliver
<1>3. Append(delivered[n], staging[n]) = <<staging[n]>> /\ <<staging[n]>> \in Seq({Nothing} \cup Nodes)
  BY <1>1
<1> QED  BY <1>1, <1>2, <1>3

\* set_value hands over or keeps a result that nobody has had yet.
LEMMA CallReceiverNext == ASSUME Inv, NEW n \in Nodes, CallReceiver(n) PROVE Inv'
<1>1. /\ phase = "completing" /\ n \in Reads /\ n \notin called /\ called' = called \cup {n}
      /\ UNCHANGED <<completion, holders, delivered>> \/ (holders[n] # {} /\ SetValue(n))
      /\ Listening
  BY DEF CallReceiver, Expired, Listening, listenVars, graphVars, recordVars, deviceVars
<1>2. TypeOK /\ RecordInv /\ ListenInv /\ nodes' = nodes /\ staging' = staging /\ Reads' = Reads
      /\ recorded' = recorded
  BY <1>1, Static DEF Inv, Listening
<1>3. /\ delivered[n] = <<>> /\ completion[n] # "ResultValue"
      /\ called' \subseteq Reads /\ called' \subseteq DOMAIN nodes
  BY <1>1, <1>2 DEF ListenInv, Reads
<1>4. /\ completion \in [Nodes -> {"AwaitingResult", "OnResult", "ResultValue"}]
      /\ holders \in [Nodes -> SUBSET {"sender", "operation"}]
      /\ delivered \in [Nodes -> Seq({Nothing} \cup Nodes)]
      /\ \A m \in Reads : m \in Nodes /\ (m \in processed => m \in recorded \/ holders[m] = {})
  BY <1>2, Numbers DEF TypeOK, RecordInv, Reads
<1>5. CASE UNCHANGED <<completion, holders, delivered>>
  <2>1. ListenInv'
    BY <1>1, <1>2, <1>3, <1>5 DEF ListenInv
  <2> QED  BY <1>1, <1>3, <1>4, <1>5, <2>1, ListeningNext
<1>6. ASSUME holders[n] # {} PROVE n \in recorded
  <2>1. n \in processed
    BY <1>1 DEF Inv, PhaseInv, Reads
  <2> QED  BY <1>1, <1>4, <1>6, <2>1
<1>7. CASE holders[n] # {} /\ Deliver(n) /\ UNCHANGED completion
  <2>1. /\ delivered' = [delivered EXCEPT ![n] = <<staging[n]>>]
        /\ delivered' \in [Nodes -> Seq({Nothing} \cup Nodes)]
        /\ holders' \in [Nodes -> SUBSET {"sender", "operation"}]
        /\ \A m \in Nodes : holders[m] = {} => holders'[m] = {}
    BY <1>3, <1>7, Delivers
  <2>2. \A m \in Nodes : delivered'[m] = IF m = n THEN <<staging[n]>> ELSE delivered[m]
    BY <1>4, <2>1
  <2>3. ListenInv'
    BY <1>1, <1>2, <1>3, <1>7, <1>6, <2>2 DEF ListenInv
  <2> QED  BY <1>1, <1>3, <1>4, <1>7, <2>1, <2>3, ListeningNext
<1>8. CASE holders[n] # {} /\ completion' = [completion EXCEPT ![n] = "ResultValue"] /\ UNCHANGED <<holders, delivered>>
  <2>1. ListenInv'
    BY <1>1, <1>2, <1>3, <1>4, <1>8, <1>6 DEF ListenInv
  <2>2. completion' \in [Nodes -> {"AwaitingResult", "OnResult", "ResultValue"}]
    BY <1>4, <1>8
  <2> QED  BY <1>1, <1>3, <1>4, <1>8, <2>1, <2>2, ListeningNext
<1> QED  BY <1>1, <1>5, <1>7, <1>8 DEF SetValue

\* A listener that comes late gets the kept result, once.
LEMMA StartNext == ASSUME Inv, NEW n \in Nodes, Start(n) PROVE Inv'
<1>1. /\ delivered[n] = <<>> /\ completion[n] # "OnResult" /\ called' = called /\ Listening /\ holders[n] # {}
      /\ \/ completion[n] = "ResultValue" /\ Deliver(n) /\ UNCHANGED completion
         \/ /\ completion' = [completion EXCEPT ![n] = "OnResult"]
            /\ holders' = [holders EXCEPT ![n] = holders[n] \cup {"operation"}]
            /\ UNCHANGED delivered
  BY DEF Start, Listening, graphVars, recordVars, deviceVars
<1>2. TypeOK /\ RecordInv /\ ListenInv /\ nodes' = nodes /\ staging' = staging /\ Reads' = Reads
      /\ recorded' = recorded
  BY <1>1, Static DEF Inv, Listening
<1>3. /\ completion \in [Nodes -> {"AwaitingResult", "OnResult", "ResultValue"}]
      /\ holders \in [Nodes -> SUBSET {"sender", "operation"}]
      /\ delivered \in [Nodes -> Seq({Nothing} \cup Nodes)]
      /\ called \subseteq DOMAIN nodes
      /\ \A m \in Reads : m \in Nodes /\ (m \in processed => m \in recorded \/ holders[m] = {})
  BY <1>2, Numbers DEF TypeOK, RecordInv, Reads
<1>4. CASE completion[n] = "ResultValue" /\ Deliver(n) /\ UNCHANGED completion
  <2>1. /\ delivered' = [delivered EXCEPT ![n] = <<staging[n]>>]
        /\ delivered' \in [Nodes -> Seq({Nothing} \cup Nodes)]
        /\ holders' \in [Nodes -> SUBSET {"sender", "operation"}]
        /\ \A m \in Nodes : holders[m] = {} => holders'[m] = {}
    BY <1>1, <1>4, Delivers
  <2>2. \A m \in Nodes : delivered'[m] = IF m = n THEN <<staging[n]>> ELSE delivered[m]
    BY <1>3, <2>1
  <2>3. ListenInv'
    BY <1>1, <1>2, <1>4, <2>2 DEF ListenInv
  <2> QED  BY <1>1, <1>3, <1>4, <2>1, <2>3, ListeningNext
<1>5. CASE /\ completion' = [completion EXCEPT ![n] = "OnResult"]
           /\ holders' = [holders EXCEPT ![n] = holders[n] \cup {"operation"}]
           /\ UNCHANGED delivered
  <2>1. ListenInv'
    BY <1>1, <1>2, <1>3, <1>5 DEF ListenInv
  <2>2. completion' \in [Nodes -> {"AwaitingResult", "OnResult", "ResultValue"}]
    BY <1>3, <1>5
  <2>3. holders' \in [Nodes -> SUBSET {"sender", "operation"}]
    BY <1>3, <1>5
  <2>4. \A m \in Nodes : holders[m] = {} => holders'[m] = {}
    BY <1>1, <1>3, <1>5
  <2> QED  BY <1>1, <1>3, <1>5, <2>1, <2>2, <2>3, <2>4, ListeningNext
<1> QED  BY <1>1, <1>4, <1>5

\* A sender that is destroyed gives nobody a hold.
LEMMA DestroySenderNext == ASSUME Inv, NEW n \in Nodes, DestroySender(n) PROVE Inv'
<1>1. /\ called' = called /\ Listening /\ UNCHANGED <<completion, delivered>>
      /\ holders' = [holders EXCEPT ![n] = holders[n] \ {"sender"}]
  BY DEF DestroySender, Listening, graphVars, recordVars, deviceVars
<1>2. TypeOK /\ RecordInv /\ ListenInv /\ nodes' = nodes /\ staging' = staging
      /\ recorded' = recorded
  BY <1>1 DEF Inv, Listening
<1>3. /\ completion \in [Nodes -> {"AwaitingResult", "OnResult", "ResultValue"}]
      /\ holders \in [Nodes -> SUBSET {"sender", "operation"}]
      /\ delivered \in [Nodes -> Seq({Nothing} \cup Nodes)]
      /\ called \subseteq DOMAIN nodes
      /\ \A m \in Reads : m \in Nodes /\ (m \in processed => m \in recorded \/ holders[m] = {})
  BY <1>2, Numbers DEF TypeOK, RecordInv, Reads
<1>4. holders' \in [Nodes -> SUBSET {"sender", "operation"}]
  BY <1>1, <1>3
<1>5. \A m \in Reads : m \in processed => m \in recorded \/ holders'[m] = {}
  BY <1>1, <1>3
<1>6. ListenInv'
  BY <1>1, <1>2, Frames
<1> QED  BY <1>1, <1>3, <1>4, <1>5, <1>6, ListeningNext

------------------------------------------------------------------------------
(* Theorems *)

\* An empty graph.
LEMMA InvInit == Init => Inv
<1> SUFFICES ASSUME Init PROVE Inv
  OBVIOUS
<1>1. nodes = <<>> /\ DOMAIN nodes = {} /\ Len(nodes) = 0 /\ nodes \in Seq(CommandNode) /\ MaxNodes \in Nat
  BY GraphAssumption DEF Init, GraphAssumption
<1>2. Reads = {}
  BY <1>1 DEF Reads
<1>3. TypeOK
  <2>1. Undefined \in Layouts
    BY DEF Layouts, States, Layout, Undefined
  <2>2. delivered \in [Nodes -> Seq({Nothing} \cup Nodes)]
    BY DEF Init
  <2>3. barriers = [n \in Nodes |-> <<>>]
    BY DEF Init
  <2> QED  BY <1>1, <2>1, <2>2, <2>3 DEF Init, TypeOK
<1>4. NodesInv
  BY <1>1 DEF NodesInv
<1>5. PhaseInv
  BY DEF Init, PhaseInv
<1>6. RecordInv
  BY <1>2 DEF Init, RecordInv
<1>7. DeviceInv
  BY <1>1 DEF Init, DeviceInv, LayoutAt, ContentAt
<1>8. StagingInv
  BY <1>2 DEF StagingInv
<1>9. ListenInv
  BY DEF Init, ListenInv
<1> QED  BY <1>3, <1>4, <1>5, <1>6, <1>7, <1>8, <1>9 DEF Inv

\* Every step keeps the invariant.
LEMMA InvNext == ASSUME Inv, [Next]_vars PROVE Inv'
<1>1. CASE Adding
  BY <1>1, AddingNext
<1>2. CASE ExecuteGraph
  BY <1>2, ExecuteGraphNext
<1>3. CASE \E n \in Nodes : RecordNode(n)
  BY <1>3, RecordNodeNext
<1>4. CASE Submit \/ Signal
  BY <1>4, PhaseNext
<1>5. CASE ExecuteNode
  BY <1>5, ExecuteNodeNext
<1>6. CASE \E n \in Nodes : CallReceiver(n)
  BY <1>6, CallReceiverNext
<1>7. CASE \E n \in Nodes : Start(n)
  BY <1>7, StartNext
<1>8. CASE \E n \in Nodes : DestroySender(n)
  BY <1>8, DestroySenderNext
<1>9. CASE UNCHANGED vars
  <2>1. Listening /\ UNCHANGED <<called, completion, holders, delivered>> /\ nodes' = nodes
    BY <1>9 DEF vars, Listening, graphVars, recordVars, deviceVars, listenVars
  <2>2. ListenInv'
    BY <2>1, Frames DEF Listening
  <2> QED  BY <2>1, <2>2, ListeningNext DEF Inv, TypeOK, RecordInv
<1> QED  BY <1>1, <1>2, <1>3, <1>4, <1>5, <1>6, <1>7, <1>8, <1>9 DEF Next, Terminated

(* The inductive invariant holds of every graph.                           *)
THEOREM Invariance == Spec => []Inv
<1>1. Init => Inv
  BY InvInit
<1>2. Inv /\ [Next]_vars => Inv'
  BY InvNext
<1> QED  BY <1>1, <1>2, PTL DEF Spec

(* Every variable of the graph keeps its type; the index of every node     *)
(* that is named anywhere is that of a node there is.                      *)
THEOREM TypeCorrect == Spec => []TypeOK
<1>1. Inv => TypeOK
  BY DEF Inv
<1> QED  BY <1>1, Invariance, PTL

(* The transitions that BuildGraph and GetStateTransition work out, in any *)
(* order of recording, are those the device needs in its order of          *)
(* execution: but for a texture that misses the state of a skipped read,   *)
(* and one that a render list has twice.                                   *)
THEOREM LayoutsHold == Spec => []LayoutsMatch
<1>1. Inv => LayoutsMatch
  BY LayoutsAreRight
<1> QED  BY <1>1, Invariance, PTL

(* A listener of a read node gets one result, which is what the last node  *)
(* before it wrote, unless a render pass or a node between them lost it.   *)
THEOREM Results == Spec => []ReadsSeeLastWrite
<1>1. Inv => ReadsSeeLastWrite
  <2> SUFFICES ASSUME Inv, NEW n \in DOMAIN nodes
               PROVE  /\ Len(delivered[n]) <= 1
                      /\ \A i \in DOMAIN delivered[n] : Right(n, delivered[n][i])
    BY DEF ReadsSeeLastWrite, Right
  <2>1. n \in Nodes /\ n <= Len(nodes)
    BY Numbers DEF Inv
  <2>2. CASE delivered[n] = <<>>
    BY <2>2
  <2>3. CASE delivered[n] # <<>>
    <3>1. n \in called /\ n \in recorded /\ delivered[n] = <<staging[n]>>
      BY <2>1, <2>3 DEF Inv, ListenInv
    <3>2. n \in Reads /\ n <= numExecuted
      BY <2>1, <3>1 DEF Inv, ListenInv, PhaseInv
    <3>3. Right(n, staging[n])
      BY <3>1, <3>2 DEF Inv, StagingInv
    <3> QED  BY <3>1, <3>3
  <2> QED  BY <2>2, <2>3
<1> QED  BY <1>1, Invariance, PTL

=============================================================================
