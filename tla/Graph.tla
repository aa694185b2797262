-------------------------------- MODULE Graph --------------------------------
(***************************************************************************)
(* Teide::VulkanGraph (VulkanGraph.h, VulkanGraph.cpp) and the results of  *)
(* its read nodes (Util/ListenSender.h): a graph of commands on textures   *)
(* is put together, its layout transitions are worked out and recorded,    *)
(* the device executes the command buffers, and the queue's thread hands   *)
(* the results of read nodes to whoever listens.                           *)
(*                                                                         *)
(* Threads: the one that makes and executes the graph, the clients that    *)
(* hold the senders of read nodes, the device, and the queue's thread. The *)
(* queue is as SubmitQueue says: the callback comes after the execution.   *)
(*                                                                         *)
(* What is read or written is the number of the command node that wrote    *)
(* it. Sizes, formats and names are left out. Every texture is in the      *)
(* graph; others are ignored by FindTexture. A node's targets are not      *)
(* among its own dependencies, which Vulkan forbids. Nobody in the library *)
(* calls set_stopped. A client starts its sender once, as all tests do.    *)
(***************************************************************************)
EXTENDS Integers, Sequences, FiniteSetsExt, Functions

CONSTANTS
    Textures,           \* the textures of the graph
    DepthTextures,      \* those with a depth format
    MaxNodes            \* bound on the number of command nodes

ASSUME GraphAssumption ==
    /\ DepthTextures \subseteq Textures
    /\ MaxNodes \in Nat

Nodes == 1..MaxNodes
Nothing == 0

CommandTypes == {"Write", "Read", "Render", "Dispatch", "Present"}

\* A TextureState: an image layout and the stage of its last use. The two that
\* are sampled have the same layout; the others differ in it.
Undefined == "Undefined"
States == {Undefined, "TransferDst", "TransferSrc", "SampledByFragment", "SampledByCompute",
           "Storage", "PresentSrc", "ColorTarget", "DepthTarget"}

Layout(state) ==
    IF state \in {"SampledByFragment", "SampledByCompute"} THEN "ShaderReadOnly" ELSE state

Layouts == {Layout(s) : s \in States}

\* A WriteNode, ReadNode, RenderNode, DispatchNode or PresentNode: what it
\* reads and what it writes. Its index is its place in nodes.
CommandNode == [type : CommandTypes, inputs : Seq(Textures), outputs : Seq(Textures)]

StateChange == [node : Nodes, expected : States, ensured : States]
Barrier == [texture : Textures, from : States, to : States]

VARIABLES
    phase,              \* what the graph's thread, the device or the queue is doing
    nodes,              \* the command nodes, in the order of their indices
    usage,              \* TextureNode::usage
    source,             \* TextureNode::source: the last node that writes a texture
    stateChanges,       \* TextureNode::stateChanges
    processed,          \* the nodes whose Process RecordCommands has called
    recorded,           \* the nodes whose commands have been recorded
    barriers,           \* the barriers at the start of each command buffer, by
                        \* the place of their texture in the node
    numExecuted,        \* command buffers executed
    layout,             \* device: the layout of each image
    content,            \* device: the node each image's content is from
    staging,            \* the content of each read node's stagingBuffer
    called,             \* the read nodes whose receivers the callback has called
    completion,         \* CompletionState of each read node
    holders,            \* who has a shared pointer to it
    delivered           \* history: what each read node's listener has been given

graphVars == <<nodes, usage, source, stateChanges>>
recordVars == <<processed, recorded, barriers>>
deviceVars == <<numExecuted, layout, content, staging>>
listenVars == <<completion, holders, delivered>>
vars == <<phase, graphVars, recordVars, deviceVars, called, listenVars>>

TypeOK ==
    /\ phase \in {"adding", "recording", "executing", "completing"}
    /\ nodes \in Seq(CommandNode) /\ Len(nodes) <= MaxNodes
    /\ usage \in [Textures -> SUBSET {"TransferDst", "TransferSrc", "Sampled", "Storage",
                                      "ColorAttachment", "DepthStencilAttachment"}]
    /\ source \in [Textures -> {Nothing} \cup DOMAIN nodes]
    /\ stateChanges \in [Textures -> SUBSET StateChange]
    /\ processed \subseteq DOMAIN nodes
    /\ recorded \subseteq processed
    /\ DOMAIN barriers = Nodes
    /\ \A n \in Nodes : \A i \in DOMAIN barriers[n] : barriers[n][i] \in Barrier
    /\ numExecuted \in 0..Len(nodes)
    /\ layout \in [Textures -> Layouts]
    /\ content \in [Textures -> {Nothing} \cup DOMAIN nodes]
    /\ staging \in [Nodes -> {Nothing} \cup Nodes]
    /\ called \subseteq DOMAIN nodes
    /\ completion \in [Nodes -> {"AwaitingResult", "OnResult", "ResultValue"}]
    /\ holders \in [Nodes -> SUBSET {"sender", "operation"}]
    /\ delivered \in [Nodes -> Seq({Nothing} \cup Nodes)]

Init ==
    /\ phase = "adding"
    /\ nodes = <<>>
    /\ usage = [t \in Textures |-> {}]
    /\ source = [t \in Textures |-> Nothing]
    /\ stateChanges = [t \in Textures |-> {}]
    /\ processed = {}
    /\ recorded = {}
    /\ barriers = [n \in Nodes |-> <<>>]
    /\ numExecuted = 0
    /\ layout = [t \in Textures |-> Undefined]
    /\ content = [t \in Textures |-> Nothing]
    /\ staging = [n \in Nodes |-> Nothing]
    /\ called = {}
    /\ completion = [n \in Nodes |-> "AwaitingResult"]
    /\ holders = [n \in Nodes |-> {}]
    /\ delivered = [n \in Nodes |-> <<>>]

------------------------------------------------------------------------------
(* Putting a graph together *)

\* Dispatch and present nodes are not finished ("TODO" in their Process): the
\* application uses a texture in one only as the texture's last use.
Usable(t) ==
    \A n \in DOMAIN nodes : nodes[n].type \in {"Dispatch", "Present"} =>
        t \notin Range(nodes[n].inputs) \cup Range(nodes[n].outputs)

\* NewCommandNode with its AddUsage and SetSource calls; flags[t] is what is
\* added to the usage of t.
NewCommandNode(node, flags) ==
    /\ phase = "adding"
    /\ Len(nodes) < MaxNodes
    /\ \A t \in Range(node.inputs) \cup Range(node.outputs) : Usable(t)
    /\ nodes' = Append(nodes, node)
    /\ usage' = [t \in Textures |-> usage[t] \cup flags[t]]
    /\ source' = [t \in Textures |-> IF t \in Range(node.outputs) THEN Len(nodes) + 1 ELSE source[t]]
    /\ UNCHANGED <<phase, stateChanges, recordVars, deviceVars, called, completion, delivered>>

Flags(ts, flag) == [t \in Textures |-> IF t \in ts THEN {flag} ELSE {}]

AddWriteNode(t) ==
    /\ NewCommandNode([type |-> "Write", inputs |-> <<>>, outputs |-> <<t>>], Flags({t}, "TransferDst"))
    /\ UNCHANGED holders

\* The sender is returned to the caller.
AddReadNode(t) ==
    /\ NewCommandNode([type |-> "Read", inputs |-> <<t>>, outputs |-> <<>>], Flags({t}, "TransferSrc"))
    /\ holders' = [holders EXCEPT ![Len(nodes) + 1] = {"sender"}]

AttachmentFlags(ts) ==
    [t \in Textures |->
        IF t \notin ts THEN {}
        ELSE IF t \in DepthTextures THEN {"DepthStencilAttachment"} ELSE {"ColorAttachment"}]

\* The dependencies are those BuildGraph finds in the render list
\* (AddTextureDependencies); the targets are a colour texture, a depth
\* texture or one of each. The usage of what is sampled is not recorded.
AddRenderNode(dependencies, targets) ==
    /\ NewCommandNode([type |-> "Render", inputs |-> dependencies, outputs |-> targets],
                      AttachmentFlags(Range(targets)))
    /\ UNCHANGED holders

AddDispatchNode(input, output) ==
    /\ NewCommandNode([type |-> "Dispatch", inputs |-> <<input>>, outputs |-> <<output>>],
                      [t \in Textures |-> Flags({input}, "Sampled")[t] \cup Flags({output}, "Storage")[t]])
    /\ UNCHANGED holders

AddPresentNode(t) ==
    /\ NewCommandNode([type |-> "Present", inputs |-> <<t>>, outputs |-> <<>>], Flags({}, "Storage"))
    /\ UNCHANGED holders

RenderTargets ==
    {<<c>> : c \in Textures} \cup {<<c, d>> : c \in Textures \ DepthTextures, d \in DepthTextures}

TextureLists(ts) ==
    {<<>>} \cup {<<t>> : t \in ts} \cup {<<t, u>> : t \in ts, u \in ts}

------------------------------------------------------------------------------
(* BuildGraph *)

\* The state in which a node of this type needs what it reads, needs what it
\* writes, and leaves what it writes.
InputState(type) ==
    CASE type = "Read"     -> "TransferSrc"
      [] type = "Render"   -> "SampledByFragment"
      [] type = "Dispatch" -> "SampledByCompute"
      [] type = "Present"  -> "PresentSrc"

OutputExpected(type) ==
    CASE type = "Write"    -> "TransferDst"
      [] type = "Render"   -> Undefined
      [] type = "Dispatch" -> "Storage"

OutputEnsured(type, t) ==
    CASE type = "Write"    -> "TransferDst"
      [] type = "Render"   -> IF t \in DepthTextures THEN "DepthTarget" ELSE "ColorTarget"
      [] type = "Dispatch" -> "Storage"

\* The changes of one texture. AddStateChange keeps them sorted by the nodes'
\* indices (lower_bound), whatever the order of adding: the set says as much. A
\* texture that a node reads twice has two equal ones, which no lookup tells
\* from one.
StateChangesOf(t) ==
    {[node |-> n, expected |-> InputState(nodes[n].type), ensured |-> InputState(nodes[n].type)] :
        n \in {m \in DOMAIN nodes : t \in Range(nodes[m].inputs)}}
    \cup
    {[node |-> n, expected |-> OutputExpected(nodes[n].type), ensured |-> OutputEnsured(nodes[n].type, t)] :
        n \in {m \in DOMAIN nodes : t \in Range(nodes[m].outputs)}}

BuildGraph == stateChanges' = [t \in Textures |-> StateChangesOf(t)]

------------------------------------------------------------------------------
(* RecordCommands *)

\* The images are created before the first node is processed: their layout is
\* undefined, as it is in Init.
ExecuteGraph ==
    /\ phase = "adding"
    /\ BuildGraph
    /\ phase' = "recording"
    /\ UNCHANGED <<nodes, usage, source, recordVars, deviceVars, called, listenVars>>

\* Mutant: std::ranges::upper_bound.
UpperBound(t, n) == {c \in stateChanges[t] : c.node > n}

\* From std::ranges::lower_bound on.
LowerBound(t, n) == {c \in stateChanges[t] : c.node >= n}

\* Mutant: every transition is from the undefined state.
PreviousUndefined(t, change) == Undefined

LastChange(changes) == CHOOSE c \in changes : \A d \in changes : d.node <= c.node

\* What the change before this one ensures.
PreviousState(t, change) ==
    LET before == {c \in stateChanges[t] : c.node < change.node} IN
    IF before = {} THEN Undefined ELSE LastChange(before).ensured

\* GetStateTransition. (No change at or after n: no transition.)
GetStateTransition(t, n) ==
    LET from == LowerBound(t, n)
        change == CHOOSE c \in from : \A d \in from : c.node <= d.node IN
    IF from = {} THEN [texture |-> t, from |-> Undefined, to |-> Undefined]
    ELSE [texture |-> t, from |-> PreviousState(t, change), to |-> change.expected]

\* VulkanTexture::Transition
Transition(transition) == transition.to # transition.from

Expired(n) == holders[n] = {}

\* Process does something: not for a read whose result nobody will get, nor
\* for the two types that are not finished.
Processed(n) ==
    \/ nodes[n].type \in {"Write", "Render"}
    \/ nodes[n].type = "Read" /\ ~Expired(n)

\* The textures whose state Process changes by a barrier. Render targets are
\* left to the render pass.
Transitioned(n) == IF nodes[n].type = "Write" THEN nodes[n].outputs ELSE nodes[n].inputs

BarriersOf(n) ==
    LET transition(i) == GetStateTransition(Transitioned(n)[i], n) IN
    [i \in {j \in DOMAIN Transitioned(n) : Transition(transition(j))} |-> transition(i)]

\* ForEachCommandNode goes through one list after the other; in each the nodes
\* are in the order of their indices.
ListOrder == [Write |-> 1, Read |-> 2, Render |-> 3, Dispatch |-> 4, Present |-> 5]

ListedBefore(m, n) ==
    LET listOf(k) == ListOrder[nodes[k].type] IN
    listOf(m) < listOf(n) \/ (listOf(m) = listOf(n) /\ m < n)

\* One call of Process.
RecordNode(n) ==
    /\ phase = "recording"
    /\ n \in DOMAIN nodes \ processed
    /\ \A m \in DOMAIN nodes \ processed : ~ListedBefore(m, n)
    /\ IF Processed(n)
       THEN /\ recorded' = recorded \cup {n}
            /\ barriers' = [barriers EXCEPT ![n] = BarriersOf(n)]
       ELSE UNCHANGED <<recorded, barriers>>
    /\ processed' = processed \cup {n}
    /\ UNCHANGED <<phase, graphVars, deviceVars, called, listenVars>>

Submit ==
    /\ phase = "recording"
    /\ processed = DOMAIN nodes
    /\ phase' = "executing"
    /\ UNCHANGED <<graphVars, recordVars, deviceVars, called, listenVars>>

------------------------------------------------------------------------------
(* The device *)

BarriersOn(n, t) == {i \in DOMAIN barriers[n] : barriers[n][i].texture = t}

\* The layout of t after these of the barriers on it.
LayoutAfter(n, t, done) == IF done = {} THEN layout[t] ELSE Layout(barriers[n][Max(done)].to)

LayoutAfterBarriers(n, t) == LayoutAfter(n, t, BarriersOn(n, t))

\* A barrier names the layout the image is in, or the undefined one.
MatchingBarriers(n, t) ==
    \A i \in BarriersOn(n, t) :
        Layout(barriers[n][i].from) \in {Undefined, LayoutAfter(n, t, {j \in BarriersOn(n, t) : j < i})}

\* A barrier from the undefined layout, or a wrong one, loses the content.
ContentAfterBarriers(n, t) ==
    IF MatchingBarriers(n, t) /\ \A i \in BarriersOn(n, t) : barriers[n][i].from # Undefined
    THEN content[t] ELSE Nothing

\* What of the targets is kept after a node. The store operation of a render
\* pass is eDontCare, as AddRenderNode sets neither captureColor nor
\* captureDepthStencil: each target may keep what was rendered or not.
Kept(n) == IF nodes[n].type = "Render" THEN SUBSET Range(nodes[n].outputs) ELSE {Range(nodes[n].outputs)}

\* The command buffers are executed in order. A render pass begins with its
\* targets undefined and leaves them as attachments; copies and draws use the
\* layouts of the node's states.
ExecuteNode ==
    /\ phase = "executing"
    /\ numExecuted < Len(nodes)
    /\ LET n == numExecuted + 1
           written == IF n \in recorded THEN Range(nodes[n].outputs) ELSE {} IN
        /\ layout' = [t \in Textures |->
                IF t \in written THEN OutputEnsured(nodes[n].type, t) ELSE LayoutAfterBarriers(n, t)]
        /\ \E kept \in Kept(n) : content' = [t \in Textures |->
                IF t \notin written THEN ContentAfterBarriers(n, t) ELSE IF t \in kept THEN n ELSE Nothing]
        /\ staging' = IF n \in recorded /\ nodes[n].type = "Read"
                      THEN [staging EXCEPT ![n] = ContentAfterBarriers(n, nodes[n].inputs[1])]
                      ELSE staging
    /\ numExecuted' = numExecuted + 1
    /\ UNCHANGED <<phase, graphVars, recordVars, called, listenVars>>

Signal ==
    /\ phase = "executing"
    /\ numExecuted = Len(nodes)
    /\ phase' = "completing"
    /\ UNCHANGED <<graphVars, recordVars, deviceVars, called, listenVars>>

------------------------------------------------------------------------------
(* Listening *)

Deliver(n) ==
    /\ delivered' = [delivered EXCEPT ![n] = Append(@, staging[n])]
    /\ holders' = [holders EXCEPT ![n] = @ \ {"operation"}]

\* Mutant: a result that comes before the listener is dropped.
SetValueDrops(n) ==
    IF completion[n] = "OnResult"
    THEN Deliver(n) /\ UNCHANGED completion
    ELSE UNCHANGED listenVars

\* CompletionState::SetValue
SetValue(n) ==
    IF completion[n] = "OnResult"
    THEN Deliver(n) /\ UNCHANGED completion
    ELSE completion' = [completion EXCEPT ![n] = "ResultValue"] /\ UNCHANGED <<holders, delivered>>

Reads == {n \in DOMAIN nodes : nodes[n].type = "Read"}

\* The callback given to Queue::Submit calls set_value for each read node in
\* turn, which does nothing if the completion state is gone.
CallReceiver(n) ==
    /\ phase = "completing"
    /\ n \in Reads \ called
    /\ \A m \in Reads \ called : n <= m
    /\ IF Expired(n) THEN UNCHANGED listenVars ELSE SetValue(n)
    /\ called' = called \cup {n}
    /\ UNCHANGED <<phase, graphVars, recordVars, deviceVars>>

\* The sender is connected and the operation started (SetReceiver): the
\* result is there already, or will be handed over when it comes. A sender
\* is started once; one started again would be given a moved-from value.
Start(n) ==
    /\ "sender" \in holders[n]
    /\ completion[n] # "OnResult"
    /\ delivered[n] = <<>>
    /\ IF completion[n] = "ResultValue"
       THEN Deliver(n) /\ UNCHANGED completion
       ELSE /\ completion' = [completion EXCEPT ![n] = "OnResult"]
            /\ holders' = [holders EXCEPT ![n] = @ \cup {"operation"}]
            /\ UNCHANGED delivered
    /\ UNCHANGED <<phase, graphVars, recordVars, deviceVars, called>>

DestroySender(n) ==
    /\ "sender" \in holders[n]
    /\ holders' = [holders EXCEPT ![n] = @ \ {"sender"}]
    /\ UNCHANGED <<phase, graphVars, recordVars, deviceVars, called, completion, delivered>>

\* The graph has been executed and its results handed over.
Terminated ==
    /\ phase = "completing"
    /\ called = Reads
    /\ UNCHANGED vars

------------------------------------------------------------------------------

Adding ==
    \/ \E t \in Textures : AddWriteNode(t) \/ AddReadNode(t) \/ AddPresentNode(t)
    \/ \E targets \in RenderTargets :
        \E dependencies \in TextureLists(Textures \ Range(targets)) : AddRenderNode(dependencies, targets)
    \/ \E input, output \in Textures : input # output /\ AddDispatchNode(input, output)

Next ==
    \/ Adding
    \/ ExecuteGraph
    \/ \E n \in Nodes : RecordNode(n)
    \/ Submit
    \/ ExecuteNode
    \/ Signal
    \/ \E n \in Nodes : CallReceiver(n) \/ Start(n) \/ DestroySender(n)
    \/ Terminated

Spec == Init /\ [][Next]_vars

\* ExecuteGraph returns once it is called, the device executes what is
\* submitted, and the queue's thread calls the callback.
Fairness == WF_vars(Submit \/ ExecuteNode \/ Signal \/ \E n \in Nodes : RecordNode(n) \/ CallReceiver(n))

FairSpec == Spec /\ Fairness

------------------------------------------------------------------------------
(* Properties *)

\* The textures that node n reads or writes.
Uses(n) == Range(nodes[n].inputs) \cup Range(nodes[n].outputs)

\* A read that nobody waits for is not recorded, though BuildGraph has worked
\* out the transitions of the other nodes as if it were.
Skipped(n) == n \in processed \ recorded /\ nodes[n].type = "Read"

\* A render list that has one texture in two places gives its node two equal
\* barriers on it, and the second does not name the layout the first leaves.
BoundTwice(t, n) ==
    \E i, j \in DOMAIN nodes[n].inputs : i # j /\ nodes[n].inputs[i] = t /\ nodes[n].inputs[j] = t

\* A read of t was skipped, and of the first k nodes only reads have used t
\* since.
Missed(t, k) ==
    \E m \in 1..k :
        /\ Skipped(m) /\ t \in Range(nodes[m].inputs)
        /\ \A j \in m + 1 .. k : t \in Uses(j) => nodes[j].type = "Read"

\* One of the nodes from first to last may make t lose its content.
Upset(t, first, last) ==
    \E m \in first..last : BoundTwice(t, m) \/ (Skipped(m) /\ t \in Range(nodes[m].inputs))

\* Every command is executed with its image in the layout it is recorded for:
\* barriers name the layout the image is in (or the undefined one), and a copy
\* or draw finds what it reads or copies to in the state of its node. The
\* transitions are worked out from a list that BuildGraph fills by type of
\* node, not in the order of execution. The only exceptions are the first
\* transition of a texture after a read that is skipped, with the reads before
\* it, and the barriers on a texture that a render list has twice.
LayoutsMatch ==
    phase = "executing" /\ numExecuted < Len(nodes) =>
        LET n == numExecuted + 1 IN
        n \in recorded => \A t \in Textures : ~Missed(t, numExecuted) =>
            /\ MatchingBarriers(n, t) \/ BoundTwice(t, n)
            /\ t \in Range(nodes[n].inputs) => LayoutAfterBarriers(n, t) = Layout(InputState(nodes[n].type))
            /\ nodes[n].type = "Write" /\ t \in Range(nodes[n].outputs) => LayoutAfterBarriers(n, t) = "TransferDst"

LastWriter(n) ==
    LET writers == {m \in 1 .. n - 1 : Range(nodes[m].outputs) \cap Range(nodes[n].inputs) # {}} IN
    IF writers = {} THEN Nothing ELSE CHOOSE m \in writers : \A k \in writers : k <= m

\* The listener of a read node gets one result, whether it listens before or
\* after the result is there, and the result is what the last node before it
\* wrote: no transition on the way discards the content. (What was rendered may
\* have been discarded by the render pass; else something between the two nodes
\* has upset the texture.)
ReadsSeeLastWrite ==
    \A n \in DOMAIN nodes :
        /\ Len(delivered[n]) <= 1
        /\ \A i \in DOMAIN delivered[n] :
            \/ delivered[n][i] = LastWriter(n)
            \/ /\ delivered[n][i] = Nothing
               /\ \/ nodes[LastWriter(n)].type = "Render"
                  \/ Upset(nodes[n].inputs[1], LastWriter(n) + 1, n - 1)

\* Whoever listens for the result of a read node of a graph that is executed
\* gets it.
ListenersAreServed ==
    \A n \in Nodes :
        (completion[n] = "OnResult" /\ phase # "adding") ~> delivered[n] # <<>>

==============================================================================
