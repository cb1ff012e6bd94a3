------------------------------- MODULE Arena --------------------------------
(***************************************************************************)
(* The node arena (GraphCore, Core, CoreWeak and ArenaNodePin of           *)
(* crates/graphrefly/src/node.rs): nodes live in recycled slots, a handle  *)
(* is a slot id plus a generation, counted handles share a reference count *)
(* and the running wave holds pins.  The last handle or the last pin frees *)
(* the slot.  Freeing runs user code (on_deactivation hooks, unsubscribes) *)
(* between taking the slot and recycling it, and afterwards drops the      *)
(* node's own handles on its dependencies, which may free those in turn.   *)
(*                                                                         *)
(* Nodes are numbered in order of allocation; the eight parallel slot      *)
(* vectors are filled and taken together, so one cell per slot stands for  *)
(* them and holds the node that occupies it.                               *)
(***************************************************************************)
EXTENDS Integers, Sequences, FiniteSets

CONSTANTS
    MaxNodes,   \* bound: allocations in a behaviour
    MaxHandles, \* bound: counted handles the user holds on one node
    MaxPins     \* bound: pins held on one node

ASSUME MaxNodesAssumption == MaxNodes \in Nat
ASSUME MaxHandlesAssumption == MaxHandles \in Nat
ASSUME MaxPinsAssumption == MaxPins \in Nat

VARIABLES
    \* GraphCore
    slot,        \* slot[id]: the node in the slot, NoNode when it was taken
    generation,  \* generations[id]
    pins,        \* pins[id]
    recycled,    \* the stack of recycled slot ids
    used,        \* slots.len()
    \* the nodes and the handles on them
    allocated,   \* number of nodes allocated so far
    key,         \* key[n]: the NodeKey of node n
    deps,        \* deps[n]: the nodes on which n's topology slot still holds a handle
    refs,        \* refs[n]: the shared counter of n's counted handles
    held,        \* held[n]: counted handles on n in user code
    pinned,      \* pinned[n]: ArenaNodePins on n
    freeing      \* the nested free_slot_if_unreferenced calls, innermost last

graphCore == <<slot, generation, pins, recycled, used>>
nodes == <<allocated, key, deps, refs, held, pinned>>
arenaVars == <<graphCore, nodes, freeing>>

Node == 1..MaxNodes
NoNode == 0
Id == 1..MaxNodes
NodeKey == [id : Id, generation : Nat]

ArenaTypeOK ==
    /\ slot \in [Id -> Node \cup {NoNode}]
    /\ generation \in [Id -> Nat]
    /\ pins \in [Id -> Nat]
    /\ recycled \in Seq(Id)
    /\ used \in 0..MaxNodes
    /\ allocated \in 0..MaxNodes
    /\ key \in [Node -> NodeKey]
    /\ deps \in [Node -> SUBSET Node]
    /\ refs \in [Node -> Nat]
    /\ held \in [Node -> Nat]
    /\ pinned \in [Node -> Nat]
    /\ freeing \in Seq([node : Node, phase : {"cleanup", "drop"}])

ArenaInit ==
    /\ slot = [i \in Id |-> NoNode]
    /\ generation = [i \in Id |-> 0]
    /\ pins = [i \in Id |-> 0]
    /\ recycled = <<>>
    /\ used = 0
    /\ allocated = 0
    /\ key = [n \in Node |-> [id |-> n, generation |-> 0]]
    /\ deps = [n \in Node |-> {}]
    /\ refs = [n \in Node |-> 0]
    /\ held = [n \in Node |-> 0]
    /\ pinned = [n \in Node |-> 0]
    /\ freeing = <<>>

-----------------------------------------------------------------------------
\* GraphCore::is_live_key
IsLiveKey(k) == generation[k.id] = k.generation /\ slot[k.id] # NoNode

\* GraphCore::pin_count, of the pin counts ps
PinCount(k, ps) == IF generation[k.id] = k.generation THEN ps[k.id] ELSE 0

FreeIfUnreferenced_IgnoresPins(n, frames) ==
    IF refs'[n] = 0 /\ IsLiveKey(key[n])
      THEN /\ slot' = [slot EXCEPT ![key[n].id] = NoNode]
           /\ freeing' = Append(frames, [node |-> n, phase |-> "cleanup"])
      ELSE UNCHANGED slot /\ freeing' = frames

(* free_slot_if_unreferenced after the counters changed: take the slot,    *)
(* when nobody refers to the node any more, and start its cleanup.  frames *)
(* is the call stack it runs on.                                           *)
FreeIfUnreferenced(n, frames) ==
    IF /\ refs'[n] = 0
       /\ PinCount(key[n], pins') = 0
       /\ IsLiveKey(key[n])
      THEN /\ slot' = [slot EXCEPT ![key[n].id] = NoNode]
           /\ freeing' = Append(frames, [node |-> n, phase |-> "cleanup"])
      ELSE UNCHANGED slot /\ freeing' = frames

(* User code runs at the top level and in cleanup callbacks, never while a *)
(* freed node's handles on its dependencies are being dropped.             *)
UserCode == freeing # <<>> => freeing[Len(freeing)].phase = "cleanup"

\* A counted handle whose node has not been released: Core::clone accepts it.
Usable(n) == held[n] > 0 /\ refs[n] # 0

\* The arms of GraphCore::alloc: reuse the last recycled slot under the next
\* generation, or push a new one.  Core::new holds the first handle, and the
\* topology slot one on each dependency.
ReuseSlot ==
    /\ recycled # <<>>
    /\ LET id == recycled[Len(recycled)]
           g == generation[id] + 1
       IN  /\ recycled' = SubSeq(recycled, 1, Len(recycled) - 1)
           /\ slot' = [slot EXCEPT ![id] = allocated + 1]
           /\ generation' = [generation EXCEPT ![id] = g]
           /\ pins' = [pins EXCEPT ![id] = 0]
           /\ key' = [key EXCEPT ![allocated + 1] = [id |-> id, generation |-> g]]
           /\ UNCHANGED used

PushNode ==
    /\ recycled = <<>>
    /\ LET id == used + 1 IN
         /\ used' = id
         /\ slot' = [slot EXCEPT ![id] = allocated + 1]
         /\ key' = [key EXCEPT ![allocated + 1] = [id |-> id, generation |-> 0]]
         /\ UNCHANGED <<recycled, generation, pins>>

Alloc(ds) ==
    /\ UserCode
    /\ allocated < MaxNodes
    /\ ReuseSlot \/ PushNode
    /\ allocated' = allocated + 1
    /\ deps' = [deps EXCEPT ![allocated + 1] = ds]
    /\ refs' = [n \in Node |-> IF n = allocated + 1 THEN 1
                               ELSE IF n \in ds THEN refs[n] + 1 ELSE refs[n]]
    /\ held' = [held EXCEPT ![allocated + 1] = 1]
    /\ UNCHANGED <<pinned, freeing>>

\* Core::clone; it panics, changing nothing, on a released node.
Clone(n) ==
    /\ UserCode
    /\ Usable(n)
    /\ held[n] < MaxHandles
    /\ held' = [held EXCEPT ![n] = @ + 1]
    /\ refs' = [refs EXCEPT ![n] = @ + 1]
    /\ UNCHANGED <<graphCore, allocated, key, deps, pinned, freeing>>

(* Drop for Core, of a counted handle on n, in the call stack frames.  The *)
(* counter of a released node is already 0 and stays there.                *)
DropCore(n, frames) ==
    /\ refs' = [refs EXCEPT ![n] = IF @ > 0 THEN @ - 1 ELSE 0]
    /\ UNCHANGED <<generation, pins, recycled, used, allocated, key, pinned>>
    /\ IF refs[n] = 1
         THEN FreeIfUnreferenced(n, frames)
         ELSE UNCHANGED slot /\ freeing' = frames

DropHandle(n) ==
    /\ UserCode
    /\ held[n] > 0
    /\ held' = [held EXCEPT ![n] = @ - 1]
    /\ DropCore(n, freeing)
    /\ UNCHANGED deps

(* ArenaNodePin::from_core and CoreWeak::pinned_borrowed_core: the wave    *)
(* pins a live node, reached through any handle, counted or weak.          *)
Pin(n) ==
    /\ UserCode
    /\ n <= allocated
    /\ IsLiveKey(key[n])
    /\ pinned[n] < MaxPins
    /\ pins' = [pins EXCEPT ![key[n].id] = @ + 1]
    /\ pinned' = [pinned EXCEPT ![n] = @ + 1]
    /\ UNCHANGED <<slot, generation, recycled, used, allocated, key, deps, refs, held, freeing>>

\* Drop for ArenaNodePin: release_pin, then free the slot if that was the
\* last reference.
Unpin(n) ==
    /\ UserCode
    /\ pinned[n] > 0
    /\ pinned' = [pinned EXCEPT ![n] = @ - 1]
    /\ pins' = IF generation[key[n].id] = key[n].generation /\ pins[key[n].id] > 0
                 THEN [pins EXCEPT ![key[n].id] = @ - 1]
                 ELSE pins
    /\ UNCHANGED <<generation, recycled, used, allocated, key, deps, refs, held>>
    /\ FreeIfUnreferenced(n, freeing)

(* Core::release_runtime_for_graph on an unpinned, quiescent node: the slot*)
(* is taken although user handles remain, and the counter drops to 0.      *)
Release(n) ==
    /\ UserCode
    /\ held[n] > 0
    /\ IsLiveKey(key[n])
    /\ PinCount(key[n], pins) = 0
    /\ refs' = [refs EXCEPT ![n] = 0]
    /\ slot' = [slot EXCEPT ![key[n].id] = NoNode]
    /\ freeing' = Append(freeing, [node |-> n, phase |-> "cleanup"])
    /\ UNCHANGED <<generation, pins, recycled, used, allocated, key, deps, held, pinned>>

(* cleanup_before_free is over, normally or by a panic (FreeSlotOnDrop):   *)
(* the slot id is recycled.                                                *)
FinishCleanup ==
    /\ freeing # <<>>
    /\ LET top == freeing[Len(freeing)] IN
         /\ top.phase = "cleanup"
         /\ recycled' = Append(recycled, key[top.node].id)
         /\ freeing' = [freeing EXCEPT ![Len(freeing)] = [node |-> top.node, phase |-> "drop"]]
    /\ UNCHANGED <<slot, generation, pins, used, nodes>>

\* The taken topology slot is dropped at the end of the call: one handle on a
\* dependency after another.
DropDepHandle(d) ==
    /\ freeing # <<>>
    /\ LET top == freeing[Len(freeing)] IN
         /\ top.phase = "drop"
         /\ d \in deps[top.node]
         /\ deps' = [deps EXCEPT ![top.node] = @ \ {d}]
    /\ DropCore(d, freeing)
    /\ UNCHANGED held

ReturnFromFree ==
    /\ freeing # <<>>
    /\ LET top == freeing[Len(freeing)] IN top.phase = "drop" /\ deps[top.node] = {}
    /\ freeing' = SubSeq(freeing, 1, Len(freeing) - 1)
    /\ UNCHANGED <<graphCore, nodes>>

ArenaNext ==
    \/ \E ds \in SUBSET {n \in Node : Usable(n)} : Alloc(ds)
    \/ \E n \in Node : Clone(n) \/ DropHandle(n) \/ Pin(n) \/ Unpin(n) \/ Release(n)
    \/ FinishCleanup
    \/ \E d \in Node : DropDepHandle(d)
    \/ ReturnFromFree

ArenaSpec == ArenaInit /\ [][ArenaNext]_arenaVars
-----------------------------------------------------------------------------
Live(n) == IsLiveKey(key[n])

(* A key resolves to the node it was issued for or not at all: a handle or *)
(* a weak reference that outlives its node never reaches the slot's next   *)
(* occupant (is_live_key).                                                 *)
StaleKeySafe == \A n \in 1..allocated : Live(n) => slot[key[n].id] = n

(* A node occupies its slot exactly as long as someone refers to it: it is *)
(* not freed under a handle or a pin, and it does not outlive the last of  *)
(* them, in whichever order handles, pins and releases go away.            *)
LiveIffReferenced ==
    \A n \in 1..allocated : Live(n) <=> refs[n] > 0 \/ pinned[n] > 0

Cleaning == {i \in 1..Len(freeing) : freeing[i].phase = "cleanup"}

(* An empty slot is recycled exactly once: it is on the free list or its   *)
(* cleanup is under way, not both and not twice, so two nodes are never    *)
(* given one slot, even when cleanup callbacks allocate and free nodes.    *)
SlotsExact ==
    /\ \A i, j \in 1..Len(recycled) : i # j => recycled[i] # recycled[j]
    /\ \A i, j \in Cleaning : i # j => key[freeing[i].node].id # key[freeing[j].node].id
    /\ \A id \in 1..used :
         slot[id] = NoNode <=>
            \/ \E i \in 1..Len(recycled) : recycled[i] = id
            \/ \E i \in Cleaning : key[freeing[i].node].id = id
    /\ \A i \in 1..Len(recycled) : \A j \in Cleaning : recycled[i] # key[freeing[j].node].id

(* The shared counter counts: unless the node was released, it is the      *)
(* number of the user's handles and of the nodes that still hold n as a    *)
(* dependency.                                                             *)
CounterExact ==
    \A n \in 1..allocated :
        refs[n] > 0 => refs[n] = held[n] + Cardinality({m \in 1..allocated : n \in deps[m]})

(* Handles are safe: a key reaches its own node or none (StaleKeySafe), a  *)
(* node lives as long as it is referred to and no longer                   *)
(* (LiveIffReferenced), its slot is recycled once (SlotsExact), and the    *)
(* counter behind all of this counts (CounterExact).                       *)
HandlesSafe == StaleKeySafe /\ LiveIffReferenced /\ SlotsExact /\ CounterExact
=============================================================================
