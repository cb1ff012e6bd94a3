----------------------------- MODULE ArenaProofs ----------------------------
(***************************************************************************)
(* Handles are safe for every number of nodes, handles and pins: a key     *)
(* never reaches the next occupant of its slot, a node lives exactly as    *)
(* long as it is referred to, a slot is recycled once, and the shared      *)
(* counter counts.                                                         *)
(***************************************************************************)
EXTENDS Arena, SequenceTheorems, FiniteSetTheorems, TLAPS

Issued == 1..allocated
Holders(n) == {m \in Issued : n \in deps[m]}

\* An occupied slot knows its node, whose key is the current key of the slot.
Owners ==
    \A id \in Id : slot[id] # NoNode =>
        slot[id] \in Issued /\ key[slot[id]] = [id |-> id, generation |-> generation[id]]

\* Keys are of slots in use and not ahead of them, and no two nodes share one.
Keys ==
    /\ \A n \in Issued : key[n].id \in 1..used /\ key[n].generation <= generation[key[n].id]
    /\ \A n, m \in Issued : key[n] = key[m] => n = m

\* Slots that were never handed out are blank, and slots are not handed out before nodes.
BlankSlots ==
    /\ used <= allocated
    /\ \A id \in Id : id > used => slot[id] = NoNode /\ generation[id] = 0
    /\ \A i \in 1..Len(recycled) : recycled[i] \in 1..used
    /\ \A i \in 1..Len(freeing) : freeing[i].node \in Issued

\* So are nodes that were not allocated yet, and nobody depends on them.
BlankNodes ==
    /\ \A n \in Node : n > allocated => refs[n] = 0 /\ held[n] = 0 /\ pinned[n] = 0 /\ deps[n] = {}
    /\ \A n \in Node : deps[n] \subseteq Issued

\* The pins of a slot are the pins on its node; an empty slot has none.
PinsExact == \A id \in Id : pins[id] = IF slot[id] = NoNode THEN 0 ELSE pinned[slot[id]]

\* The invariant has a side that only slots, keys and free list matter for, and one of the counters.
SlotSide == Owners /\ Keys /\ BlankSlots /\ SlotsExact
CountSide == BlankNodes /\ PinsExact /\ LiveIffReferenced /\ CounterExact
IInv == ArenaTypeOK /\ SlotSide /\ CountSide

slotView == <<slot, generation, recycled, used, allocated, key, freeing>>
Count(n) == held[n] + Cardinality(Holders(n))
Frame == [node : Node, phase : {"cleanup", "drop"}]

-----------------------------------------------------------------------------
(* Appending keeps the elements already there.                             *)
LEMMA AppendSeq ==
    ASSUME NEW S, NEW s \in Seq(S), NEW v \in S
    PROVE  /\ Append(s, v) \in Seq(S)
           /\ Len(s) \in Nat
           /\ Len(Append(s, v)) = Len(s) + 1
           /\ Append(s, v)[Len(s) + 1] = v
           /\ \A j \in 1..Len(s) : Append(s, v)[j] = s[j]
OBVIOUS

(* Popping the last element keeps the others.                              *)
LEMMA PopSeq ==
    ASSUME NEW S, NEW s \in Seq(S), s # <<>>
    PROVE  /\ Len(s) \in Nat \ {0}
           /\ s[Len(s)] \in S
           /\ SubSeq(s, 1, Len(s) - 1) \in Seq(S)
           /\ Len(SubSeq(s, 1, Len(s) - 1)) = Len(s) - 1
           /\ \A j \in 1..(Len(s) - 1) : SubSeq(s, 1, Len(s) - 1)[j] = s[j]
<1>1. Len(s) \in Nat \ {0}
  OBVIOUS
<1> DEFINE m == Len(s) - 1
<1>2. m \in Nat /\ m = Len(s) - 1 /\ \A i \in 1..m : s[i] \in S
  BY <1>1
<1> HIDE DEF m
<1>3. /\ SubSeq(s, 1, m) \in Seq(S)
      /\ Len(SubSeq(s, 1, m)) = IF 1 <= m THEN m - 1 + 1 ELSE 0
      /\ \A i \in 1..m - 1 + 1 : SubSeq(s, 1, m)[i] = s[1 + i - 1]
  BY <1>2, SubSeqProperties
<1>4. Len(SubSeq(s, 1, m)) = m /\ \A i \in 1..m : SubSeq(s, 1, m)[i] = s[i]
  BY <1>2, <1>3
<1>5. s[Len(s)] \in S
  BY <1>1
<1>6. QED
  BY <1>1, <1>2, <1>3, <1>4, <1>5

(* Replacing one element keeps the others.                                 *)
LEMMA PutSeq ==
    ASSUME NEW S, NEW s \in Seq(S), NEW i \in 1..Len(s), NEW v \in S
    PROVE  /\ [s EXCEPT ![i] = v] \in Seq(S)
           /\ Len([s EXCEPT ![i] = v]) = Len(s)
           /\ [s EXCEPT ![i] = v][i] = v
           /\ \A j \in 1..Len(s) : j # i => [s EXCEPT ![i] = v][j] = s[j]
BY ExceptSeq

(* The nodes that hold a dependency are finitely many.                     *)
LEMMA HoldersFinite ==
    ASSUME allocated \in Nat, NEW n
    PROVE  IsFiniteSet(Holders(n)) /\ Cardinality(Holders(n)) \in Nat
<1>1. IsFiniteSet(Issued)
  BY FS_Interval DEF Issued
<1>2. Holders(n) \in SUBSET Issued
  BY DEF Holders
<1>3. QED
  BY <1>1, <1>2, FS_Subset, FS_CardinalityType

(* The initial arena is empty.                                             *)
LEMMA InitInv == ArenaInit => IInv
<1> SUFFICES ASSUME ArenaInit PROVE IInv
  OBVIOUS
<1> USE MaxNodesAssumption
<1>1. ArenaTypeOK
  <2>1. \A n \in Node : [id |-> n, generation |-> 0] \in NodeKey
    BY DEF Node, NodeKey, Id
  <2>2. freeing \in Seq([node : Node, phase : {"cleanup", "drop"}]) /\ recycled \in Seq(Id)
    BY DEF ArenaInit
  <2>3. QED
    BY <2>1, <2>2 DEF ArenaInit, ArenaTypeOK
<1>2. Issued = {} /\ 1..used = {} /\ Len(recycled) = 0 /\ Len(freeing) = 0 /\ Cleaning = {}
  BY DEF ArenaInit, Issued, Cleaning
<1>3. Owners /\ Keys /\ PinsExact
  BY <1>2 DEF ArenaInit, Owners, Keys, PinsExact
<1>4. BlankSlots /\ BlankNodes
  BY <1>2 DEF ArenaInit, BlankSlots, BlankNodes
<1>5. LiveIffReferenced /\ CounterExact
  BY <1>2 DEF LiveIffReferenced, CounterExact, Issued
<1>6. SlotsExact
  BY <1>2 DEF SlotsExact, ArenaInit
<1>7. QED
  BY <1>1, <1>3, <1>4, <1>5, <1>6 DEF IInv, SlotSide, CountSide

-----------------------------------------------------------------------------
(* What a step does to slots, keys and the free list                       *)

(* A key is live exactly when its slot holds its node.                     *)
LEMMA LiveMeansOwner ==
    ASSUME ArenaTypeOK, Owners, Keys, NEW n \in Issued
    PROVE  Live(n) <=> slot[key[n].id] = n
<1> n \in Node /\ key[n] \in NodeKey /\ key[n].id \in Id /\ n # NoNode
  BY MaxNodesAssumption DEF ArenaTypeOK, Issued, Node, NodeKey, NoNode
<1>1. ASSUME Live(n) PROVE slot[key[n].id] = n
  <2>1. slot[key[n].id] \in Issued /\ key[slot[key[n].id]] = [id |-> key[n].id, generation |-> generation[key[n].id]]
    BY <1>1 DEF Owners, Live, IsLiveKey
  <2>2. key[slot[key[n].id]] = key[n]
    BY <2>1, <1>1 DEF Live, IsLiveKey, NodeKey
  <2>3. QED
    BY <2>1, <2>2 DEF Keys
<1>2. ASSUME slot[key[n].id] = n PROVE Live(n)
  <2>1. key[n] = [id |-> key[n].id, generation |-> generation[key[n].id]]
    BY <1>2 DEF Owners
  <2>2. QED
    BY <2>1, <1>2 DEF Live, IsLiveKey
<1>3. QED
  BY <1>1, <1>2

(* What the type invariant says of single values.                          *)
LEMMA Types ==
    ASSUME ArenaTypeOK
    PROVE  /\ allocated \in Nat /\ used \in Nat /\ allocated <= MaxNodes /\ used <= MaxNodes
           /\ Issued \subseteq Node /\ NoNode \notin Node /\ Id = Node /\ 1..used \subseteq Id
           /\ \A n \in Node : key[n] \in NodeKey /\ key[n].id \in Id /\ key[n].generation \in Nat
           /\ \A n \in Node : refs[n] \in Nat /\ held[n] \in Nat /\ pinned[n] \in Nat
           /\ \A id \in Id : generation[id] \in Nat /\ pins[id] \in Nat /\ slot[id] \in Node \cup {NoNode}
           /\ Len(recycled) \in Nat /\ Len(freeing) \in Nat
           /\ \A i \in 1..Len(freeing) : freeing[i] \in Frame /\ freeing[i].node \in Node
<1> USE MaxNodesAssumption
<1>1. allocated \in Nat /\ used \in Nat /\ allocated <= MaxNodes /\ used <= MaxNodes
  BY DEF ArenaTypeOK
<1>2. Issued \subseteq Node /\ NoNode \notin Node /\ Id = Node /\ 1..used \subseteq Id
  BY <1>1 DEF Issued, Node, NoNode, Id
<1>3. \A n \in Node : key[n] \in NodeKey
  BY DEF ArenaTypeOK
<1>4. \A n \in Node : key[n].id \in Id /\ key[n].generation \in Nat
  BY <1>3 DEF NodeKey
<1>5. \A n \in Node : refs[n] \in Nat /\ held[n] \in Nat /\ pinned[n] \in Nat
  BY DEF ArenaTypeOK
<1>6. \A id \in Id : generation[id] \in Nat /\ pins[id] \in Nat /\ slot[id] \in Node \cup {NoNode}
  BY DEF ArenaTypeOK
<1>7. recycled \in Seq(Id) /\ freeing \in Seq(Frame)
  BY DEF ArenaTypeOK, Frame
<1>8. Len(recycled) \in Nat /\ Len(freeing) \in Nat /\ \A i \in 1..Len(freeing) : freeing[i] \in Frame
  BY <1>7
<1>9. \A f \in Frame : f.node \in Node
  BY DEF Frame
<1>10. QED
  BY <1>1, <1>2, <1>3, <1>4, <1>5, <1>6, <1>8, <1>9

(* A step that leaves slots, keys and stack alone.                         *)
LEMMA SameSlots ==
    ASSUME SlotSide, UNCHANGED slotView
    PROVE  SlotSide' /\ \A m \in Node : Live(m)' <=> Live(m)
<1>1. Owners' /\ Keys' /\ BlankSlots'
  BY DEF SlotSide, slotView, Owners, Keys, BlankSlots, Issued
<1>2. SlotsExact'
  BY DEF SlotSide, slotView, SlotsExact, Cleaning
<1>3. \A m \in Node : Live(m)' <=> Live(m)
  BY DEF slotView, Live, IsLiveKey
<1>4. QED
  BY <1>1, <1>2, <1>3 DEF SlotSide

(* A step that takes the slot of a live node and starts its cleanup.       *)
LEMMA TakeSlot ==
    ASSUME ArenaTypeOK, SlotSide, NEW n \in Issued, Live(n),
           slot' = [slot EXCEPT ![key[n].id] = NoNode],
           freeing' = Append(freeing, [node |-> n, phase |-> "cleanup"]),
           UNCHANGED <<generation, recycled, used, allocated, key>>
    PROVE  /\ SlotSide'
           /\ slot' \in [Id -> Node \cup {NoNode}]
           /\ freeing' \in Seq(Frame)
           /\ slot'[key[n].id] = NoNode
           /\ \A id \in Id : id # key[n].id => slot'[id] = slot[id]
           /\ \A m \in Issued : Live(m)' <=> Live(m) /\ m # n
<1> DEFINE home == key[n].id
           fr == [node |-> n, phase |-> "cleanup"]
<1> USE Types
<1>1. n \in Node /\ home \in Id /\ home \in 1..used /\ slot[home] = n /\ n # NoNode
  BY LiveMeansOwner DEF SlotSide, Keys
<1>2. slot' \in [Id -> Node \cup {NoNode}] /\ slot'[home] = NoNode
      /\ \A id \in Id : id # home => slot'[id] = slot[id]
  BY <1>1 DEF ArenaTypeOK
<1>3. fr \in Frame /\ fr.node = n /\ fr.phase = "cleanup" /\ freeing \in Seq(Frame)
  BY <1>1 DEF Frame, ArenaTypeOK
<1>4. /\ freeing' \in Seq(Frame)
      /\ Len(freeing') = Len(freeing) + 1
      /\ freeing'[Len(freeing) + 1] = fr
      /\ \A j \in 1..Len(freeing) : freeing'[j] = freeing[j]
  BY <1>3, AppendSeq
<1> HIDE DEF fr, home
<1>5. Owners'
  BY <1>1, <1>2 DEF SlotSide, Owners, Issued
<1>6. Keys'
  BY DEF SlotSide, Keys, Issued
<1>7. BlankSlots'
  <2>1. \A id \in Id : id > used => slot'[id] = NoNode
    BY <1>2 DEF SlotSide, BlankSlots
  <2>2. \A i \in 1..Len(freeing') : freeing'[i].node \in Issued
    BY <1>3, <1>4 DEF SlotSide, BlankSlots
  <2>3. QED
    BY <2>1, <2>2 DEF SlotSide, BlankSlots, Issued
<1>8. Cleaning' = Cleaning \cup {Len(freeing) + 1} /\ Cleaning \subseteq 1..Len(freeing)
  BY <1>3, <1>4 DEF Cleaning
<1>9. /\ \A i \in 1..Len(recycled) : recycled[i] # home
      /\ \A i \in Cleaning : key[freeing[i].node].id # home
  BY <1>1 DEF SlotSide, SlotsExact
<1>10. /\ \A i \in Cleaning : key'[freeing'[i].node].id = key[freeing[i].node].id
       /\ key'[freeing'[Len(freeing) + 1].node].id = home
  BY <1>3, <1>4, <1>8 DEF home
<1>11. SlotsExact'
  <2>1. \A i, j \in 1..Len(recycled') : i # j => recycled'[i] # recycled'[j]
    BY DEF SlotSide, SlotsExact
  <2>2. \A i, j \in Cleaning' : i # j => key'[freeing'[i].node].id # key'[freeing'[j].node].id
    BY <1>8, <1>9, <1>10 DEF SlotSide, SlotsExact
  <2>3. \A i \in 1..Len(recycled') : \A j \in Cleaning' : recycled'[i] # key'[freeing'[j].node].id
    BY <1>8, <1>9, <1>10 DEF SlotSide, SlotsExact
  <2>4. ASSUME NEW id \in 1..used
        PROVE  slot'[id] = NoNode <=>
                 \/ \E i \in 1..Len(recycled) : recycled[i] = id
                 \/ \E i \in Cleaning' : key'[freeing'[i].node].id = id
    <3>1. slot[id] = NoNode <=>
                 \/ \E i \in 1..Len(recycled) : recycled[i] = id
                 \/ \E i \in Cleaning : key[freeing[i].node].id = id
      BY DEF SlotSide, SlotsExact
    <3>2. (\E i \in Cleaning' : key'[freeing'[i].node].id = id)
             <=> id = home \/ \E i \in Cleaning : key[freeing[i].node].id = id
      BY <1>8, <1>10
    <3>3. QED
      BY <3>1, <3>2, <1>2
  <2>5. QED
    BY ZenonT(30), <2>1, <2>2, <2>3, <2>4 DEF SlotsExact
<1>12. \A m \in Issued : Live(m)' <=> Live(m) /\ m # n
  <2>1. Owners' /\ Keys' /\ Issued' = Issued
    BY <1>5, <1>6 DEF Issued
  <2>2. \A m \in Issued : Live(m) <=> slot[key[m].id] = m
    BY LiveMeansOwner DEF SlotSide
  <2>3. \A m \in Issued : Live(m)' <=> generation[key[m].id] = key[m].generation /\ slot'[key[m].id] # NoNode
    BY DEF Live, IsLiveKey
  <2>4. \A m \in Issued : Live(m) <=> generation[key[m].id] = key[m].generation /\ slot[key[m].id] # NoNode
    BY DEF Live, IsLiveKey
  <2>5. \A m \in Issued : key[m].id = home /\ Live(m) => m = n
    BY <2>2, <1>1
  <2>6. QED
    BY <2>3, <2>4, <2>5, <1>1, <1>2 DEF home
<1>13. QED
  BY <1>2, <1>4, <1>5, <1>6, <1>7, <1>11, <1>12 DEF SlotSide, home

-----------------------------------------------------------------------------
(* What a step does to the counters                                        *)

(* The counter clause in terms of Count.                                   *)
LEMMA CounterExactCount ==
    CounterExact <=> \A n \in Issued : refs[n] > 0 => refs[n] = Count(n)
BY DEF CounterExact, Count, Holders, Issued

(* Pins are the ones on the node that occupies the slot.                   *)
LEMMA PinsOfLive ==
    ASSUME IInv, NEW n \in Issued, Live(n)
    PROVE  /\ slot[key[n].id] = n
           /\ generation[key[n].id] = key[n].generation
           /\ pins[key[n].id] = pinned[n]
<1>1. slot[key[n].id] = n /\ generation[key[n].id] = key[n].generation
  BY LiveMeansOwner DEF IInv, SlotSide, Live, IsLiveKey
<1>2. n \in Node /\ n # NoNode /\ key[n].id \in Id
  BY Types DEF IInv
<1>3. QED
  BY <1>1, <1>2 DEF IInv, CountSide, PinsExact

(* Dropping a counted handle on n, wherever it was held, keeps the         *)
(* invariant if one handle less is left.                                   *)
LEMMA DropCoreInv ==
    ASSUME IInv, NEW n \in Issued, DropCore(n, freeing),
           held' \in [Node -> Nat], deps' \in [Node -> SUBSET Node],
           \A m \in Node : m > allocated => held'[m] = 0 /\ deps'[m] = {},
           \A m \in Node : deps'[m] \subseteq Issued,
           Count(n) \in Nat, Count(n)' = Count(n) - 1,
           \A m \in Issued : m # n => Count(m)' = Count(m)
    PROVE  IInv'
<1> DEFINE home == key[n].id
<1>t. ArenaTypeOK /\ SlotSide /\ CountSide
  BY DEF IInv
<1>n. n \in Node /\ home \in Id /\ n # NoNode /\ Issued \subseteq Node /\ allocated \in Nat /\ n <= allocated
  BY <1>t, Types DEF Issued
<1>u. UNCHANGED <<generation, pins, recycled, used, allocated, key, pinned>> /\ Issued' = Issued
  BY DEF DropCore, Issued
<1>r. /\ refs' \in [Node -> Nat]
      /\ refs'[n] = IF refs[n] > 0 THEN refs[n] - 1 ELSE 0
      /\ \A m \in Node : m # n => refs'[m] = refs[m]
  BY <1>n, <1>t DEF DropCore, ArenaTypeOK
<1>nat. \A m \in Node : refs[m] \in Nat /\ pinned[m] \in Nat
  BY <1>t, Types
<1>b. BlankNodes'
  BY <1>n, <1>u, <1>r, <1>t DEF CountSide, BlankNodes
<1>c. CounterExact'
  <2>1. \A m \in Issued : refs[m] > 0 => refs[m] = Count(m)
    BY <1>t, CounterExactCount DEF CountSide
  <2>2. \A m \in Issued : refs'[m] > 0 => refs'[m] = Count(m)'
    BY <2>1, <1>n, <1>r, <1>nat
  <2>3. CounterExact' <=> \A m \in Issued' : refs'[m] > 0 => refs'[m] = Count(m)'
    BY DEF CounterExact, Count, Holders, Issued
  <2>4. QED
    BY <2>2, <2>3, <1>u
<1>l. \A m \in Issued : Live(m) <=> refs[m] > 0 \/ pinned[m] > 0
  BY <1>t DEF CountSide, LiveIffReferenced, Issued
<1> HIDE DEF home
<1>1. CASE refs[n] = 1 /\ pinned[n] = 0
  <2>1. Live(n)
    BY <1>1, <1>l
  <2>2. slot[home] = n /\ generation[home] = key[n].generation /\ pins[home] = 0
    BY <2>1, <1>1, PinsOfLive DEF home
  <2>3. /\ slot' = [slot EXCEPT ![key[n].id] = NoNode]
        /\ freeing' = Append(freeing, [node |-> n, phase |-> "cleanup"])
    BY <1>1, <1>r, <1>u, <2>1, <2>2 DEF DropCore, FreeIfUnreferenced, PinCount, Live, home
  <2>4. /\ SlotSide'
        /\ slot' \in [Id -> Node \cup {NoNode}]
        /\ freeing' \in Seq(Frame)
        /\ slot'[home] = NoNode
        /\ \A id \in Id : id # home => slot'[id] = slot[id]
        /\ \A m \in Issued : Live(m)' <=> Live(m) /\ m # n
    BY <1>t, <1>u, <2>1, <2>3, TakeSlot DEF home
  <2>5. ArenaTypeOK'
    BY <1>t, <1>u, <1>r, <2>4 DEF ArenaTypeOK, Frame
  <2>6. PinsExact'
    BY <1>t, <1>u, <2>2, <2>4 DEF CountSide, PinsExact
  <2>7. LiveIffReferenced'
    <3>1. \A m \in Issued : Live(m)' <=> refs'[m] > 0 \/ pinned[m] > 0
      BY <2>4, <1>1, <1>l, <1>r, <1>n
    <3>2. QED
      BY <3>1, <1>u DEF LiveIffReferenced, Issued
  <2>8. QED
    BY <2>4, <2>5, <2>6, <2>7, <1>b, <1>c DEF IInv, CountSide
<1>2. CASE ~(refs[n] = 1 /\ pinned[n] = 0)
  <2>1. UNCHANGED <<slot, freeing>>
    <3>1. CASE refs[n] # 1
      BY <3>1 DEF DropCore
    <3>2. CASE refs[n] = 1
      <4>1. Live(n)
        BY <3>2, <1>l
      <4>2. generation[home] = key[n].generation /\ pins[home] # 0
        BY <4>1, <3>2, <1>2, PinsOfLive DEF home
      <4>3. QED
        BY <3>2, <4>2, <1>u DEF DropCore, FreeIfUnreferenced, PinCount, home
    <3>3. QED
      BY <3>1, <3>2
  <2>2. SlotSide' /\ \A m \in Node : Live(m)' <=> Live(m)
    BY <1>t, <1>u, <2>1, SameSlots DEF slotView
  <2>3. ArenaTypeOK'
    BY <1>t, <1>u, <1>r, <2>1 DEF ArenaTypeOK
  <2>4. PinsExact'
    BY <1>t, <1>u, <2>1 DEF CountSide, PinsExact
  <2>5. LiveIffReferenced'
    <3>1. \A m \in Issued : Live(m)' <=> refs'[m] > 0 \/ pinned[m] > 0
      BY <2>2, <1>2, <1>l, <1>r, <1>n, <1>nat
    <3>2. QED
      BY <3>1, <1>u DEF LiveIffReferenced, Issued
  <2>6. QED
    BY <2>2, <2>3, <2>4, <2>5, <1>b, <1>c DEF IInv, CountSide
<1>3. QED
  BY <1>1, <1>2

-----------------------------------------------------------------------------
(* The actions                                                             *)

(* Core::clone.                                                            *)
LEMMA CloneInv == ASSUME IInv, NEW n \in Node, Clone(n) PROVE IInv'
<1>t. ArenaTypeOK /\ SlotSide /\ CountSide
  BY DEF IInv
<1>n. refs[n] \in Nat /\ held[n] \in Nat /\ allocated \in Nat /\ Issued \subseteq Node
  BY <1>t, Types
<1>i. n \in Issued
  BY <1>t, <1>n DEF Clone, Usable, CountSide, BlankNodes, Issued, Node
<1>u. UNCHANGED <<slot, generation, pins, recycled, used, allocated, key, deps, pinned, freeing>>
  BY DEF Clone, graphCore
<1>r. /\ refs' \in [Node -> Nat] /\ held' \in [Node -> Nat]
      /\ refs'[n] = refs[n] + 1 /\ held'[n] = held[n] + 1
      /\ \A m \in Node : m # n => refs'[m] = refs[m] /\ held'[m] = held[m]
      /\ refs[n] > 0
  BY <1>t, <1>n DEF Clone, ArenaTypeOK, Usable
<1>1. ArenaTypeOK'
  BY <1>t, <1>u, <1>r DEF ArenaTypeOK
<1>2. SlotSide' /\ \A m \in Node : Live(m)' <=> Live(m)
  BY <1>t, <1>u, SameSlots DEF slotView
<1>3. BlankNodes'
  BY <1>t, <1>u, <1>r, <1>i, <1>n DEF CountSide, BlankNodes, Issued
<1>4. PinsExact'
  BY <1>t, <1>u DEF CountSide, PinsExact
<1>5. LiveIffReferenced'
  BY <1>t, <1>u, <1>r, <1>n, <1>2 DEF CountSide, LiveIffReferenced, Issued
<1>6. CounterExact'
  <2>1. \A m \in Issued : Cardinality(Holders(m)) \in Nat /\ Holders(m)' = Holders(m)
    BY <1>u, <1>n, HoldersFinite DEF Holders, Issued
  <2>2. \A m \in Issued : refs[m] > 0 => refs[m] = held[m] + Cardinality(Holders(m))
    BY <1>t, CounterExactCount DEF CountSide, Count
  <2>3. \A m \in Issued : refs'[m] > 0 => refs'[m] = held'[m] + Cardinality(Holders(m)')
    BY <2>1, <2>2, <1>r, <1>n, <1>i
  <2>4. QED
    BY <2>3, <1>u DEF CounterExact, Holders, Issued
<1>7. QED
  BY <1>1, <1>2, <1>3, <1>4, <1>5, <1>6 DEF IInv, CountSide

(* The user drops a handle.                                                *)
LEMMA DropHandleInv == ASSUME IInv, NEW n \in Node, DropHandle(n) PROVE IInv'
<1>t. ArenaTypeOK /\ SlotSide /\ CountSide
  BY DEF IInv
<1>n. held[n] \in Nat /\ held[n] > 0 /\ allocated \in Nat /\ Issued \subseteq Node
  BY <1>t, Types DEF DropHandle
<1>i. n \in Issued
  BY <1>t, <1>n DEF CountSide, BlankNodes, Issued, Node
<1>d. DropCore(n, freeing) /\ UNCHANGED <<allocated, deps>>
  BY DEF DropHandle, DropCore
<1>r. /\ held' \in [Node -> Nat] /\ held'[n] = held[n] - 1
      /\ \A m \in Node : m # n => held'[m] = held[m]
  BY <1>t, <1>n DEF DropHandle, ArenaTypeOK
<1>1. deps' \in [Node -> SUBSET Node] /\ \A m \in Node : deps'[m] \subseteq Issued
  BY <1>t, <1>d DEF ArenaTypeOK, CountSide, BlankNodes
<1>2. \A m \in Node : m > allocated => held'[m] = 0 /\ deps'[m] = {}
  BY <1>t, <1>d, <1>r, <1>i, <1>n DEF CountSide, BlankNodes, Issued
<1>3. \A m \in Issued : Cardinality(Holders(m)) \in Nat /\ Holders(m)' = Holders(m)
  BY <1>d, <1>n, HoldersFinite DEF Holders, Issued
<1>4. /\ Count(n) \in Nat /\ Count(n)' = Count(n) - 1
      /\ \A m \in Issued : m # n => Count(m)' = Count(m)
  BY <1>3, <1>r, <1>n, <1>i DEF Count
<1>5. QED
  BY <1>1, <1>2, <1>4, <1>d, <1>i, <1>r, DropCoreInv

(* A freed node drops its handle on a dependency.                          *)
LEMMA DropDepHandleInv == ASSUME IInv, NEW d \in Node, DropDepHandle(d) PROVE IInv'
<1> DEFINE h == freeing[Len(freeing)].node
<1>t. ArenaTypeOK /\ SlotSide /\ CountSide
  BY DEF IInv
<1>n. allocated \in Nat /\ Issued \subseteq Node /\ \A m \in Node : held[m] \in Nat
  BY <1>t, Types
<1>h. h \in Issued /\ d \in deps[h] /\ deps' = [deps EXCEPT ![h] = @ \ {d}]
  <2>1. Len(freeing) \in 1..Len(freeing)
    BY <1>t DEF DropDepHandle, ArenaTypeOK
  <2>2. QED
    BY <2>1, <1>t DEF DropDepHandle, SlotSide, BlankSlots
<1>d. DropCore(d, freeing) /\ UNCHANGED <<allocated, held>>
  BY DEF DropDepHandle, DropCore
<1> HIDE DEF h
<1>r. /\ deps' \in [Node -> SUBSET Node] /\ deps'[h] = deps[h] \ {d}
      /\ \A m \in Node : m # h => deps'[m] = deps[m]
  BY <1>t, <1>n, <1>h DEF ArenaTypeOK
<1>i. d \in Issued /\ \A m \in Node : deps[m] \subseteq Issued
  BY <1>t, <1>n, <1>h DEF CountSide, BlankNodes
<1>1. \A m \in Node : deps'[m] \subseteq Issued
  BY <1>i, <1>r
<1>2. \A m \in Node : m > allocated => held'[m] = 0 /\ deps'[m] = {}
  BY <1>t, <1>d, <1>r, <1>n, <1>h DEF CountSide, BlankNodes
<1>3. Holders(d)' = Holders(d) \ {h} /\ h \in Holders(d)
  BY <1>d, <1>r, <1>n, <1>h DEF Holders, Issued
<1>4. \A m \in Issued : m # d => Holders(m)' = Holders(m)
  BY <1>d, <1>r, <1>n, <1>h DEF Holders, Issued
<1>5. \A m \in Issued : IsFiniteSet(Holders(m)) /\ Cardinality(Holders(m)) \in Nat
  BY <1>n, HoldersFinite
<1>6. Cardinality(Holders(d)') = Cardinality(Holders(d)) - 1
  BY <1>3, <1>5, <1>i, FS_RemoveElement
<1>7. /\ Count(d) \in Nat /\ Count(d)' = Count(d) - 1
      /\ \A m \in Issued : m # d => Count(m)' = Count(m)
  BY <1>4, <1>5, <1>6, <1>d, <1>n, <1>i DEF Count
<1>8. QED
  BY <1>1, <1>2, <1>7, <1>d, <1>i, <1>r, <1>t, DropCoreInv DEF ArenaTypeOK

(* ArenaNodePin::from_core.                                                *)
LEMMA PinInv == ASSUME IInv, NEW n \in Node, Pin(n) PROVE IInv'
<1>t. ArenaTypeOK /\ SlotSide /\ CountSide
  BY DEF IInv
<1>n. n \in Issued /\ Issued \subseteq Node /\ pinned[n] \in Nat /\ allocated \in Nat /\ key[n].id \in Id
  BY <1>t, Types DEF Pin, Issued, Node
<1>l. Live(n) /\ slot[key[n].id] = n /\ pins[key[n].id] = pinned[n]
  BY <1>n, PinsOfLive DEF Pin, Live
<1>u. UNCHANGED <<slot, generation, recycled, used, allocated, key, deps, refs, held, freeing>>
  BY DEF Pin
<1>r. /\ pins' \in [Id -> Nat] /\ pinned' \in [Node -> Nat]
      /\ pins'[key[n].id] = pinned[n] + 1 /\ pinned'[n] = pinned[n] + 1
      /\ \A id \in Id : id # key[n].id => pins'[id] = pins[id]
      /\ \A m \in Node : m # n => pinned'[m] = pinned[m]
  BY <1>t, <1>n, <1>l DEF Pin, ArenaTypeOK
<1>1. ArenaTypeOK'
  BY <1>t, <1>u, <1>r DEF ArenaTypeOK
<1>2. SlotSide' /\ \A m \in Node : Live(m)' <=> Live(m)
  BY <1>t, <1>u, SameSlots DEF slotView
<1>3. BlankNodes'
  <2>1. Issued' = Issued /\ \A m \in Node : m > allocated => m # n
    BY <1>u, <1>n DEF Issued, Node
  <2>2. QED
    BY <2>1, <1>t, <1>u, <1>r DEF CountSide, BlankNodes
<1>o. \A id \in Id : slot[id] \in Node \cup {NoNode} /\ (slot[id] = n => id = key[n].id)
  <2>1. \A id \in Id : slot[id] = n => key[n] = [id |-> id, generation |-> generation[id]]
    BY <1>t, <1>n, Types DEF SlotSide, Owners
  <2>2. \A id \in Id : slot[id] \in Node \cup {NoNode}
    BY <1>t, Types
  <2>3. \A id \in Id : [id |-> id, generation |-> generation[id]].id = id
    OBVIOUS
  <2>4. QED
    BY <2>1, <2>2, <2>3
<1>4. PinsExact'
  BY ZenonT(30), <1>t, <1>u, <1>r, <1>l, <1>n, <1>o, Types DEF CountSide, PinsExact
<1>5. LiveIffReferenced'
  BY <1>t, <1>u, <1>r, <1>n, <1>l, <1>2 DEF CountSide, LiveIffReferenced, Issued
<1>6. CounterExact'
  BY <1>t, <1>u DEF CountSide, CounterExact
<1>7. QED
  BY <1>1, <1>2, <1>3, <1>4, <1>5, <1>6 DEF IInv, CountSide

(* The slot of n is taken: what remains to be said of the counters.        *)
LEMMA TakenInv ==
    ASSUME IInv, NEW n \in Issued, Live(n),
           slot' = [slot EXCEPT ![key[n].id] = NoNode],
           freeing' = Append(freeing, [node |-> n, phase |-> "cleanup"]),
           UNCHANGED <<generation, recycled, used, allocated, key, deps, held>>,
           refs' \in [Node -> Nat], pinned' \in [Node -> Nat], pins' \in [Id -> Nat],
           refs'[n] = 0, pinned'[n] = 0, pins'[key[n].id] = 0,
           \A m \in Node : m # n => refs'[m] = refs[m] /\ pinned'[m] = pinned[m],
           \A id \in Id : id # key[n].id => pins'[id] = pins[id]
    PROVE  IInv'
<1>t. ArenaTypeOK /\ SlotSide /\ CountSide
  BY DEF IInv
<1>n. n \in Node /\ Issued \subseteq Node /\ Issued' = Issued /\ allocated \in Nat /\ key[n].id \in Id
  BY <1>t, Types DEF Issued
<1>1. /\ SlotSide'
      /\ slot' \in [Id -> Node \cup {NoNode}]
      /\ freeing' \in Seq(Frame)
      /\ slot'[key[n].id] = NoNode
      /\ \A id \in Id : id # key[n].id => slot'[id] = slot[id]
      /\ \A m \in Issued : Live(m)' <=> Live(m) /\ m # n
  BY <1>t, TakeSlot
<1>2. ArenaTypeOK'
  BY <1>t, <1>1 DEF ArenaTypeOK, Frame
<1>3. BlankNodes'
  <2>1. \A m \in Node : m > allocated => m # n
    BY <1>n DEF Issued
  <2>2. QED
    BY <2>1, <1>t, <1>n DEF CountSide, BlankNodes
<1>4. PinsExact'
  <2>1. \A id \in Id : id # key[n].id => slot[id] # n
    <3>1. \A id \in Id : slot[id] = n => key[n] = [id |-> id, generation |-> generation[id]]
      BY <1>t, <1>n, Types DEF SlotSide, Owners
    <3>2. \A id \in Id : [id |-> id, generation |-> generation[id]].id = id
      OBVIOUS
    <3>3. QED
      BY <3>1, <3>2
  <2>2. \A id \in Id : slot[id] \in Node \cup {NoNode}
    BY <1>t, Types
  <2>3. QED
    BY <2>1, <2>2, <1>1, <1>t DEF CountSide, PinsExact
<1>5. LiveIffReferenced'
  <2>1. \A m \in Issued : Live(m) <=> refs[m] > 0 \/ pinned[m] > 0
    BY <1>t DEF CountSide, LiveIffReferenced, Issued
  <2>2. \A m \in Issued : Live(m)' <=> refs'[m] > 0 \/ pinned'[m] > 0
    <3>1. ASSUME NEW m \in Issued PROVE Live(m)' <=> refs'[m] > 0 \/ pinned'[m] > 0
      <4>1. CASE m = n
        BY <4>1, <1>1
      <4>2. CASE m # n
        BY <4>2, <2>1, <1>1, <1>n
      <4>3. QED
        BY <4>1, <4>2
    <3>2. QED
      BY <3>1
  <2>3. QED
    BY <2>2, <1>n DEF LiveIffReferenced, Issued
<1>6. CounterExact'
  <2>1. ASSUME NEW m \in Issued, refs'[m] > 0 PROVE refs'[m] = Count(m)'
    <3>1. m # n /\ refs'[m] = refs[m]
      BY <2>1, <1>n
    <3>2. refs[m] = Count(m)
      BY <2>1, <3>1, <1>t, CounterExactCount DEF CountSide
    <3>3. Count(m)' = Count(m)
      BY DEF Count, Holders, Issued
    <3>4. QED
      BY <3>1, <3>2, <3>3
  <2>2. QED
    BY <2>1, <1>n DEF CounterExact, Count, Holders, Issued
<1>7. QED
  BY <1>1, <1>2, <1>3, <1>4, <1>5, <1>6 DEF IInv, CountSide

(* Core::release_runtime_for_graph.                                        *)
LEMMA ReleaseInv == ASSUME IInv, NEW n \in Node, Release(n) PROVE IInv'
<1>t. ArenaTypeOK /\ SlotSide /\ CountSide
  BY DEF IInv
<1>n. held[n] \in Nat /\ held[n] > 0 /\ allocated \in Nat /\ key[n].id \in Id
  BY <1>t, Types DEF Release
<1>i. n \in Issued
  BY <1>t, <1>n DEF CountSide, BlankNodes, Issued, Node
<1>l. Live(n)
  BY DEF Release, Live
<1>p. pinned[n] = 0 /\ pins[key[n].id] = 0
  BY <1>l, <1>i, PinsOfLive DEF Release, PinCount
<1>r. /\ refs' \in [Node -> Nat] /\ refs'[n] = 0 /\ \A m \in Node : m # n => refs'[m] = refs[m]
      /\ pins' \in [Id -> Nat] /\ pinned' \in [Node -> Nat]
  BY <1>t DEF Release, ArenaTypeOK
<1>u. /\ UNCHANGED <<generation, pins, recycled, used, allocated, key, deps, held, pinned>>
      /\ slot' = [slot EXCEPT ![key[n].id] = NoNode]
      /\ freeing' = Append(freeing, [node |-> n, phase |-> "cleanup"])
  BY DEF Release
<1>1. QED
  BY <1>i, <1>l, <1>p, <1>r, <1>u, TakenInv

(* Drop for ArenaNodePin.                                                  *)
LEMMA UnpinInv == ASSUME IInv, NEW n \in Node, Unpin(n) PROVE IInv'
<1> DEFINE home == key[n].id
<1>t. ArenaTypeOK /\ SlotSide /\ CountSide
  BY DEF IInv
<1>n. pinned[n] \in Nat /\ pinned[n] > 0 /\ allocated \in Nat /\ home \in Id /\ refs[n] \in Nat
      /\ Issued \subseteq Node
  BY <1>t, Types DEF Unpin
<1>i. n \in Issued
  BY <1>t, <1>n DEF CountSide, BlankNodes, Issued, Node
<1>l. Live(n) /\ slot[home] = n /\ generation[home] = key[n].generation /\ pins[home] = pinned[n]
  <2>1. Live(n)
    BY <1>t, <1>n, <1>i DEF CountSide, LiveIffReferenced, Issued
  <2>2. QED
    BY <2>1, <1>i, PinsOfLive
<1>u. UNCHANGED <<generation, recycled, used, allocated, key, deps, refs, held>>
      /\ FreeIfUnreferenced(n, freeing)
  BY DEF Unpin
<1> HIDE DEF home
<1>r. /\ pins' \in [Id -> Nat] /\ pinned' \in [Node -> Nat]
      /\ pins'[home] = pinned[n] - 1 /\ pinned'[n] = pinned[n] - 1
      /\ \A id \in Id : id # home => pins'[id] = pins[id]
      /\ \A m \in Node : m # n => pinned'[m] = pinned[m]
  BY <1>t, <1>n, <1>l DEF Unpin, ArenaTypeOK, home
<1>1. CASE refs[n] = 0 /\ pinned[n] = 1
  <2>1. /\ slot' = [slot EXCEPT ![key[n].id] = NoNode]
        /\ freeing' = Append(freeing, [node |-> n, phase |-> "cleanup"])
    BY <1>1, <1>u, <1>l, <1>r DEF FreeIfUnreferenced, PinCount, Live, home
  <2>2. refs' \in [Node -> Nat]
    BY <1>t, <1>u DEF ArenaTypeOK
  <2>3. refs'[n] = 0 /\ pinned'[n] = 0 /\ pins'[home] = 0 /\ \A m \in Node : refs'[m] = refs[m]
    BY <1>1, <1>u, <1>r
  <2>4. QED
    BY <2>1, <2>2, <2>3, <1>u, <1>r, <1>i, <1>l, TakenInv DEF home
<1>2. CASE ~(refs[n] = 0 /\ pinned[n] = 1)
  <2>1. UNCHANGED <<slot, freeing>>
    BY <1>2, <1>u, <1>l, <1>r, <1>n DEF FreeIfUnreferenced, PinCount, home
  <2>2. SlotSide' /\ \A m \in Node : Live(m)' <=> Live(m)
    BY <1>t, <1>u, <2>1, SameSlots DEF slotView
  <2>3. ArenaTypeOK'
    BY <1>t, <1>u, <1>r, <2>1 DEF ArenaTypeOK
  <2>4. BlankNodes'
    <3>1. Issued' = Issued /\ \A m \in Node : m > allocated => m # n
      BY <1>u, <1>n, <1>i DEF Issued
    <3>2. QED
      BY <3>1, <1>t, <1>u, <1>r DEF CountSide, BlankNodes
  <2>5. PinsExact'
    <3>1. \A id \in Id : slot[id] = n => id = home
      <4>1. \A id \in Id : slot[id] = n => key[n] = [id |-> id, generation |-> generation[id]]
        BY <1>t, <1>i, Types DEF SlotSide, Owners
      <4>2. \A id \in Id : [id |-> id, generation |-> generation[id]].id = id
        OBVIOUS
      <4>3. QED
        BY <4>1, <4>2 DEF home
    <3>2. \A id \in Id : slot[id] \in Node \cup {NoNode}
      BY <1>t, Types
    <3>3. n # NoNode
      BY <1>i, <1>t, Types
    <3>4. QED
      BY <3>1, <3>2, <3>3, <2>1, <1>r, <1>l, <1>t DEF CountSide, PinsExact
  <2>6. LiveIffReferenced'
    <3>1. \A m \in Issued : Live(m) <=> refs[m] > 0 \/ pinned[m] > 0
      BY <1>t DEF CountSide, LiveIffReferenced, Issued
    <3>2. \A m \in Issued : Live(m)' <=> refs[m] > 0 \/ pinned'[m] > 0
      BY <3>1, <2>2, <1>2, <1>l, <1>n, <1>r
    <3>3. QED
      BY <3>2, <1>u DEF LiveIffReferenced, Issued
  <2>7. CounterExact'
    BY <1>t, <1>u DEF CountSide, CounterExact
  <2>8. QED
    BY <2>2, <2>3, <2>4, <2>5, <2>6, <2>7 DEF IInv, CountSide
<1>3. QED
  BY <1>1, <1>2

(* Steps that only move the call stack on keep the counters.               *)
LEMMA SameCounts ==
    ASSUME IInv, UNCHANGED <<slot, generation, pins, used, nodes>>
    PROVE  CountSide'
<1>t. CountSide /\ UNCHANGED <<allocated, key, deps, refs, held, pinned>>
  BY DEF IInv, nodes
<1>1. BlankNodes' /\ PinsExact' /\ CounterExact'
  BY <1>t DEF CountSide, BlankNodes, PinsExact, CounterExact, Issued
<1>2. LiveIffReferenced'
  BY <1>t DEF CountSide, LiveIffReferenced, Live, IsLiveKey
<1>3. QED
  BY <1>1, <1>2 DEF CountSide

(* The cleanup is over and the slot recycled.                              *)
LEMMA FinishCleanupInv == ASSUME IInv, FinishCleanup PROVE IInv'
<1> DEFINE top == Len(freeing)
           c == freeing[top].node
           home == key[c].id
           fr == [node |-> c, phase |-> "drop"]
<1>t. ArenaTypeOK /\ SlotSide /\ CountSide
  BY DEF IInv
<1>n. recycled \in Seq(Id) /\ freeing \in Seq(Frame) /\ Len(recycled) \in Nat /\ Len(freeing) \in Nat
  BY <1>t DEF ArenaTypeOK, Frame
<1>u. UNCHANGED <<slot, generation, pins, used, nodes, allocated, key, deps, refs, held, pinned>>
  BY DEF FinishCleanup, nodes
<1>a. /\ top \in 1..Len(freeing) /\ freeing[top].phase = "cleanup"
      /\ recycled' = Append(recycled, home)
      /\ freeing' = [freeing EXCEPT ![top] = fr]
  BY <1>n DEF FinishCleanup
<1>b. c \in Issued /\ c \in Node /\ home \in 1..used /\ home \in Id /\ Issued' = Issued
  BY <1>a, <1>t, <1>u, Types DEF SlotSide, BlankSlots, Keys, Issued
<1>f. fr \in Frame /\ fr.node = c /\ fr.phase # "cleanup"
  BY <1>b DEF Frame
<1> HIDE DEF fr
<1>p. /\ freeing' \in Seq(Frame) /\ Len(freeing') = Len(freeing) /\ freeing'[top] = fr
      /\ \A j \in 1..Len(freeing) : j # top => freeing'[j] = freeing[j]
  BY <1>n, <1>a, <1>f, PutSeq
<1>q. /\ recycled' \in Seq(Id) /\ Len(recycled') = Len(recycled) + 1
      /\ recycled'[Len(recycled) + 1] = home
      /\ \A j \in 1..Len(recycled) : recycled'[j] = recycled[j]
  BY <1>n, <1>a, <1>b, AppendSeq
<1>c. Cleaning' = Cleaning \ {top} /\ top \in Cleaning /\ Cleaning \subseteq 1..Len(freeing)
  BY <1>a, <1>f, <1>p DEF Cleaning
<1>k. \A i \in Cleaning' : key'[freeing'[i].node].id = key[freeing[i].node].id
  BY <1>c, <1>p, <1>u
<1>h. \A i \in Cleaning : i # top => key[freeing[i].node].id # home
  BY <1>t, <1>c DEF SlotSide, SlotsExact
<1>g. \A i \in 1..Len(recycled) : recycled[i] # home
  BY <1>t, <1>c DEF SlotSide, SlotsExact
<1> HIDE DEF home, c, top
<1>1. ArenaTypeOK'
  BY <1>t, <1>u, <1>p, <1>q DEF ArenaTypeOK, Frame
<1>2. Owners' /\ Keys'
  BY <1>t, <1>u, <1>b DEF SlotSide, Owners, Keys
<1>3. BlankSlots'
  <2>0. BlankSlots
    BY <1>t DEF SlotSide
  <2>1. \A i \in 1..Len(recycled') : recycled'[i] \in 1..used
    BY <2>0, <1>n, <1>b, <1>q DEF BlankSlots
  <2>2. \A i \in 1..Len(freeing') : freeing'[i].node \in Issued
    BY <2>0, <1>b, <1>f, <1>p DEF BlankSlots
  <2>3. QED
    BY <2>0, <2>1, <2>2, <1>u, <1>b DEF BlankSlots
<1>4. SlotsExact'
  <2>0. SlotsExact
    BY <1>t DEF SlotSide
  <2>1. \A i, j \in 1..Len(recycled') : i # j => recycled'[i] # recycled'[j]
    BY <2>0, <1>n, <1>q, <1>g DEF SlotsExact
  <2>2. \A i, j \in Cleaning' : i # j => key'[freeing'[i].node].id # key'[freeing'[j].node].id
    BY <2>0, <1>c, <1>k DEF SlotsExact
  <2>3. \A i \in 1..Len(recycled') : \A j \in Cleaning' : recycled'[i] # key'[freeing'[j].node].id
    BY <2>0, <1>n, <1>c, <1>k, <1>q, <1>h DEF SlotsExact
  <2>4. ASSUME NEW id \in 1..used
        PROVE  slot'[id] = NoNode <=>
                 \/ \E i \in 1..Len(recycled') : recycled'[i] = id
                 \/ \E i \in Cleaning' : key'[freeing'[i].node].id = id
    <3>1. (\E i \in 1..Len(recycled') : recycled'[i] = id)
             <=> id = home \/ \E i \in 1..Len(recycled) : recycled[i] = id
      BY <1>n, <1>q
    <3>2. (\E i \in Cleaning : key[freeing[i].node].id = id)
             <=> id = home \/ \E i \in Cleaning' : key'[freeing'[i].node].id = id
      BY <1>c, <1>k DEF home, c
    <3>3. QED
      BY <3>1, <3>2, <2>0, <1>u DEF SlotsExact
  <2>5. QED
    BY <2>1, <2>2, <2>3, <2>4, <1>u DEF SlotsExact
<1>5. CountSide'
  BY <1>u, SameCounts
<1>6. QED
  BY <1>1, <1>2, <1>3, <1>4, <1>5 DEF IInv, SlotSide

(* A free_slot_if_unreferenced call returns.                               *)
LEMMA ReturnFromFreeInv == ASSUME IInv, ReturnFromFree PROVE IInv'
<1> DEFINE top == Len(freeing)
<1>t. ArenaTypeOK /\ SlotSide /\ CountSide
  BY DEF IInv
<1>n. freeing \in Seq(Frame) /\ freeing # <<>> /\ freeing[top].phase # "cleanup"
  BY <1>t DEF ReturnFromFree, ArenaTypeOK, Frame
<1>u. UNCHANGED <<slot, generation, pins, recycled, used, nodes, allocated, key, deps, refs, held, pinned>>
  BY DEF ReturnFromFree, nodes, graphCore
<1>p. /\ top \in Nat \ {0} /\ freeing' \in Seq(Frame) /\ Len(freeing') = top - 1
      /\ \A j \in 1..(top - 1) : freeing'[j] = freeing[j]
  BY <1>n, PopSeq DEF ReturnFromFree
<1>c. Cleaning' = Cleaning /\ Cleaning \subseteq 1..(top - 1)
  BY <1>n, <1>p DEF Cleaning
<1>k. \A i \in Cleaning : freeing'[i] = freeing[i]
  BY <1>c, <1>p
<1>1. ArenaTypeOK'
  BY <1>t, <1>u, <1>p DEF ArenaTypeOK, Frame
<1>2. Owners' /\ Keys' /\ Issued' = Issued
  BY <1>t, <1>u DEF SlotSide, Owners, Keys, Issued
<1>3. BlankSlots'
  BY <1>t, <1>u, <1>p, <1>2 DEF SlotSide, BlankSlots
<1>4. SlotsExact'
  <2>0. SlotsExact
    BY <1>t DEF SlotSide
  <2>1. \A i \in Cleaning' : key'[freeing'[i].node].id = key[freeing[i].node].id
    BY <1>c, <1>k, <1>u
  <2>2. \A i, j \in Cleaning' : i # j => key'[freeing'[i].node].id # key'[freeing'[j].node].id
    BY <2>0, <2>1, <1>c DEF SlotsExact
  <2>3. \A i \in 1..Len(recycled) : \A j \in Cleaning' : recycled[i] # key'[freeing'[j].node].id
    BY <2>0, <2>1, <1>c DEF SlotsExact
  <2>4. \A id : (\E i \in Cleaning' : key'[freeing'[i].node].id = id)
                  <=> \E i \in Cleaning : key[freeing[i].node].id = id
    BY <2>1, <1>c
  <2>5. QED
    <3>1. \A id \in 1..used' : slot'[id] = NoNode <=>
                 \/ \E i \in 1..Len(recycled') : recycled'[i] = id
                 \/ \E i \in Cleaning' : key'[freeing'[i].node].id = id
      BY <2>0, <2>4, <1>u DEF SlotsExact
    <3>2. \A i, j \in 1..Len(recycled') : i # j => recycled'[i] # recycled'[j]
      BY <2>0, <1>u DEF SlotsExact
    <3>3. QED
      BY <2>2, <2>3, <3>1, <3>2, <1>u DEF SlotsExact
<1>5. CountSide'
  BY <1>u, SameCounts
<1>6. QED
  BY <1>1, <1>2, <1>3, <1>4, <1>5 DEF IInv, SlotSide

(* What both arms of GraphCore::alloc do: the next node gets an empty slot *)
(* of its own, under a key nobody has.                                     *)
NewNode(ds) ==
    /\ allocated < MaxNodes /\ allocated' = allocated + 1
    /\ deps' = [deps EXCEPT ![allocated + 1] = ds]
    /\ refs' = [n \in Node |-> IF n = allocated + 1 THEN 1
                               ELSE IF n \in ds THEN refs[n] + 1 ELSE refs[n]]
    /\ held' = [held EXCEPT ![allocated + 1] = 1]
    /\ UNCHANGED <<pinned, freeing>>

NewKey(id, g) ==
    /\ slot[id] = NoNode /\ slot' = [slot EXCEPT ![id] = allocated + 1]
    /\ generation' \in [Id -> Nat] /\ generation'[id] = g /\ generation[id] <= g
    /\ \A x \in Id : x # id => generation'[x] = generation[x]
    /\ pins' \in [Id -> Nat] /\ pins'[id] = 0 /\ \A x \in Id : x # id => pins'[x] = pins[x]
    /\ key' = [key EXCEPT ![allocated + 1] = [id |-> id, generation |-> g]]
    /\ \A n \in Issued : key[n] # [id |-> id, generation |-> g]
    /\ used' \in used..(allocated + 1) /\ id \in 1..used'
    /\ \A x \in 1..used' : x # id => x \in 1..used
    /\ \A i \in Cleaning : key[freeing[i].node].id # id
    /\ recycled' \in Seq(Id) /\ \A i \in 1..Len(recycled') : recycled'[i] \in 1..used'
    /\ \A i, j \in 1..Len(recycled') : i # j => recycled'[i] # recycled'[j]
    /\ \A x \in 1..used' : (\E i \in 1..Len(recycled') : recycled'[i] = x)
                            <=> x # id /\ \E i \in 1..Len(recycled) : recycled[i] = x

(* A new node with a new key keeps the invariant.                          *)
LEMMA AllocInv ==
    ASSUME IInv, NEW ds \in SUBSET Issued, \A d \in ds : refs[d] > 0,
           NEW id \in Id, NEW g \in Nat, NewNode(ds), NewKey(id, g)
    PROVE  IInv'
<1> USE DEF NewNode, NewKey
<1> DEFINE new == allocated + 1
           k == [id |-> id, generation |-> g]
<1>t. ArenaTypeOK /\ SlotSide /\ CountSide
  BY DEF IInv
<1>n. /\ allocated \in Nat /\ used \in Nat /\ used' \in Nat /\ used <= used' /\ used' <= new
      /\ new \in Node /\ new \notin Issued /\ new # NoNode
      /\ Issued \subseteq Node /\ Issued' = Issued \cup {new} /\ NoNode \notin Issued
  <2>1. allocated \in Nat /\ used \in Nat /\ Issued \subseteq Node
    BY <1>t, Types
  <2>2. used' \in Nat /\ used <= used' /\ used' <= new
    BY <2>1
  <2>3. new \in Node /\ new \notin Issued /\ new # NoNode /\ NoNode \notin Issued
    BY <2>1, MaxNodesAssumption DEF Issued, Node, NoNode
  <2>4. Issued' = Issued \cup {new}
    BY <2>1 DEF Issued
  <2>5. QED
    BY <2>1, <2>2, <2>3, <2>4
<1>k. k \in NodeKey /\ k.id = id /\ k.generation = g
  BY DEF NodeKey
<1> HIDE DEF k
<1>s. /\ slot' \in [Id -> Node \cup {NoNode}] /\ slot'[id] = new
      /\ \A x \in Id : x # id => slot'[x] = slot[x]
      /\ key' \in [Node -> NodeKey] /\ key'[new] = k
      /\ \A m \in Issued : key'[m] = key[m]
  BY <1>t, <1>n, <1>k DEF ArenaTypeOK, k
<1>d. /\ deps' \in [Node -> SUBSET Node] /\ deps'[new] = ds /\ \A m \in Node : m # new => deps'[m] = deps[m]
      /\ held' \in [Node -> Nat] /\ held'[new] = 1 /\ \A m \in Node : m # new => held'[m] = held[m]
      /\ refs' \in [Node -> Nat] /\ refs'[new] = 1
      /\ \A m \in Node : m # new => refs'[m] = IF m \in ds THEN refs[m] + 1 ELSE refs[m]
  <2>1. deps \in [Node -> SUBSET Node] /\ held \in [Node -> Nat] /\ refs \in [Node -> Nat] /\ ds \in SUBSET Node
    BY <1>t, <1>n DEF ArenaTypeOK
  <2>2. deps' \in [Node -> SUBSET Node] /\ deps'[new] = ds /\ \A m \in Node : m # new => deps'[m] = deps[m]
    BY <2>1, <1>n
  <2>3. held' \in [Node -> Nat] /\ held'[new] = 1 /\ \A m \in Node : m # new => held'[m] = held[m]
    BY <2>1, <1>n
  <2>4. refs' \in [Node -> Nat] /\ refs'[new] = 1
    BY <2>1, <1>n
  <2>5. \A m \in Node : m # new => refs'[m] = IF m \in ds THEN refs[m] + 1 ELSE refs[m]
    BY <2>1, <1>n
  <2>6. QED
    BY <2>2, <2>3, <2>4, <2>5
<1>y. new > allocated /\ new \in Nat
  BY <1>n
<1> HIDE DEF new
<1>1. ArenaTypeOK'
  <2>1. used' \in 0..MaxNodes /\ allocated' \in 0..MaxNodes
    BY <1>n, MaxNodesAssumption DEF new
  <2>2. QED
    BY <2>1, <1>t, <1>s, <1>d DEF ArenaTypeOK
<1>i. \A m \in Issued : key[m].id \in 1..used /\ key[m].id \in Id /\ key[m] \in NodeKey
                          /\ key[m].generation <= generation[key[m].id] /\ key[m].generation \in Nat
  BY <1>t, <1>n, Types DEF SlotSide, Keys
<1>2. Owners'
  <2>1. ASSUME NEW x \in Id, slot'[x] # NoNode
        PROVE  slot'[x] \in Issued' /\ key'[slot'[x]] = [id |-> x, generation |-> generation'[x]]
    <3>1. CASE x = id
      BY <3>1, <1>s, <1>n DEF k
    <3>2. CASE x # id
      <4>1. slot'[x] = slot[x] /\ slot[x] \in Issued /\ key[slot[x]] = [id |-> x, generation |-> generation[x]]
        BY <3>2, <2>1, <1>s, <1>t DEF SlotSide, Owners
      <4>2. key'[slot[x]] = key[slot[x]] /\ generation'[x] = generation[x]
        BY <3>2, <4>1, <1>s
      <4>3. QED
        BY <4>1, <4>2, <1>n
    <3>3. QED
      BY <3>1, <3>2
  <2>2. QED
    BY <2>1 DEF Owners
<1>3. Keys'
  <2>1. ASSUME NEW m \in Issued' PROVE key'[m].id \in 1..used' /\ key'[m].generation <= generation'[key'[m].id]
    <3>1. CASE m = new
      BY <3>1, <1>s, <1>k
    <3>2. CASE m \in Issued
      <4>1. key[m].id \in 1..used' /\ generation[key[m].id] <= generation'[key[m].id]
            /\ generation[key[m].id] \in Nat /\ generation'[key[m].id] \in Nat
        <5>1. \A x \in Id : generation[x] \in Nat /\ generation'[x] \in Nat /\ generation[x] <= generation'[x]
          <6>1. \A x \in Id : generation[x] \in Nat /\ generation'[x] \in Nat
            BY <1>t DEF ArenaTypeOK
          <6>2. \A x \in Id : generation[x] <= generation'[x]
            BY <6>1
          <6>3. QED
            BY <6>1, <6>2
        <5>2. QED
          BY <5>1, <3>2, <1>i, <1>n
      <4>2. QED
        BY <3>2, <4>1, <1>i, <1>s
    <3>3. QED
      BY <3>1, <3>2, <1>n
  <2>2. \A n, m \in Issued' : key'[n] = key'[m] => n = m
    BY <1>n, <1>s, <1>t DEF SlotSide, Keys, k
  <2>3. QED
    BY <2>1, <2>2 DEF Keys
<1>4. BlankSlots'
  <2>0. BlankSlots
    BY <1>t DEF SlotSide
  <2>1. \A x \in Id : x > used' => slot'[x] = NoNode /\ generation'[x] = 0
    <3>1. \A x \in Id : x > used' => x # id /\ x > used
      BY <1>n DEF Id
    <3>2. QED
      <4>1. \A x \in Id : x > used => slot[x] = NoNode /\ generation[x] = 0
        BY <2>0 DEF BlankSlots
      <4>2. \A x \in Id : x # id => slot'[x] = slot[x] /\ generation'[x] = generation[x]
        BY <1>s
      <4> HIDE DEF NewKey, NewNode
      <4>3. QED
        BY <3>1, <4>1, <4>2
  <2>2. QED
    BY <2>0, <2>1, <1>n DEF BlankSlots, new
<1>5. SlotsExact'
  <2>0. SlotsExact /\ Cleaning' = Cleaning
    BY <1>t DEF SlotSide, Cleaning
  <2>1. \A i \in Cleaning : key'[freeing'[i].node].id = key[freeing[i].node].id
    BY <1>t, <1>s DEF SlotSide, BlankSlots, Cleaning
  <2>2. \A i, j \in Cleaning : i # j => key'[freeing'[i].node].id # key'[freeing'[j].node].id
    BY <2>0, <2>1 DEF SlotsExact
  <2>3. ASSUME NEW i \in 1..Len(recycled'), NEW j \in Cleaning
        PROVE  recycled'[i] # key'[freeing'[j].node].id
    <3>1. \E h \in 1..Len(recycled) : recycled[h] = recycled'[i]
      OBVIOUS
    <3>2. QED
      BY <3>1, <2>0, <2>1 DEF SlotsExact
  <2>4. ASSUME NEW x \in 1..used'
        PROVE  slot'[x] = NoNode <=>
                 \/ \E i \in 1..Len(recycled') : recycled'[i] = x
                 \/ \E i \in Cleaning : key'[freeing'[i].node].id = x
    <3>0. (\E i \in Cleaning : key'[freeing'[i].node].id = x) <=> \E i \in Cleaning : key[freeing[i].node].id = x
      BY <2>1
    <3>1. CASE x = id
      BY <3>0, <3>1, <1>s, <1>n
    <3>2. CASE x # id
      <4>1. x \in 1..used /\ slot'[x] = slot[x]
        BY <3>2, <1>s, <1>t, Types
      <4>2. QED
        BY <3>0, <3>2, <4>1, <2>0 DEF SlotsExact
    <3>3. QED
      BY <3>1, <3>2
  <2>5. QED
    BY <2>0, <2>2, <2>3, <2>4 DEF SlotsExact
<1>6. /\ \A m \in Issued' : m = new => Live(m)'
      /\ \A m \in Issued : Live(m)' <=> Live(m)
  <2>1. \A m \in Issued' : m = new => Live(m)'
    BY <1>s, <1>k, <1>n DEF Live, IsLiveKey
  <2>2. ASSUME NEW m \in Issued PROVE Live(m)' <=> Live(m)
    <3>1. CASE key[m].id # id
      BY <3>1, <1>s, <1>i DEF Live, IsLiveKey
    <3>2. CASE key[m].id = id
      <4>1. ~Live(m)
        BY <3>2 DEF Live, IsLiveKey
      <4>2. key[m].generation # g
        BY <3>2, <1>i DEF NodeKey
      <4>3. ~Live(m)'
        BY <3>2, <4>2, <1>s DEF Live, IsLiveKey
      <4>4. QED
        BY <4>1, <4>3
    <3>3. QED
      BY <3>1, <3>2
  <2>3. QED
    BY <2>1, <2>2
<1>b. BlankNodes
  BY <1>t DEF CountSide
<1>7. BlankNodes'
  <2>1. ASSUME NEW m \in Node, m > allocated'
        PROVE  refs'[m] = 0 /\ held'[m] = 0 /\ pinned'[m] = 0 /\ deps'[m] = {}
    <3>1. m > allocated /\ m # new /\ m \notin ds
      BY <2>1, <1>n DEF new, Issued, Node
    <3>2. QED
      BY <3>1, <1>b, <1>d DEF BlankNodes
  <2>2. \A m \in Node : deps'[m] \subseteq Issued'
    BY <1>b, <1>d, <1>n DEF BlankNodes
  <2>3. QED
    BY <2>1, <2>2 DEF BlankNodes
<1>8. PinsExact'
  <2>1. pinned[new] = 0
    BY <1>b, <1>n, <1>y DEF BlankNodes
  <2>2. QED
    <3>1. PinsExact /\ pinned' = pinned
      BY <1>t DEF CountSide
    <3>2. pins'[id] = 0 /\ \A x \in Id : x # id => pins'[x] = pins[x]
      OBVIOUS
    <3> HIDE DEF NewKey, NewNode
    <3>3. QED
      BY <2>1, <3>1, <3>2, <1>n, <1>s DEF PinsExact
<1>9. LiveIffReferenced'
  <2>1. ASSUME NEW m \in Issued' PROVE Live(m)' <=> refs'[m] > 0 \/ pinned'[m] > 0
    <3>1. CASE m = new
      BY <3>1, <1>6, <1>d
    <3>2. CASE m \in Issued
      <4>1. Live(m) <=> refs[m] > 0 \/ pinned[m] > 0
        BY <3>2, <1>t DEF CountSide, LiveIffReferenced, Issued
      <4>2. refs[m] \in Nat /\ m # new /\ m \in Node
        BY <3>2, <1>n, <1>t, Types
      <4>3. QED
        BY <3>2, <4>1, <4>2, <1>6, <1>d
    <3>3. QED
      BY <3>1, <3>2, <1>n
  <2>2. QED
    BY <2>1 DEF LiveIffReferenced, Issued
<1>10. CounterExact'
  <2>1. ASSUME NEW m \in Issued', refs'[m] > 0 PROVE refs'[m] = held'[m] + Cardinality(Holders(m)')
    <3>1. CASE m = new
      <4>1. Holders(m)' = {}
        BY <3>1, <1>n, <1>d, <1>b DEF Holders, BlankNodes
      <4>2. QED
        BY <3>1, <4>1, <1>d, FS_EmptySet
    <3>2. CASE m \in Issued
      <4>0. m # new /\ m \in Node /\ refs[m] \in Nat /\ held[m] \in Nat
        BY <3>2, <1>n, <1>t, Types
      <4>1. refs[m] > 0 => refs[m] = held[m] + Cardinality(Holders(m))
        BY <3>2, <1>t, CounterExactCount DEF CountSide, Count
      <4>2. IsFiniteSet(Holders(m)) /\ Cardinality(Holders(m)) \in Nat /\ new \notin Holders(m)
        BY ZenonT(30), <1>n, HoldersFinite DEF Holders
      <4>3. CASE m \in ds
        <5>1. Holders(m)' = Holders(m) \cup {new}
          BY <4>3, <1>n, <1>d DEF Holders
        <5>2. Cardinality(Holders(m)') = Cardinality(Holders(m)) + 1
          <6>1. Cardinality(Holders(m) \cup {new}) = Cardinality(Holders(m)) + 1
            BY <4>2, FS_AddElement
          <6>2. QED
            BY <5>1, <6>1
        <5>3. QED
          BY <4>0, <4>1, <4>2, <4>3, <5>2, <1>d
      <4>4. CASE m \notin ds
        <5>1. Holders(m)' = Holders(m)
          BY <4>4, <1>n, <1>d DEF Holders
        <5>2. QED
          BY <2>1, <4>0, <4>1, <4>4, <5>1, <1>d
      <4>5. QED
        BY <4>3, <4>4
    <3>3. QED
      BY <3>1, <3>2, <1>n
  <2>2. QED
    BY <2>1 DEF CounterExact, Holders, Issued
<1>11. QED
  BY <1>1, <1>2, <1>3, <1>4, <1>5, <1>7, <1>8, <1>9, <1>10 DEF IInv, SlotSide, CountSide

(* Only nodes that were allocated can be depended on.                      *)
LEMMA UsableIssued ==
    ASSUME IInv, NEW ds \in SUBSET {n \in Node : Usable(n)}
    PROVE  ds \in SUBSET Issued /\ \A d \in ds : refs[d] > 0
<1>t. ArenaTypeOK /\ CountSide
  BY DEF IInv
<1>1. \A d \in ds : d \in Node /\ held[d] > 0 /\ refs[d] # 0
  BY DEF Usable
<1>2. \A d \in ds : d \in Issued
  BY <1>1, <1>t, Types DEF CountSide, BlankNodes, Issued, Node
<1>3. \A d \in ds : refs[d] \in Nat
  BY <1>1, <1>t, Types
<1>4. QED
  BY <1>1, <1>2, <1>3

(* Alloc, in the arm that reuses the last recycled slot.                   *)
LEMMA ReuseSlotInv ==
    ASSUME IInv, NEW ds \in SUBSET {n \in Node : Usable(n)}, Alloc(ds), ReuseSlot
    PROVE  IInv'
<1> DEFINE top == Len(recycled)
           id == recycled[top]
           g == generation[id] + 1
<1>t. ArenaTypeOK /\ SlotSide /\ CountSide
  BY DEF IInv
<1>u. /\ recycled # <<>> /\ recycled' = SubSeq(recycled, 1, top - 1)
      /\ slot' = [slot EXCEPT ![id] = allocated + 1]
      /\ generation' = [generation EXCEPT ![id] = g]
      /\ pins' = [pins EXCEPT ![id] = 0]
      /\ key' = [key EXCEPT ![allocated + 1] = [id |-> id, generation |-> g]]
      /\ used' = used
  BY DEF ReuseSlot
<1>v. NewNode(ds)
  BY DEF Alloc, NewNode
<1>p. /\ recycled \in Seq(Id) /\ top \in Nat \ {0} /\ id \in Id /\ recycled' \in Seq(Id)
      /\ Len(recycled') = top - 1
      /\ \A j \in 1..(top - 1) : recycled'[j] = recycled[j]
  <2>1. recycled \in Seq(Id)
    BY <1>t DEF ArenaTypeOK
  <2>2. QED
    BY <2>1, <1>u, PopSeq
<1>ds. ds \in SUBSET Issued /\ \A d \in ds : refs[d] > 0
  BY UsableIssued
<1>i. top \in 1..Len(recycled) /\ id \in 1..used
  BY <1>p, <1>t DEF SlotSide, BlankSlots
<1>e. slot[id] = NoNode /\ \A i \in Cleaning : key[freeing[i].node].id # id
  BY <1>i, <1>t DEF SlotSide, SlotsExact
<1>g. g \in Nat /\ generation[id] <= g /\ generation[id] < g
  BY SMTT(30), <1>p, <1>t DEF ArenaTypeOK
<1> HIDE DEF g, top
<1>1. /\ generation' \in [Id -> Nat] /\ generation'[id] = g
      /\ \A x \in Id : x # id => generation'[x] = generation[x]
      /\ pins' \in [Id -> Nat] /\ pins'[id] = 0 /\ \A x \in Id : x # id => pins'[x] = pins[x]
  BY <1>g, <1>p, <1>t, <1>u DEF ArenaTypeOK
<1>2. ASSUME NEW n \in Issued PROVE key[n] # [id |-> id, generation |-> g]
  <2>1. key[n].generation <= generation[key[n].id] /\ n \in Node
    BY <1>t, Types DEF SlotSide, Keys
  <2>2. key[n].id = id => key[n].generation <= generation[id] /\ key[n].generation \in Nat /\ generation[id] \in Nat
    BY <2>1, <1>t, <1>p, Types
  <2>3. key[n].id = id => key[n].generation # g
    BY <2>2, <1>g
  <2>4. [id |-> id, generation |-> g].id = id /\ [id |-> id, generation |-> g].generation = g
    OBVIOUS
  <2>5. QED
    BY <2>3, <2>4
<1>3. used' \in used..(allocated + 1) /\ id \in 1..used' /\ \A x \in 1..used' : x # id => x \in 1..used
  <2>1. used \in Nat /\ allocated \in Nat /\ used <= allocated
    BY <1>t, Types DEF SlotSide, BlankSlots
  <2>2. QED
    BY <2>1, <1>u, <1>i
<1>4. /\ \A i, j \in 1..top : i # j => recycled[i] # recycled[j]
      /\ \A i \in 1..top : recycled[i] \in 1..used
  BY <1>t DEF SlotSide, SlotsExact, BlankSlots, top
<1>5. /\ \A i, j \in 1..Len(recycled') : i # j => recycled'[i] # recycled'[j]
      /\ \A i \in 1..Len(recycled') : recycled'[i] \in 1..used'
  BY <1>4, <1>p, <1>u
<1>6. ASSUME NEW x \in 1..used'
      PROVE  (\E i \in 1..Len(recycled') : recycled'[i] = x)
               <=> x # id /\ \E i \in 1..Len(recycled) : recycled[i] = x
  <2>1. ASSUME NEW i \in 1..Len(recycled'), recycled'[i] = x
        PROVE  x # id /\ \E j \in 1..Len(recycled) : recycled[j] = x
    <3>1. i \in 1..top /\ i # top /\ recycled[i] = x
      BY <2>1, <1>p
    <3>2. QED
      BY <3>1, <1>4, <1>p DEF top
  <2>2. ASSUME NEW i \in 1..Len(recycled), recycled[i] = x, x # id
        PROVE  \E j \in 1..Len(recycled') : recycled'[j] = x
    <3>1. i \in 1..top /\ i # top
      BY <2>2 DEF top
    <3>2. i \in 1..(top - 1)
      BY <3>1, <1>p
    <3>3. QED
      BY <3>2, <2>2, <1>p
  <2>3. QED
    BY <2>1, <2>2
<1>7. NewKey(id, g)
  <2>1. \A n \in Issued : key[n] # [id |-> id, generation |-> g]
    BY <1>2
  <2>2. \A x \in 1..used' : (\E i \in 1..Len(recycled') : recycled'[i] = x)
                              <=> x # id /\ \E i \in 1..Len(recycled) : recycled[i] = x
    BY <1>6
  <2> HIDE DEF id
  <2>3. QED
    BY <1>1, <1>3, <1>5, <1>e, <1>g, <1>p, <1>u, <2>1, <2>2, Zenon DEF NewKey
<1> HIDE DEF id
<1>8. QED
  BY <1>7, <1>ds, <1>g, <1>p, <1>v, AllocInv

(* Alloc, in the arm that pushes a new slot.                               *)
LEMMA PushNodeInv ==
    ASSUME IInv, NEW ds \in SUBSET {n \in Node : Usable(n)}, Alloc(ds), PushNode
    PROVE  IInv'
<1> DEFINE id == used + 1
<1>t. ArenaTypeOK /\ SlotSide /\ CountSide
  BY DEF IInv
<1>u. /\ recycled = <<>> /\ recycled' = recycled /\ UNCHANGED <<generation, pins>>
      /\ slot' = [slot EXCEPT ![id] = allocated + 1]
      /\ key' = [key EXCEPT ![allocated + 1] = [id |-> id, generation |-> 0]]
      /\ used' = id
  BY DEF PushNode
<1>v. NewNode(ds) /\ allocated < MaxNodes
  BY DEF Alloc, NewNode
<1>ds. ds \in SUBSET Issued /\ \A d \in ds : refs[d] > 0
  BY UsableIssued
<1>n. /\ used \in Nat /\ allocated \in Nat /\ used <= allocated /\ id \in Id /\ id > used
      /\ id \notin 1..used /\ used' \in used..(allocated + 1) /\ id \in 1..used'
      /\ \A x \in 1..used' : x # id => x \in 1..used
  <2>1. used \in Nat /\ allocated \in Nat /\ used <= allocated
    BY <1>t, Types DEF SlotSide, BlankSlots
  <2>2. QED
    BY <2>1, <1>u, <1>v, MaxNodesAssumption DEF Id
<1>b. slot[id] = NoNode /\ generation[id] = 0 /\ pins[id] = 0
  <2>1. slot[id] = NoNode /\ generation[id] = 0
    BY <1>n, <1>t DEF SlotSide, BlankSlots
  <2>2. QED
    BY <2>1, <1>n, <1>t DEF CountSide, PinsExact
<1> HIDE DEF id
<1>k. \A n \in Issued : key[n].id \in 1..used
  BY <1>t DEF SlotSide, Keys
<1>1. \A n \in Issued : key[n] # [id |-> id, generation |-> 0]
  <2>1. [id |-> id, generation |-> 0].id = id
    OBVIOUS
  <2>2. QED
    BY <2>1, <1>k, <1>n
<1>2. \A i \in Cleaning : key[freeing[i].node].id # id
  BY <1>k, <1>n, <1>t DEF SlotSide, BlankSlots, Cleaning
<1>3. recycled' \in Seq(Id) /\ 1..Len(recycled) = {} /\ 1..Len(recycled') = {}
  BY <1>u
<1>4. /\ generation' \in [Id -> Nat] /\ generation'[id] = 0 /\ generation[id] <= 0
      /\ \A x \in Id : x # id => generation'[x] = generation[x]
      /\ pins' \in [Id -> Nat] /\ pins'[id] = 0 /\ \A x \in Id : x # id => pins'[x] = pins[x]
  BY <1>b, <1>t, <1>u DEF ArenaTypeOK
<1>5. NewKey(id, 0)
  <2>1. slot[id] = NoNode /\ slot' = [slot EXCEPT ![id] = allocated + 1]
    BY <1>b, <1>u
  <2>2. key' = [key EXCEPT ![allocated + 1] = [id |-> id, generation |-> 0]]
    BY <1>u
  <2>3. QED
    BY <2>1, <2>2, <1>n, <1>1, <1>2, <1>3, <1>4, Zenon DEF NewKey
<1>6. QED
  BY <1>5, <1>ds, <1>n, <1>v, AllocInv

-----------------------------------------------------------------------------
(* Every step keeps the invariant.                                         *)
LEMMA NextInv == ASSUME IInv, [ArenaNext]_arenaVars PROVE IInv'
<1>1. CASE \E ds \in SUBSET {n \in Node : Usable(n)} : Alloc(ds)
  <2>1. PICK ds \in SUBSET {n \in Node : Usable(n)} : Alloc(ds)
    BY <1>1
  <2>2. ReuseSlot \/ PushNode
    BY <2>1 DEF Alloc
  <2>3. QED
    BY <2>1, <2>2, ReuseSlotInv, PushNodeInv
<1>2. CASE \E n \in Node : Clone(n) \/ DropHandle(n) \/ Pin(n) \/ Unpin(n) \/ Release(n)
  BY <1>2, CloneInv, DropHandleInv, PinInv, UnpinInv, ReleaseInv
<1>3. CASE FinishCleanup
  BY <1>3, FinishCleanupInv
<1>4. CASE \E d \in Node : DropDepHandle(d)
  BY <1>4, DropDepHandleInv
<1>5. CASE ReturnFromFree
  BY <1>5, ReturnFromFreeInv
<1>6. CASE UNCHANGED arenaVars
  <2>1. UNCHANGED <<slot, generation, pins, recycled, used, allocated, key, deps, refs, held, pinned, freeing>>
    BY <1>6 DEF arenaVars, graphCore, nodes
  <2>2. SlotSide'
    BY <2>1, SameSlots DEF slotView, IInv
  <2>3. CountSide'
    BY <2>1, SameCounts DEF nodes
  <2>4. ArenaTypeOK'
    BY <2>1 DEF IInv, ArenaTypeOK
  <2>5. QED
    BY <2>2, <2>3, <2>4 DEF IInv
<1>7. QED
  BY <1>1, <1>2, <1>3, <1>4, <1>5, <1>6 DEF ArenaNext

(* The invariant holds in every behaviour of the arena, whatever the       *)
(* numbers of nodes, handles and pins.                                     *)
THEOREM ArenaInvariant == ArenaSpec => []IInv
<1>1. ArenaInit => IInv
  BY InitInv
<1>2. IInv /\ [ArenaNext]_arenaVars => IInv'
  BY NextInv
<1>3. QED
  BY <1>1, <1>2, PTL DEF ArenaSpec

(* Handles are safe (Core, CoreWeak and ArenaNodePin): a key reaches its   *)
(* own node or none, a node lives exactly as long as it is referred to,    *)
(* its slot is recycled once, and the counter behind it counts.            *)
THEOREM HandlesAlwaysSafe == ArenaSpec => []HandlesSafe
<1>1. IInv => HandlesSafe
  <2> SUFFICES ASSUME IInv PROVE HandlesSafe
    OBVIOUS
  <2>1. StaleKeySafe
    BY LiveMeansOwner DEF IInv, SlotSide, StaleKeySafe, Issued
  <2>2. QED
    BY <2>1 DEF IInv, SlotSide, CountSide, HandlesSafe
<1>2. QED
  BY <1>1, ArenaInvariant, PTL
=============================================================================
