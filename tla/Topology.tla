------------------------------ MODULE Topology ------------------------------
(* The graph layer: the registry of a graph's nodes, groups of nodes that  *)
(* are released together, a child graph mounted under a path, and the      *)
(* observers that follow the registry by its events (graph.rs). Operations *)
(* may be called from inside an observer's callback or from the cleanup    *)
(* hooks of a release, so the calls under way form a stack.                *)
(*                                                                         *)
(* An observer keeps a copy of what it watches: the registry as it was     *)
(* when it subscribed, changed by the events it hears. A node id is a      *)
(* number, the n of "factory#n"; a path is <<prefix, id>>.                 *)
EXTENDS Integers, Sequences, FiniteSets
LOCAL INSTANCE SequencesExt
LOCAL INSTANCE Relation

\* Bounds, of which a behaviour takes one: ids, the numbers callers put in names; changes, how many registrations,
\* rewires, releases and mounts; joins, how many observers callers subscribe; grouped, whether a group is used.
CONSTANT TopologyBounds

Parent == "parent"
Child == "child"
TopologyGraphs == {Parent, Child}
Own == ""                \* the prefix of a graph's own nodes
At == "sub"              \* the path the child is mounted at
WholeMount == -1         \* the id in the path of a MountChanged event
Anywhere == "any"        \* the path of an observer without one
Nobody == 0

VARIABLE tp

TopologyInit ==
    \E b \in TopologyBounds :
    tp = [bound |-> b,
          entries |-> [g \in TopologyGraphs |-> <<>>],     \* id -> the ids it depends on
          retired |-> [g \in TopologyGraphs |-> {}],
          seq |-> [g \in TopologyGraphs |-> 0],
          clock |-> [g \in TopologyGraphs |-> 0],
          members |-> {}, released |-> FALSE,              \* a group of the parent
          mounted |-> FALSE, forwarder |-> Nobody,
          slots |-> [g \in TopologyGraphs |-> <<>>],       \* topology_observers
          free |-> [g \in TopologyGraphs |-> <<>>],
          queue |-> [g \in TopologyGraphs |-> <<>>],
          calls |-> <<>>,                                  \* the innermost call is the last
          sinks |-> <<>>,                                  \* every observer there ever was
          changes |-> 0,
          odd |-> FALSE,       \* an observer heard an event out of order, or after it had left
          unheard |-> FALSE,   \* a change made during this activity had no observer
          gap |-> FALSE]       \* somebody subscribed after such a change

HasTopologyObservers(t, g) == \E i \in DOMAIN t.slots[g] : t.slots[g][i] # Nobody
Delivering(t, g) == \E i \in DOMAIN t.calls : t.calls[i].kind = "deliver" /\ t.calls[i].g = g
\* User code runs: outside every call, or in the callback or the cleanup the innermost call makes.
InUserCode == tp.calls # <<>> => Last(tp.calls).user
WaveInFlight == \E i \in DOMAIN tp.calls : tp.calls[i].wave
\* Nodes settle within their waves; what subscribers of their own they have is left out.
QuiescentForRelease == ~WaveInFlight

\* What an observer of graph g with this path reads from describe().
Nodes(t, g, prefix) ==
    [p \in {<<prefix, i>> : i \in DOMAIN t.entries[g]} |-> {<<prefix, d>> : d \in t.entries[g][p[2]]}]
Sees(path, p) == path = Anywhere \/ p[1] = path
Over(f, h) == [p \in DOMAIN f \cup DOMAIN h |-> IF p \in DOMAIN h THEN h[p] ELSE f[p]]
Without(f, P) == [p \in DOMAIN f \ P |-> f[p]]
View(t, g, path) ==
    LET all == IF g = Parent /\ t.mounted THEN Over(Nodes(t, Parent, Own), Nodes(t, Child, At))
                                          ELSE Nodes(t, g, Own)
    IN  Without(all, {p \in DOMAIN all : ~Sees(path, p)})

\* The observers of g in the order of their slots, as a delivery finds them.
Snapshot(t, g) ==
    SelectSeq([i \in DOMAIN t.slots[g] |-> <<i, t.slots[g][i]>>], LAMBDA o : o[2] # Nobody)

\* An event goes to the observers there are now, or behind the one that is being delivered.
EmitTopologyEvent(t, g, event, wave) ==
    IF Delivering(t, g)
    THEN [t EXCEPT !.queue[g] = Append(@, event)]
    ELSE [t EXCEPT !.calls = Append(@, [kind |-> "deliver", g |-> g, event |-> event, rest |-> Snapshot(t, g),
                                        user |-> FALSE, wave |-> wave])]

EmitTopology(t, g, kind, path, deps, wave) ==
    IF ~HasTopologyObservers(t, g)
    THEN [t EXCEPT !.unheard = @ \/ t.calls # <<>>]
    ELSE EmitTopologyEvent([t EXCEPT !.clock[g] = @ + 1], g,
                           [kind |-> kind, path |-> path, deps |-> deps, seq |-> t.clock[g]], wave)

-----------------------------------------------------------------------------
(* Observers *)

TakeSlot(t, g, path, forwards) ==
    LET reuse == t.free[g] # <<>>
        slot == IF reuse THEN Last(t.free[g]) ELSE Len(t.slots[g]) + 1
        sink == Len(t.sinks) + 1
    IN  [t EXCEPT !.slots[g] = IF reuse THEN [@ EXCEPT ![slot] = sink] ELSE Append(@, sink),
                  !.free[g] = IF reuse THEN Front(@) ELSE @,
                  !.sinks = Append(@, [g |-> g, path |-> path, slot |-> slot, forwards |-> forwards,
                                       live |-> TRUE, copy |-> IF forwards THEN <<>> ELSE View(t, g, path), last |-> -1])]

EnsureForwarders(t) ==
    IF HasTopologyObservers(t, Parent) /\ t.mounted /\ t.forwarder = Nobody
    THEN [TakeSlot(t, Child, Anywhere, TRUE) EXCEPT !.forwarder = Len(t.sinks) + 1]
    ELSE t

FreeSlot(t, sink) ==
    LET s == t.sinks[sink] IN
    [t EXCEPT !.sinks[sink].live = FALSE, !.sinks[sink].copy = <<>>,
              !.slots[s.g][s.slot] = Nobody, !.free[s.g] = Append(@, s.slot)]

ReleaseForwarders(t) ==
    IF t.forwarder = Nobody THEN t ELSE [FreeSlot(t, t.forwarder) EXCEPT !.forwarder = Nobody]

Subscribe(g, path) ==
    /\ InUserCode
    /\ Cardinality({i \in DOMAIN tp.sinks : ~tp.sinks[i].forwards}) < tp.bound.joins
    /\ tp' = EnsureForwarders(TakeSlot([tp EXCEPT !.gap = @ \/ tp.unheard], g, path, FALSE))

Unsubscribe(sink) ==
    /\ InUserCode
    /\ tp.sinks[sink].live /\ ~tp.sinks[sink].forwards
    /\ LET left == FreeSlot(tp, sink) IN
       tp' = IF tp.sinks[sink].g = Parent /\ ~HasTopologyObservers(left, Parent)
             THEN ReleaseForwarders(left) ELSE left

-----------------------------------------------------------------------------
(* The registry *)

\* The next number a node without a name gets; a name that ends in a number counts as used.
NextSeq(seq, id) == IF id + 1 > seq THEN id + 1 ELSE seq

\* What the factories of a graph and of its group ask first.
LocalDeps(g, deps) == deps \subseteq DOMAIN tp.entries[g]
LiveGroup(g) == g = Parent /\ ~tp.released

\* A caller names the node or takes the next number, never an id in use or used before. A group's factory registers
\* the node first and makes it a member when the observers have heard of it.
AddWithId(g, id, deps, grouped) ==
    LET add == [tp EXCEPT !.changes = @ + 1,
                          !.entries[g] = Over(@, [i \in {id} |-> deps]),
                          !.seq[g] = NextSeq(@, id),
                          !.calls = IF grouped THEN Append(@, [kind |-> "create", id |-> id,
                                                               user |-> FALSE, wave |-> FALSE]) ELSE @]
    IN  /\ InUserCode /\ tp.changes < tp.bound.changes
        /\ id \notin DOMAIN tp.entries[g] \cup tp.retired[g]
        /\ LocalDeps(g, deps)
        /\ grouped => LiveGroup(g)
        /\ tp' = EmitTopology(add, g, "registered", <<Own, id>>, {<<Own, d>> : d \in deps}, FALSE)

\* Inside a wave a rewire would wait for the boundary: it is taken there.
Rewire(g, id, deps) ==
    LET ids == DOMAIN tp.entries[g]
        after == [tp.entries[g] EXCEPT ![id] = deps]
        path == TransitiveClosure([x, y \in ids |-> y \in after[x]], ids)
    IN  /\ InUserCode /\ ~WaveInFlight /\ tp.changes < tp.bound.changes
        /\ LocalDeps(g, deps) /\ deps # tp.entries[g][id]
        /\ \A x \in ids : ~path[x, x]
        /\ tp' = EmitTopology([tp EXCEPT !.changes = @ + 1, !.entries[g] = after],
                              g, "deps_changed", <<Own, id>>, {<<Own, d>> : d \in deps}, TRUE)

GroupAdd(id) ==
    /\ InUserCode
    /\ LiveGroup(Parent) /\ id \in DOMAIN tp.entries[Parent] \ tp.members
    /\ tp' = [tp EXCEPT !.members = @ \cup {id}]

\* Some node that stays depends on one that would go.
StillNeeded(t, g, ids) ==
    \E i \in DOMAIN t.entries[g] \ ids : t.entries[g][i] \cap ids # {}

\* The cleanup hooks of the nodes run as they are freed.
FreeNodes(calls, g, events, grouped) ==
    Append(calls, [kind |-> "release", g |-> g, events |-> events, grouped |-> grouped, user |-> TRUE, wave |-> FALSE])

\* The ids leave the registry, then the nodes are freed, which runs their cleanup hooks, then the events go out:
\* none of them if nobody listened when the release began.
ReleaseNodes(g, asked, grouped) ==
    LET ids == asked \cap DOMAIN tp.entries[g]
        events == IF HasTopologyObservers(tp, g)
                  THEN [i \in 1..Cardinality(ids) |->
                            LET id == SetToSeq(ids)[i] IN
                            [path |-> <<Own, id>>, deps |-> {<<Own, d>> : d \in tp.entries[g][id]}]]
                  ELSE <<>>
    IN  /\ InUserCode /\ tp.changes < tp.bound.changes
        /\ IF ids = {}
           THEN tp' = IF grouped THEN [tp EXCEPT !.members = {}, !.released = TRUE] ELSE tp
           ELSE /\ QuiescentForRelease /\ ~StillNeeded(tp, g, ids)
                /\ tp' = [tp EXCEPT !.changes = @ + 1,
                                    !.entries[g] = Without(@, ids),
                                    !.retired[g] = @ \cup ids,
                                    !.unheard = @ \/ (~HasTopologyObservers(tp, g) /\ tp.calls # <<>>),
                                    !.calls = FreeNodes(@, g, events, grouped)]

GroupRelease == ~tp.released /\ ReleaseNodes(Parent, tp.members, TRUE)

Mount ==
    /\ InUserCode /\ tp.changes < tp.bound.changes
    /\ ~tp.mounted
    /\ LET mounted == [tp EXCEPT !.changes = @ + 1, !.mounted = TRUE, !.gap = @ \/ tp.unheard] IN
       tp' = EmitTopology(EnsureForwarders(mounted), Parent, "mount_changed", <<At, WholeMount>>, {}, FALSE)

-----------------------------------------------------------------------------
(* The calls under way *)

\* The copy an observer keeps after an event; a new mount it reads anew.
Heard(t, s, event) ==
    CASE event.kind \in {"registered", "deps_changed"} -> Over(s.copy, [p \in {event.path} |-> event.deps])
      [] event.kind = "released" -> Without(s.copy, {event.path})
      [] event.kind = "mount_changed" ->
             Over(Without(s.copy, {p \in DOMAIN s.copy : p[1] = At}), Nodes(t, Child, At))

\* What the child tells, told again by the parent.
Prefixed(p) == <<At, p[2]>>
Forward(t, event) ==
    EmitTopology(t, Parent, event.kind, Prefixed(event.path), {Prefixed(d) : d \in event.deps}, FALSE)

StillActive_SlotTaken(t, g, o) == t.slots[g][o[1]] # Nobody
\* A slot may have been left, or left and taken again, since the delivery began.
StillActive(t, g, o) == t.slots[g][o[1]] = o[2]

\* The next observer of the snapshot hears the event: a forwarder emits it again in the parent, a caller's sink
\* runs code of its own, whose panic is caught.
DeliverNext ==
    LET n == Len(tp.calls)
        call == tp.calls[n]
        o == Head(call.rest)
        s == tp.sinks[o[2]]
        next == [tp EXCEPT !.calls[n].rest = Tail(@), !.calls[n].user = FALSE]
    IN  /\ n > 0 /\ call.kind = "deliver" /\ call.rest # <<>>
        /\ tp' = IF ~StillActive(tp, call.g, o) \/ ~Sees(s.path, call.event.path) THEN next
                 ELSE IF s.forwards THEN Forward(next, call.event)
                 ELSE [next EXCEPT !.calls[n].user = TRUE,
                                   !.odd = @ \/ ~s.live \/ call.event.seq <= s.last,
                                   !.sinks[o[2]].copy = Heard(tp, s, call.event),
                                   !.sinks[o[2]].last = call.event.seq]

\* The event was delivered: the next one of the queue, or the end of the delivery.
NextQueued(t, g) == Head(t.queue[g])

CallReturns(t) ==
    LET left == Front(t.calls) IN
    [t EXCEPT !.calls = left, !.unheard = @ /\ left # <<>>]

NextEvent ==
    LET n == Len(tp.calls)
        call == tp.calls[n]
    IN  /\ n > 0 /\ call.kind = "deliver" /\ call.rest = <<>>
        /\ tp' = IF tp.queue[call.g] = <<>> THEN CallReturns(tp)
                 ELSE [tp EXCEPT !.queue[call.g] = SelectSeq(@, LAMBDA e : e # NextQueued(tp, call.g)),
                                 !.calls[n].event = NextQueued(tp, call.g),
                                 !.calls[n].rest = Snapshot(tp, call.g),
                                 !.calls[n].user = FALSE]

\* The nodes are freed: their events, one delivery after another.
EmitReleased ==
    LET n == Len(tp.calls)
        call == tp.calls[n]
        event == Head(call.events)
    IN  /\ n > 0 /\ call.kind = "release" /\ call.events # <<>>
        /\ tp' = EmitTopology([tp EXCEPT !.calls[n].events = Tail(@), !.calls[n].user = FALSE],
                              call.g, "released", event.path, event.deps, FALSE)

\* A group released meanwhile takes no member: the factory panics, and the node stays registered.
CreateReturns ==
    LET call == Last(tp.calls) IN
    /\ tp.calls # <<>> /\ call.kind = "create"
    /\ tp' = LET done == CallReturns(tp) IN IF tp.released THEN done ELSE [done EXCEPT !.members = @ \cup {call.id}]

\* A cleanup hook's panic comes out at the end, and then the group is not yet released.
ReleaseReturns(panicked) ==
    LET n == Len(tp.calls)
        call == tp.calls[n]
    IN  /\ n > 0 /\ call.kind = "release" /\ call.events = <<>>
        /\ tp' = LET done == CallReturns(tp) IN
                 IF call.grouped /\ ~panicked THEN [done EXCEPT !.members = {}, !.released = TRUE] ELSE done

TopologyNext ==
    \/ \E g \in TopologyGraphs, path \in {Anywhere, At} : (path = At => g = Parent) /\ Subscribe(g, path)
    \/ \E sink \in DOMAIN tp.sinks : Unsubscribe(sink)
    \/ \E g \in TopologyGraphs, deps \in SUBSET tp.bound.ids, grouped \in {FALSE, tp.bound.grouped} :
           \E id \in tp.bound.ids \cup {tp.seq[g]} : AddWithId(g, id, deps, grouped)
    \/ \E g \in TopologyGraphs, deps \in SUBSET tp.bound.ids :
           \E id \in DOMAIN tp.entries[g] : Rewire(g, id, deps)
    \/ \E id \in tp.bound.ids : tp.bound.grouped /\ GroupAdd(id)
    \/ \E g \in TopologyGraphs : \E ids \in SUBSET DOMAIN tp.entries[g] : ids # {} /\ ReleaseNodes(g, ids, FALSE)
    \/ tp.bound.grouped /\ GroupRelease
    \/ Mount
    \/ DeliverNext \/ NextEvent \/ EmitReleased \/ CreateReturns
    \/ \E panicked \in BOOLEAN : ReleaseReturns(panicked)

TopologySpec == TopologyInit /\ [][TopologyNext]_tp

-----------------------------------------------------------------------------
(* Properties *)

\* When no call is under way every observer's copy is what describe() shows it, however operations were called from
\* callbacks and hooks. Left out: an observer that subscribed in a callback after all others had left and the
\* registry had changed unheard, while older events were still queued.
CopiesExact ==
    tp.calls = <<>> /\ ~tp.gap =>
        \A i \in DOMAIN tp.sinks :
            LET s == tp.sinks[i] IN s.live /\ ~s.forwards => s.copy = View(tp, s.g, s.path)

\* The number for the next node without a name is free, and no node depends on one that was released.
RegistrySound ==
    \A g \in TopologyGraphs :
        /\ tp.seq[g] \notin DOMAIN tp.entries[g] \cup tp.retired[g]
        /\ \A i \in DOMAIN tp.entries[g] : tp.entries[g][i] \subseteq DOMAIN tp.entries[g]

\* The observers of a graph and of the graph it is mounted in follow its registry (observe_topology,
\* emit_topology_event, ensure_mounted_topology_forwarders): their copies are exact, they hear events in order and
\* none after they left, and the registry they follow is sound (add_with_id, release_nodes).
TopologyFollowed == CopiesExact /\ ~tp.odd /\ RegistrySound
=============================================================================
