------------------------------ MODULE EdgeGroup ------------------------------
(***************************************************************************)
(* A group of edges carried over a bridge as one (adapters/bridge.rs:      *)
(* wire_edge_group).  The sending group waits for a fresh value of every   *)
(* edge and sends them under one cause; the receiving group releases a     *)
(* cause only when each of its edges has been announced and delivered.     *)
(* The receiver reads the raw ingress of its bridge, before the bridge     *)
(* orders it: frames arrive in any order and any number of times.          *)
(***************************************************************************)
EXTENDS Integers, Sequences, FiniteSets, FiniteSetsExt, SequencesExt

CONSTANTS
    Edges,           \* edge ids of both groups
    MaxVersion,      \* bound on the versions of a source
    TombstoneLimit,  \* WIRE_EDGE_GROUP_CAUSE_TOMBSTONE_LIMIT
    Strays           \* frames of other groups on the same bridge

ASSUME EdgeAssumption == /\ Edges # {} /\ MaxVersion \in Nat /\ TombstoneLimit \in Nat
                         /\ \A f \in Strays : f.edge \notin Edges

VARIABLES
    source,   \* version of the node behind each edge; it numbers its values
    outgoing, \* WireEdgeGroupOutState
    emitted,  \* snapshot of each cause, in the order they were sent
    frames,   \* frames that may reach the receiver
    gate,     \* WireEdgeGroupGateState
    cohorts   \* what the receiver has released

edgeVars == <<source, outgoing, emitted, frames, gate, cohorts>>

NoCause == 0
NoEdges == [e \in {} |-> 0]

EdgeInit ==
    /\ source = [e \in Edges |-> 0]
    /\ outgoing = [once |-> FALSE, pending |-> NoEdges, last |-> NoEdges]
    /\ emitted = <<>>
    /\ frames = Strays
    /\ gate = [active |-> NoCause, dirty |-> {}, data |-> NoEdges, failed |-> <<>>, released |-> <<>>]
    /\ cohorts = <<>>

-----------------------------------------------------------------------------
(* The sending group *)

\* wire_edge_group_should_admit_outbound_data: after the first cause, only an occurrence that is neither waiting nor sent.
Admits(out, e, v) ==
    \/ ~out.once
    \/ /\ ~(e \in DOMAIN out.pending /\ out.pending[e].version = v)
       /\ ~(e \in DOMAIN out.last /\ out.last[e] = v)

\* The values each edge sees in one wave, all judged by the version its node has by then: of several that are
\* admitted the first stays, but before the first cause the last.
AdmitAll(out, values, version) ==
    LET taken == {e \in Edges : values[e] # <<>> /\ Admits(out, e, version[e])}
        Snapshot(e) == [value |-> IF out.once THEN Head(values[e]) ELSE Last(values[e]), version |-> version[e]]
    IN  [out EXCEPT !.pending = [e \in DOMAIN @ \cup taken |-> IF e \in taken THEN Snapshot(e) ELSE @[e]]]

FramesOf(cause, values) ==
    {[kind |-> "Dirty", edge |-> e, cause |-> cause, value |-> 0] : e \in Edges}
        \cup {[kind |-> "Data", edge |-> e, cause |-> cause, value |-> values[e]] : e \in Edges}

\* emit_wire_edge_group_outbound: nothing is sent while an edge has no snapshot.
Emission(out) ==
    LET values == [e \in DOMAIN out.pending |-> out.pending[e].value]
    IN  IF DOMAIN out.pending # Edges
        THEN outgoing' = out /\ UNCHANGED <<emitted, frames>>
        ELSE /\ outgoing' = [once |-> TRUE, pending |-> NoEdges, last |-> [e \in Edges |-> out.pending[e].version]]
             /\ emitted' = Append(emitted, values)
             /\ frames' = frames \cup FramesOf(Len(emitted) + 1, values)

\* A wave in which sources emit one or several values.
NewValues(counts) ==
    LET version == [e \in Edges |-> source[e] + counts[e]]
    IN  /\ \A e \in Edges : version[e] <= MaxVersion
        /\ source' = version
        /\ Emission(AdmitAll(outgoing, [e \in Edges |-> [i \in 1..counts[e] |-> source[e] + i]], version))
        /\ UNCHANGED <<gate, cohorts>>

\* The cached value of a source reaches the group again, as it does a new subscription.
Replay(e) ==
    /\ source[e] > 0
    /\ Emission(AdmitAll(outgoing, [x \in Edges |-> IF x = e THEN <<source[e]>> ELSE <<>>], source))
    /\ UNCHANGED <<source, gate, cohorts>>

\* INVALIDATE of a source takes its snapshot back.
SourceInvalid(e) ==
    /\ Emission([outgoing EXCEPT !.pending = [x \in DOMAIN @ \ {e} |-> @[x]]])
    /\ UNCHANGED <<source, gate, cohorts>>

-----------------------------------------------------------------------------
(* The receiving group *)

\* WireEdgeGroupCauseTombstones::insert
Bury(tombs, cause) ==
    IF cause \in Range(tombs) THEN tombs
    ELSE LET all == Append(tombs, cause)
         IN  SubSeq(all, IF Len(all) > TombstoneLimit THEN 2 ELSE 1, Len(all))

Reset(g) == [g EXCEPT !.active = NoCause, !.dirty = {}, !.data = NoEdges]
Fail(g, cause) == Reset([g EXCEPT !.failed = Bury(@, cause)])

\* emit_wire_edge_group_competing_cause
FailBoth(g, cause) == LET f == Fail(g, g.active) IN [f EXCEPT !.failed = Bury(@, cause)]

\* The values gathered with that of f.
Gathered(g, f) == [e \in DOMAIN g.data \cup {f.edge} |-> IF e = f.edge THEN f.value ELSE g.data[e]]

Whole_Announced(g, f) == DOMAIN g.data \cup {f.edge} = g.dirty
Whole(g, f) == g.dirty = Edges /\ DOMAIN g.data \cup {f.edge} = Edges

\* A cause that was released or has failed is never taken up again.
Spent(g, cause) == cause \in Range(g.failed) \cup Range(g.released)

ReduceDirty(g, f) ==
    IF f.edge \in g.dirty THEN Fail(g, f.cause)
    ELSE [g EXCEPT !.active = f.cause, !.dirty = @ \cup {f.edge}]

ReduceData(g, f) ==
    CASE f.edge \notin g.dirty     -> Fail(g, f.cause)
      [] f.edge \in DOMAIN g.data  -> Fail(g, f.cause)
      [] f.edge \in g.dirty \ DOMAIN g.data /\ Whole(g, f) -> Reset([g EXCEPT !.released = Bury(@, f.cause)])
      [] OTHER                     -> [g EXCEPT !.data = Gathered(g, f)]

\* reduce_wire_edge_group_frame
ReduceFrame(g, f) ==
    CASE Spent(g, f.cause) -> g
      [] ~Spent(g, f.cause) /\ g.active \notin {NoCause, f.cause} -> FailBoth(g, f.cause)
      [] ~Spent(g, f.cause) /\ g.active \in {NoCause, f.cause} /\ f.edge \notin Edges -> Fail(g, f.cause)
      [] OTHER -> IF f.kind = "Dirty" THEN ReduceDirty(g, f) ELSE ReduceData(g, f)

\* The release goes out with the values gathered and the one that completed them.
FrameArrives(f) ==
    LET releases == /\ ~Spent(gate, f.cause) /\ gate.active = f.cause /\ f.kind = "Data"
                    /\ f.edge \in gate.dirty \ DOMAIN gate.data /\ Whole(gate, f)
    IN  /\ gate' = ReduceFrame(gate, f)
        /\ cohorts' = IF releases
                      THEN Append(cohorts, [cause |-> f.cause, values |-> Gathered(gate, f)])
                      ELSE cohorts
        /\ UNCHANGED <<source, outgoing, emitted, frames>>

\* A close or an error of the bridge ends the cause being gathered.
BridgeEnd ==
    /\ gate.active # NoCause
    /\ gate' = Fail(gate, gate.active)
    /\ UNCHANGED <<source, outgoing, emitted, frames, cohorts>>

-----------------------------------------------------------------------------
EdgeNext ==
    \/ \E counts \in [Edges -> 0..2] : NewValues(counts)
    \/ \E e \in Edges : Replay(e) \/ SourceInvalid(e)
    \/ \E f \in frames : FrameArrives(f)
    \/ BridgeEnd

EdgeSpec == EdgeInit /\ [][EdgeNext]_edgeVars

(* Properties *)

\* Whatever the transport loses, repeats or reorders, what the receiver releases is the whole snapshot the sender
\* took for that cause, and no occurrence of a source is released to an edge twice (reduce_wire_edge_group_frame,
\* emit_wire_edge_group_outbound, WireEdgeGroupCauseTombstones).
CohortsWhole ==
    \A i \in DOMAIN cohorts :
        /\ cohorts[i].values = emitted[cohorts[i].cause]
        /\ \A j \in DOMAIN cohorts \ {i} : \A e \in Edges : cohorts[i].values[e] # cohorts[j].values[e]

=============================================================================
