----------------------------- MODULE Checkpoint -----------------------------
(***************************************************************************)
(* checkpoint() of a graph and restore_graph() of the document it gives    *)
(* (checkpoint.rs, and the node's side in node.rs).  Nodes are numbered in *)
(* the order of their ids, the order in which restore walks them.          *)
(***************************************************************************)
EXTENDS Naturals, Sequences, FiniteSets, SequencesExt, FiniteSetsExt

CONSTANTS Size

VARIABLES graph, doc, restored, stage, done
checkpointVars == <<graph, doc, restored, stage, done>>

Ids == 1..Size
Kept == "kept"       \* the value a node held when the checkpoint was taken
Fresh == "fresh"       \* a value computed while restoring
Absent_ == "absent"

Inputs(deps, n) == Range(deps[n])
Acyclic(deps) == \E rank \in [Ids -> Ids] : \A n \in Ids : \A d \in Inputs(deps, n) : rank[d] < rank[n]
DepLists == {s \in UNION {[1..k -> Ids] : k \in 0..2} : \A i \in 2..Len(s) : s[i - 1] < s[i]}
Dags == {f \in [Ids -> DepLists] : Acyclic(f)}

\* A running graph: its wiring, who is watched from outside, and what it is in the middle of.
Watched(g) ==
    LET step(S) == S \union UNION {Inputs(g.deps, n) : n \in S} IN step(step(g.sinks))
IsState(g, n) == g.deps[n] = <<>>
\* checkpoint_runtime.  The value of a collection's helper nodes is not authoritative: the backend is.
Runtime(g, n) ==
    LET active == n \in Watched(g)
        live == IsState(g, n) \/ active
    IN [active |-> active, ran |-> active /\ ~IsState(g, n), has |-> live /\ g.kind[n] # "helper",
        ended |-> live /\ g.mood \in {"completed", "errored"},
        status |-> IF ~live THEN "sentinel" ELSE IF g.mood = "dirty" /\ ~active THEN "settled" ELSE g.mood,
        backend |-> IF g.kind[n] = "helper" THEN Kept ELSE Absent_]

Blank == [cache |-> [n \in Ids |-> Absent_], active |-> {}, ran |-> {}, ended |-> {},
          backend |-> [n \in Ids |-> Absent_], subs |-> [n \in Ids |-> <<>>],
          seen |-> [n \in Ids |-> {}], handshake |-> {}, ranInRestore |-> {}]

CheckpointInit ==
    /\ \E d \in Dags, s \in SUBSET Ids \ {{}}, m \in {"settled", "completed", "errored", "dirty"} :
        \E k \in {f \in [Ids -> {"registered", "local", "helper"}] :
                    \A n \in Ids : f[n] # "registered" => d[n] = <<>> /\ \A i \in Ids \ {n} : f[i] = "registered"} :
            graph = [deps |-> d, kind |-> k, sinks |-> s, mood |-> m]
    /\ doc = <<>> /\ restored = Blank /\ stage = "running" /\ done = 0

(***************************************************************************)
(* checkpoint_graph                                                        *)
(***************************************************************************)
EdgesOf(deps) == {<<d, n>> \in Ids \X Ids : d \in Inputs(deps, n)}
\* Nodes with values still in flight, and error payloads, cannot be written down.
Quiescent(r) == r.status \notin {"dirty", "pending"}
Writable(r) == Quiescent(r) /\ ~(r.ended /\ r.status = "errored")
Document == [version |-> "v1", listed |-> [n \in Ids |-> n], nodes |-> [n \in Ids |-> Runtime(graph, n)],
             deps |-> graph.deps, edges |-> SetToSeq(EdgesOf(graph.deps)), kind |-> graph.kind]
TakeCheckpoint ==
    /\ stage = "running"
    /\ IF \A n \in Ids : Writable(Runtime(graph, n))
         THEN doc' = <<Document>> /\ stage' = "written"
         ELSE UNCHANGED doc /\ stage' = "refused"
    /\ UNCHANGED <<graph, restored, done>>
\* The document comes back changed: another version, a node lost or listed twice, an edge lost, doubled or
\* added with or without its dependency, a status or factory that no longer fits.
Damaged(d) ==
    UNION {{[d EXCEPT !.version = "v2"]},
           {[d EXCEPT !.listed = RemoveAt(@, n)] : n \in Ids},
           {[d EXCEPT !.listed = Append(@, n)] : n \in Ids},
           {[d EXCEPT !.edges = RemoveAt(@, i)] : i \in DOMAIN d.edges},
           {[d EXCEPT !.edges = Append(@, e)] : e \in Ids \X Ids},
           {[d EXCEPT !.edges = Append(@, e), !.deps[e[2]] = Append(@, e[1])] : e \in Ids \X Ids},
           {[d EXCEPT !.nodes[n].status = x] : n \in Ids, x \in {"dirty", "completed"}},
           {[d EXCEPT !.kind[n] = "unknown"] : n \in Ids}}
DamageDocument ==
    /\ stage = "written" /\ doc[1] = Document
    /\ \E d \in Damaged(doc[1]) : doc' = <<d>>
    /\ UNCHANGED <<graph, restored, stage, done>>

(***************************************************************************)
(* prepare_checkpoint: nothing is built before the whole document passes.  *)
(***************************************************************************)
Prepares(d) ==
    /\ d.version = "v1" /\ IsInjective(d.listed) /\ IsInjective(d.edges)
    /\ \A n \in Range(d.listed) :
        /\ d.kind[n] \in {"registered", "helper"} /\ Quiescent(d.nodes[n])
        /\ \A m \in Inputs(d.deps, n) : m \in Range(d.listed) /\ <<m, n>> \in Range(d.edges)
    /\ \A e \in Range(d.edges) : {e[1], e[2]} \subseteq Range(d.listed) /\ e[1] \in Inputs(d.deps, e[2])
\* build_node goes depth first and refuses to come back to a node it is still building.
Builds(d) == Acyclic(d.deps)
Prepare ==
    /\ stage = "written"
    /\ stage' = IF Prepares(doc[1]) /\ Builds(doc[1]) THEN "commit" ELSE "rejected"
    /\ UNCHANGED <<graph, doc, restored, done>>

(***************************************************************************)
(* construct_prepared then restores node by node in id order.  An active   *)
(* node subscribes to its dependencies, which push their value and may     *)
(* wake up.                                                                *)
(***************************************************************************)
Present == Range(doc[1].listed)
RECURSIVE ReceivePush(_, _, _), Subscribe(_, _, _), Activate(_, _)
Listeners(g, n) == g.subs[n]
Recomputed(g, n) ==
    FoldLeft(LAMBDA h, c : ReceivePush(h, c, n),
             [g EXCEPT !.cache[n] = Fresh, !.ran = @ \union {n}, !.ranInRestore = @ \union {n}], Listeners(g, n))
ReceivePush(g, n, d) ==
    LET h == [g EXCEPT !.seen[n] = @ \union {d}] IN
    IF n \in g.ended THEN g
    ELSE IF <<n, d>> \in g.handshake THEN h              \* the push of a restored edge is only noted
    ELSE IF n \in h.ran \/ h.seen[n] = Inputs(doc[1].deps, n) THEN Recomputed(h, n) ELSE h
Activate(g, n) == FoldLeft(LAMBDA h, d : Subscribe(h, n, d), [g EXCEPT !.active = @ \union {n}], doc[1].deps[n])
Subscribe(g, n, d) ==
    LET joined == [g EXCEPT !.subs[d] = Append(@, n)]
        pushed == IF joined.cache[d] # Absent_ THEN ReceivePush(joined, n, d) ELSE joined
        woken == IF d \in pushed.active THEN pushed ELSE Activate(pushed, d)
    IN [woken EXCEPT !.handshake = @ \ {<<n, d>>}]
HandshakesOf_None(n) == {}
HandshakesOf(n) ==
    IF doc[1].nodes[n].has \/ doc[1].nodes[n].ran THEN {<<n, d>> : d \in Inputs(doc[1].deps, n)} ELSE {}
Toggle(S, n, in) == IF in THEN S \union {n} ELSE S \ {n}
Loaded(g, n) ==
    LET r == doc[1].nodes[n] IN
    [g EXCEPT !.cache[n] = IF r.has THEN Kept ELSE Absent_, !.backend[n] = r.backend, !.ended = Toggle(@, n, r.ended),
              !.active = Toggle(@, n, r.active), !.ran = Toggle(@, n, r.ran),
              !.seen[n] = {}, !.handshake = @ \union HandshakesOf(n)]
\* restore_terminal: the status must fit the terminal state.
TerminalFits(r) == r.ended = (r.status \in {"completed", "errored"})
RestoreNode ==
    /\ stage = "commit" /\ done < Size
    /\ done' = done + 1
    /\ LET n == done + 1
           g == Loaded(restored, n)
       IN IF n \notin Present THEN UNCHANGED <<restored, stage>>
          ELSE IF ~TerminalFits(doc[1].nodes[n]) THEN stage' = "rejected" /\ UNCHANGED restored
          ELSE restored' = (IF doc[1].nodes[n].active THEN Activate(g, n) ELSE g) /\ UNCHANGED stage
    /\ UNCHANGED <<graph, doc>>
Commit ==
    /\ stage = "commit" /\ done = Size
    /\ stage' = "restored"
    /\ UNCHANGED <<graph, doc, restored, done>>

CheckpointNext == TakeCheckpoint \/ DamageDocument \/ Prepare \/ RestoreNode \/ Commit
CheckpointSpec == CheckpointInit /\ [][CheckpointNext]_checkpointVars

(* A graph comes back with exactly the values, lifecycle and collection contents it was saved with, whatever *)
(* order the ids put it back together in; what comes back is a well-formed graph even if the document was    *)
(* changed; and a document no one changed is only rejected for a local factory (checkpoint_graph,            *)
(* prepare_checkpoint, construct_prepared, restore_runtime).                                                 *)
RestoreExact ==
    /\ stage = "rejected" => doc[1] # Document \/ \E n \in Ids : graph.kind[n] = "local"
    /\ stage = "restored" =>
        /\ Range(doc[1].edges) = UNION {{<<d, n>> : d \in Inputs(doc[1].deps, n)} : n \in Present}
        /\ \A e \in Range(doc[1].edges) : {e[1], e[2]} \subseteq Present
        /\ Acyclic(doc[1].deps)
        /\ doc[1] = Document => \A n \in Present : LET r == doc[1].nodes[n] IN
            /\ restored.cache[n] = (IF r.has THEN Kept ELSE Absent_) /\ restored.backend[n] = r.backend
            /\ (n \in restored.active) = r.active /\ (n \in restored.ran) = r.ran /\ (n \in restored.ended) = r.ended

(* Putting a graph back together runs no user function (tests/conformance.rs: "fresh restore commit must not *)
(* run user fn").                                                                                            *)
RestoreRunsNothing == restored.ranInRestore = {}
=============================================================================
