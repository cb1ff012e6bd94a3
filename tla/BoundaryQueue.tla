--------------------------- MODULE BoundaryQueue ----------------------------
(***************************************************************************)
(* The committed wave boundary (node.rs, batch.rs).  What a fn asks for    *)
(* with ctx.rewire_next, up_next and down_next, and a rewire called in a   *)
(* batch, is queued in the graph of its target and applied after the wave, *)
(* or after the batch, has committed: the outermost wave drains the queue  *)
(* of its own graph and of the other graphs something was queued in.       *)
(*                                                                         *)
(* A task is applied as a wave of its own, which may queue more, pause and *)
(* resume nodes, and end with a drain of its own.  Rewires and ups of a    *)
(* paused node go back to the end of the queue.                            *)
(*                                                                         *)
(* Waves are opaque here: all that counts is what they queue, pause and    *)
(* resume.  `stack' holds the waves and drains in progress; a drain goes   *)
(* over the graphs in `todo', the first of which it is working on.  `missed' *)
(* and `aborted' only record what the properties have to excuse.           *)
(***************************************************************************)
EXTENDS Naturals, Sequences, SequencesExt, FiniteSets

CONSTANTS
    BoundaryGraphs, BoundaryNodes,
    GraphOf,          \* the graph of each node
    BoundaryRequests, \* <<node, kind>>: what may be queued
    MaxTasks, MaxBodies, MaxBatches,
    MaxToggles        \* bound on the nodes paused or dropped

VARIABLES
    bq                \* everything: a record (see BoundaryInit)

Frame(kind, roots, todo) ==
    [kind |-> kind, roots |-> roots, todo |-> todo, blocked |-> 0, escaped |-> FALSE, resumed |-> {}]
Wave(g) == Frame("wave", <<g>>, <<>>)
Drain(roots) == Frame("drain", roots, roots)

TopFrame(b) == Last(b.stack)
Popped(b) == [b EXCEPT !.stack = Front(@)]

\* The graphs a drain is under way in (draining_boundary).
Draining(b) == {b.stack[i].todo[1] : i \in {j \in DOMAIN b.stack : b.stack[j].kind = "drain"
                                                               /\ b.stack[j].todo # <<>>}}

InBatch(b) == b.batch.phase # "none"
InWave(b) == b.stack # <<>> /\ TopFrame(b).kind = "wave"

Committed(b, id) == b.tasks[id].token = 0 \/ b.tasks[id].token \in b.committed

AddRoot(roots, g) == IF Contains(roots, g) THEN roots ELSE Append(roots, g)

-----------------------------------------------------------------------------
(* What waves and batches do.                                              *)

\* A wave from outside, or from the body or the commit of a batch.
StartWave(g) ==
    /\ bq.stack = <<>> /\ bq.bodies < MaxBodies
    /\ bq' = [bq EXCEPT !.stack = <<Wave(g)>>, !.bodies = @ + 1]

\* defer_boundary: rewires called from outside are deferred in batches only.
Request(n, kind) ==
    LET g == GraphOf[n]
        queued == [bq EXCEPT
            !.tasks = Append(@, [node |-> n, kind |-> kind,
                                 token |-> IF InBatch(bq) THEN bq.batch.id ELSE 0]),
            !.queue[g] = Append(@, Len(bq.tasks) + 1),
            !.batch.roots = IF InBatch(bq) THEN AddRoot(@, g) ELSE @]
    IN  /\ Len(bq.tasks) < MaxTasks /\ n \in bq.live
        /\ IF kind = "external" THEN bq.batch.phase = "open" ELSE InWave(bq)
        /\ bq' = IF InWave(bq)
                 THEN [queued EXCEPT !.stack[Len(bq.stack)].roots = AddRoot(@, g)]
                 ELSE queued

Pause(n) ==
    /\ InWave(bq) /\ n \in bq.live \ bq.paused /\ bq.toggles < MaxToggles
    /\ bq' = [bq EXCEPT !.paused = @ \cup {n}, !.toggles = @ + 1]

\* pause_release: in a batch the graph is to be drained after the commit.
Resume(n) ==
    /\ InWave(bq) /\ n \in bq.live \cap bq.paused
    /\ bq' = [bq EXCEPT !.paused = @ \ {n},
                        !.batch.roots = IF InBatch(bq) THEN AddRoot(@, GraphOf[n]) ELSE @,
                        !.batch.resumed = IF InBatch(bq) THEN @ \cup {GraphOf[n]} ELSE @,
                        !.stack[Len(bq.stack)].resumed = @ \cup {GraphOf[n]}]

\* The last handle of a node goes away.
DropNode(n) ==
    /\ n \in bq.live /\ bq.toggles < MaxToggles
    /\ bq' = [bq EXCEPT !.live = @ \ {n}, !.toggles = @ + 1]

\* Outside a batch the wave goes over into the drain of its graphs.
EndWave ==
    LET w == TopFrame(bq)
    IN  /\ InWave(bq)
        /\ bq' = IF InBatch(bq) THEN Popped(bq)
                 ELSE [bq EXCEPT !.stack = Append(Front(@), Drain(w.roots)),
                                 !.missed = @ \cup (w.resumed \ (Range(w.roots) \cup Draining(bq)))]

-----------------------------------------------------------------------------
(* The drain.                                                              *)

Exhausted_Skips(b, g) == b.queue[g] = <<>> \/ TopFrame(b).blocked > 0

\* There is nothing to do for g, or all that is left has been found blocked.
Exhausted(b, g) == TopFrame(b).blocked >= Len(b.queue[g])

DrainingGraph(b) == b.stack # <<>> /\ TopFrame(b).kind = "drain" /\ TopFrame(b).todo # <<>>
Outer(b, g) == g \in Draining(Popped(b))

\* On to the next graph.  A drain further out takes care of its own graph.
NextGraph ==
    LET g == Head(TopFrame(bq).todo)
    IN  /\ DrainingGraph(bq)
        /\ Outer(bq, g) \/ Exhausted(bq, g)
        /\ bq' = [bq EXCEPT !.stack[Len(bq.stack)].todo = Tail(@),
                            !.stack[Len(bq.stack)].blocked = 0,
                            !.missed = @ \ {g}]

\* Run the first task: it is dropped, put back, or applied in a wave of its own.
RunTask ==
    LET f == Len(bq.stack)
        g == Head(TopFrame(bq).todo)
        id == Head(bq.queue[g])
        t == bq.tasks[id]
        taken == [bq EXCEPT !.queue[g] = Tail(@), !.stack[f].blocked = 0]
    IN  /\ DrainingGraph(bq) /\ ~Outer(bq, g) /\ ~Exhausted(bq, g)
        /\ bq' = IF ~Committed(bq, id) \/ t.node \notin bq.live THEN taken
                 ELSE IF t.kind \in {"rewire", "up"} /\ t.node \in bq.paused
                 THEN [bq EXCEPT !.queue[g] = Append(Tail(@), id), !.stack[f].blocked = @ + 1]
                 ELSE [taken EXCEPT !.applied = Append(@, id), !.stack = Append(@, Wave(g))]

\* A rewire from outside is rejected: the panic surfaces after the drain.
RejectTask ==
    LET f == Len(bq.stack)
        g == Head(TopFrame(bq).todo)
        id == Head(bq.queue[g])
    IN  /\ DrainingGraph(bq) /\ ~Outer(bq, g) /\ ~Exhausted(bq, g)
        /\ bq.tasks[id].kind = "external" /\ Committed(bq, id) /\ bq.tasks[id].node \in bq.live
        /\ bq' = [bq EXCEPT !.queue[g] = Tail(@), !.stack[f].blocked = 0,
                            !.stack[f].escaped = TRUE, !.applied = Append(@, id)]

\* What escaped is caught by the drain that applied the task, or by the caller.
EndDrain ==
    LET n == Popped(bq)
    IN  /\ bq.stack # <<>> /\ TopFrame(bq).kind = "drain" /\ TopFrame(bq).todo = <<>>
        /\ bq' = IF n.stack = <<>> THEN n
                 ELSE [n EXCEPT !.stack[Len(n.stack)].escaped = @ \/ TopFrame(bq).escaped]

Cleared(b, graphs) == [b EXCEPT !.queue = [g \in BoundaryGraphs |-> IF g \in graphs THEN <<>> ELSE @[g]]]

Discards(b, graphs) == UNION {Range(b.queue[g]) : g \in graphs}

RollBack(b) ==
    [b EXCEPT !.batch = [phase |-> "none", id |-> @.id, roots |-> <<>>, resumed |-> {}],
              !.queue = [g \in BoundaryGraphs |->
                           IF Contains(b.batch.roots, g)
                           THEN SelectSeq(@[g], LAMBDA id : Committed(b, id)) ELSE @[g]],
              !.missed = @ \cup b.batch.resumed]

\* The host aborts: every queue the waves and drains in progress would have
\* drained is emptied, and a batch is rolled back.
HostAbort ==
    LET graphs == UNION {Range(bq.stack[i].roots) : i \in DOMAIN bq.stack}
        b == [Cleared(bq, graphs) EXCEPT !.stack = <<>>,
                 !.aborted = @ \cup Discards(bq, graphs),
                 !.missed = @ \cup UNION {bq.stack[i].resumed : i \in DOMAIN bq.stack}]
    IN  /\ InWave(bq)
        /\ bq' = IF InBatch(bq) THEN RollBack(b) ELSE b

-----------------------------------------------------------------------------
(* Batches.                                                                *)

OpenBatch ==
    /\ bq.stack = <<>> /\ ~InBatch(bq) /\ bq.batch.id < MaxBatches
    /\ bq' = [bq EXCEPT !.batch = [phase |-> "open", id |-> @.id + 1, roots |-> <<>>, resumed |-> {}]]

\* The body returns: its waves are sent now, and may still queue more.
StartCommit ==
    /\ bq.stack = <<>> /\ bq.batch.phase = "open"
    /\ bq' = [bq EXCEPT !.batch.phase = "commit"]

FinishCommit ==
    /\ bq.stack = <<>> /\ bq.batch.phase = "commit"
    /\ bq' = [bq EXCEPT !.committed = @ \cup {bq.batch.id},
                        !.batch = [phase |-> "none", id |-> @.id, roots |-> <<>>, resumed |-> {}],
                        !.stack = <<Drain(bq.batch.roots)>>]

\* An explicit rollback, a panic of the body, or one of the commit.
FailBatch ==
    /\ bq.stack = <<>> /\ InBatch(bq)
    /\ bq' = RollBack(bq)

-----------------------------------------------------------------------------

BoundaryInit ==
    bq = [stack |-> <<>>, queue |-> [g \in BoundaryGraphs |-> <<>>], tasks |-> <<>>, applied |-> <<>>,
          live |-> BoundaryNodes, paused |-> {}, committed |-> {}, missed |-> {}, aborted |-> {},
          batch |-> [phase |-> "none", id |-> 0, roots |-> <<>>, resumed |-> {}],
          bodies |-> 0, toggles |-> 0]

BoundaryNext ==
    \/ \E g \in BoundaryGraphs : StartWave(g)
    \/ \E n \in BoundaryNodes : Pause(n) \/ Resume(n) \/ DropNode(n)
    \/ \E r \in BoundaryRequests : Request(r[1], r[2])
    \/ EndWave \/ NextGraph \/ RunTask \/ RejectTask \/ EndDrain \/ HostAbort
    \/ OpenBatch \/ StartCommit \/ FinishCommit \/ FailBatch

BoundarySpec == BoundaryInit /\ [][BoundaryNext]_bq

-----------------------------------------------------------------------------
(* Properties.                                                             *)

BoundaryIdle == bq.stack = <<>> /\ ~InBatch(bq)

\* Between two calls from outside a task that could be applied is not left in
\* its queue, where an unrelated later wave would apply it (node.rs, the comment
\* of drain_deferred_rewires), unless the target was resumed in a wave or batch
\* that does not drain its graph; nothing is applied twice; and nothing is lost
\* but with the batch that asked for it, with its target, or in an abort.
NoneStranded ==
    /\ IsInjective(bq.applied)
    /\ BoundaryIdle =>
         \A id \in DOMAIN bq.tasks :
            LET t == bq.tasks[id]
                g == GraphOf[t.node]
            IN  IF Contains(bq.queue[g], id)
                THEN /\ Committed(bq, id) /\ ~Contains(bq.applied, id)
                     /\ \/ t.node \notin bq.live \/ g \in bq.missed
                        \/ t.kind \in {"rewire", "up"} /\ t.node \in bq.paused
                ELSE \/ Contains(bq.applied, id) \/ id \in bq.aborted
                     \/ ~Committed(bq, id) \/ t.node \notin bq.live

=============================================================================
