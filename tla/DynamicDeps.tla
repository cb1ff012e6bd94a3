---------------------------- MODULE DynamicDeps -----------------------------
(***************************************************************************)
(* switch_map, merge_map, concat_map and exhaust_map (higher_order.rs), and *)
(* delay and debounce (time.rs), which are a merge_map and a switch_map: an *)
(* operator node that projects the values of its source to inner nodes and *)
(* makes those its own dependencies.  It cannot change its dependencies    *)
(* while it runs: it queues rewires (ctx.rewire_next), which are applied   *)
(* one by one after the wave (node.rs).                                    *)
(*                                                                         *)
(* The operator keeps its inners in a list of its own, and reads what      *)
(* became of the i-th inner from its dependency i + 1: the two lists are   *)
(* meant to be the same whenever it matters.                               *)
(*                                                                         *)
(* A run is one atomic step, and so is the application of one rewire.  A   *)
(* consumer may pause the operator between the two: rewires of a paused    *)
(* node wait, and so do its runs.                                          *)
(***************************************************************************)
EXTENDS Naturals, Sequences, SequencesExt, FiniteSets

CONSTANTS
    Inners,      \* the nodes a projector may return
    Cases,       \* [mode, limit, cold, pauses, project]: the operators considered
    MaxValues,   \* bound on the values of the source, of which a wave may hold several
    MaxEmits     \* bound on the values of each inner

VARIABLES
    case,        \* the operator under consideration
    source,      \* what the source has sent: [sent, done]
    inner,       \* per inner node: [sent, done]
    op           \* the operator node and its boundary queue

depVars == <<case, source, inner, op>>

Source == "source"
Panics == "panics"   \* in place of an inner: the projector panics
NoLimit == 0

DepSlot(dep) == [dep |-> dep, batch |-> <<>>, ends |-> "none"]

Has(list, c) == Contains(list, c)

-----------------------------------------------------------------------------
(* The dependency slots of the operator.                                   *)

SlotOf(slots, c) == CHOOSE i \in DOMAIN slots : slots[i].dep = c

Deps(o) == [i \in DOMAIN o.slots |-> o.slots[i].dep]

\* A delivery goes to the slot its edge names; a run becomes due, at once or
\* after the pause.
Receive(o, c, batch, ends) ==
    IF c \notin DOMAIN o.edge THEN o
    ELSE [o EXCEPT !.slots[o.edge[c]].batch = @ \o batch,
                   !.slots[o.edge[c]].ends = IF ends = "none" THEN @ ELSE ends,
                   !.run = @ \/ (~o.paused /\ o.ended = "no"),
                   !.owed = @ \/ o.paused]

Rerouted_Added(o, slots) ==
    [c \in {slots[i].dep : i \in DOMAIN slots} |->
        IF c \in DOMAIN o.edge THEN o.edge[c] ELSE SlotOf(slots, c)]

\* A rewire moves the edges of the dependencies it keeps to their new slots.
Rerouted(o, slots) == [c \in {slots[i].dep : i \in DOMAIN slots} |-> SlotOf(slots, c)]

RewireTo(o, slots) == [o EXCEPT !.slots = slots, !.edge = Rerouted(o, slots)]

-----------------------------------------------------------------------------
(* One run of the operator.                                                *)

Consumed(o) == [o EXCEPT !.run = FALSE, !.slots = [i \in DOMAIN o.slots |-> DepSlot(o.slots[i].dep)]]

Forwarded(o) == FlattenSeq([i \in 1 .. Len(o.slots) - 1 |-> o.slots[i + 1].batch])

Fails(o) == [o EXCEPT !.ended = "error",
                      !.st = [inners |-> <<>>, queue |-> <<>>, done |-> TRUE],
                      !.boundary = @ \o [i \in DOMAIN o.st.inners |->
                                           [kind |-> "Remove", dep |-> o.st.inners[i]]]]

\* Projects one value: acc holds the inners, the ones to add and to remove.
Projected(acc, v) ==
    LET c == case.project[v]
    IN  CASE acc.panic -> acc
          [] ~acc.panic /\ c = Panics -> [acc EXCEPT !.panic = TRUE]
          [] ~acc.panic /\ c # Panics /\ (Has(acc.inners, c) \/ Has(acc.gone, c)) -> acc
          [] OTHER -> [acc EXCEPT !.inners = Append(@, c), !.add = Append(@, c)]

\* Only the latest value counts, and every other inner has to go.
Switched(acc, v) ==
    LET c == case.project[v]
        gone == acc.gone \o SelectSeq(acc.inners, LAMBDA d : d # c)
    IN  CASE c = Panics -> [acc EXCEPT !.panic = TRUE]
          [] c # Panics /\ Has(gone, c) -> [acc EXCEPT !.inners = <<>>, !.gone = gone]
          [] OTHER -> [acc EXCEPT !.inners = <<c>>, !.gone = gone,
                                  !.add = IF Has(acc.inners, c) THEN <<>> ELSE <<c>>]

\* While a slot is free the bounded merge_map projects what it has queued.
Filled(acc) ==
    LET F[n \in 0 .. Len(acc.queue)] ==
            IF n = 0 THEN acc
            ELSE LET a == F[n - 1]
                 IN  IF a.panic \/ Len(a.inners) >= case.limit THEN a
                     ELSE Projected([a EXCEPT !.queue = Tail(@)], Head(a.queue))
    IN  F[Len(acc.queue)]

\* concat_map starts the next value when nothing is live.
Followed(acc) ==
    IF acc.inners # <<>> \/ acc.queue = <<>> THEN acc
    ELSE Projected([acc EXCEPT !.queue = Tail(@)], Head(acc.queue))

Advance(acc, batch) ==
    LET queued == [acc EXCEPT !.queue = @ \o batch]
    IN  CASE case.mode = "switch" -> IF batch = <<>> THEN acc ELSE Switched(acc, Last(batch))
          [] case.mode = "merge" /\ case.limit = NoLimit -> FoldLeft(Projected, acc, batch)
          [] case.mode = "merge" /\ case.limit # NoLimit -> Filled(queued)
          [] case.mode = "concat" -> Followed(queued)
          [] case.mode = "exhaust" -> IF batch = <<>> \/ acc.inners # <<>> THEN acc
                                      ELSE Projected(acc, Head(batch))

Finished_SourceOnly(done, inners, queue) == done

\* The operator completes when its source has and nothing is live or queued.
Finished(done, inners, queue) == done /\ inners = <<>> /\ queue = <<>>

\* run_map_body
Body(o) ==
    LET n == [Consumed(o) EXCEPT !.out = @ \o Forwarded(o)]
        done == o.st.done \/ o.slots[1].ends = "complete"
        Over(i) == i + 1 \in DOMAIN o.slots /\ o.slots[i + 1].ends = "complete"
        Kept(over) == [i \in DOMAIN o.st.inners |-> IF Over(i) = over THEN o.st.inners[i] ELSE Panics]
        Named(list) == SelectSeq(list, LAMBDA c : c # Panics)
        a == Advance([inners |-> Named(Kept(FALSE)), gone |-> Named(Kept(TRUE)), add |-> <<>>,
                      queue |-> o.st.queue, panic |-> FALSE], o.slots[1].batch)
        Tasks(kind, list) == [i \in DOMAIN list |-> [kind |-> kind, dep |-> list[i]]]
    IN  IF \E i \in DOMAIN o.slots : o.slots[i].ends = "error" THEN Fails(n)
        ELSE IF a.panic THEN Fails([n EXCEPT !.st.inners = a.inners])
        ELSE [n EXCEPT !.st = [inners |-> a.inners, queue |-> a.queue, done |-> done],
                       !.boundary = @ \o Tasks("Remove", a.gone) \o Tasks("Add", a.add),
                       !.ended = IF Finished(done, a.inners, a.queue) THEN "complete" ELSE @]

OperatorRuns ==
    /\ op.run
    /\ op' = Body(op)
    /\ UNCHANGED <<case, source, inner>>

-----------------------------------------------------------------------------
(* The boundary after the wave.                                            *)

\* The front of the queue, unless the pause holds it back.
AtBoundary(kind) ==
    /\ ~op.run /\ ~op.paused
    /\ op.boundary # <<>> /\ Head(op.boundary).kind = kind

Drained == [op EXCEPT !.boundary = Tail(@)]

\* A dependency that is no longer there is not removed again.
DropDep ==
    LET c == Head(op.boundary).dep
    IN  /\ AtBoundary("Remove")
        /\ op' = RewireTo(Drained, SelectSeq(op.slots, LAMBDA s : s.dep # c))
        /\ UNCHANGED <<case, source, inner>>

\* A new dependency pushes what it has cached; a cold one starts, and ends,
\* within its activation.  A node that has ended cannot become a dependency.
AddDep ==
    LET c == Head(op.boundary).dep
        rewired == RewireTo(Drained, Append(op.slots, DepSlot(c)))
    IN  /\ AtBoundary("Add")
        /\ CASE Has(Deps(op), c) -> op' = Drained /\ UNCHANGED inner
             [] ~Has(Deps(op), c) /\ inner[c].done ->
                  /\ op' = IF op.ended = "no" THEN [Drained EXCEPT !.ended = "error"] ELSE Drained
                  /\ UNCHANGED inner
             [] ~Has(Deps(op), c) /\ ~inner[c].done /\ case.cold ->
                  /\ op' = Receive(rewired, c, <<<<c, 1>>>>, "complete")
                  /\ inner' = [inner EXCEPT ![c] = [sent |-> 1, done |-> TRUE]]
             [] OTHER ->
                  /\ op' = IF inner[c].sent = 0 THEN rewired
                           ELSE Receive(rewired, c, <<<<c, inner[c].sent>>>>, "none")
                  /\ UNCHANGED inner
        /\ UNCHANGED <<case, source>>

-----------------------------------------------------------------------------
(* What happens around the operator.                                       *)

Quiet == ~op.run /\ (op.boundary = <<>> \/ op.paused)

SourceWave(count, ends) ==
    /\ Quiet /\ ~source.done /\ source.sent + count <= MaxValues
    /\ count > 0 \/ ends # "none"
    /\ source' = [sent |-> source.sent + count, done |-> ends # "none"]
    /\ op' = Receive(op, Source, [i \in 1 .. count |-> source.sent + i], ends)
    /\ UNCHANGED <<case, inner>>

InnerEmits(c) ==
    /\ Quiet /\ ~case.cold /\ ~inner[c].done /\ inner[c].sent < MaxEmits
    /\ inner' = [inner EXCEPT ![c].sent = @ + 1]
    /\ op' = Receive(op, c, <<<<c, inner[c].sent + 1>>>>, "none")
    /\ UNCHANGED <<case, source>>

\* The inners of delay and debounce send their value and end in one wave.
DelayedValue(c) ==
    /\ Quiet /\ ~case.cold /\ ~inner[c].done /\ inner[c].sent = 0
    /\ inner' = [inner EXCEPT ![c] = [sent |-> 1, done |-> TRUE]]
    /\ op' = Receive(op, c, <<<<c, 1>>>>, "complete")
    /\ UNCHANGED <<case, source>>

InnerEnds(c, ends) ==
    /\ Quiet /\ ~case.cold /\ ~inner[c].done
    /\ inner' = [inner EXCEPT ![c].done = TRUE]
    /\ op' = Receive(op, c, <<>>, ends)
    /\ UNCHANGED <<case, source>>

PauseOp ==
    /\ case.pauses /\ ~op.run /\ ~op.paused
    /\ op' = [op EXCEPT !.paused = TRUE]
    /\ UNCHANGED <<case, source, inner>>

\* The run that the pause held back comes before the rewires it held back.
ResumeOp ==
    /\ op.paused
    /\ op' = [op EXCEPT !.paused = FALSE, !.owed = FALSE, !.run = op.owed /\ op.ended = "no"]
    /\ UNCHANGED <<case, source, inner>>

-----------------------------------------------------------------------------

DepInit ==
    /\ case \in Cases
    /\ source = [sent |-> 0, done |-> FALSE]
    /\ inner = [c \in Inners |-> [sent |-> 0, done |-> FALSE]]
    /\ op = [slots |-> <<DepSlot(Source)>>, edge |-> [c \in {Source} |-> 1], boundary |-> <<>>,
             st |-> [inners |-> <<>>, queue |-> <<>>, done |-> FALSE],
             run |-> FALSE, paused |-> FALSE, owed |-> FALSE, out |-> <<>>, ended |-> "no"]

DepNext ==
    \/ OperatorRuns \/ DropDep \/ AddDep \/ PauseOp \/ ResumeOp
    \/ \E count \in 0 .. MaxValues, ends \in {"none", "complete", "error"} : SourceWave(count, ends)
    \/ \E c \in Inners : InnerEmits(c) \/ DelayedValue(c) \/ \E ends \in {"complete", "error"} : InnerEnds(c, ends)

DepSpec == DepInit /\ [][DepNext]_depVars

-----------------------------------------------------------------------------
(* Properties.                                                             *)

Settled == Quiet /\ ~op.paused

\* Every edge leads to the slot of its own dependency, and once the boundary
\* is drained the inners the operator thinks it has are its dependencies, in
\* the same order (unless the operator has ended).
InnersAligned ==
    /\ DOMAIN op.edge = Range(Deps(op))
    /\ \A c \in DOMAIN op.edge : op.edge[c] \in DOMAIN op.slots /\ op.slots[op.edge[c]].dep = c
    /\ Settled /\ op.ended = "no" => Deps(op) = <<Source>> \o op.st.inners

\* The values whose inners the operator has to hear out: switch_map the latest
\* one, exhaust_map at least the first, the others all of them.
Owed == CASE case.mode = "switch" -> {source.sent} \ {0}
          [] case.mode = "exhaust" -> {1} \cap 1 .. source.sent
          [] OTHER -> 1 .. source.sent

\* When the source and every inner the operator is subscribed to have ended the
\* operator has ended too; and it completes no sooner than the inners it owes
\* its consumers (the last lines of run_map_body).
EndsWithItsInners ==
    /\ Settled /\ source.done /\ (\A c \in DOMAIN op.edge \ {Source} : inner[c].done)
          => op.ended # "no"
    /\ op.ended = "complete" => source.done /\ \A v \in Owed : inner[case.project[v]].done

=============================================================================
