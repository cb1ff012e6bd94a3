--------------------------- MODULE WorkerDerived ----------------------------
(***************************************************************************)
(* worker_derived (worker.rs): a node whose fn hands an input to a worker  *)
(* pool and sends the result in a later wave.  Invocations are numbered;   *)
(* the results come back in any order.                                     *)
(***************************************************************************)
EXTENDS Naturals, Sequences

CONSTANTS
    MaxInvocations

VARIABLES
    wk        \* the node, the jobs in flight and what the node has sent

NoJob == 0

Says(w, g, what) == [w EXCEPT !.out = Append(@, [by |-> g, what |-> what]),
                              !.ended = @ \/ what = "error"]

CanInvoke == wk.active /\ ~wk.ended /\ wk.latest < MaxInvocations

\* A run of the node drops the cleanup of the run before: only the latest job
\* can be cancelled.
Invoked == [wk EXCEPT !.latest = @ + 1, !.cancel = NoJob, !.ran = TRUE]

\* prepare has no input for the worker: the node settles without a value, and
\* an older job is superseded all the same.
InvokeWithoutInput ==
    /\ CanInvoke
    /\ wk' = Says(Invoked, wk.latest + 1, "resolved")

InvokeWorker ==
    /\ CanInvoke
    /\ wk' = [Invoked EXCEPT !.jobs = @ \cup {wk.latest + 1}, !.cancel = wk.latest + 1]

\* There is no async driver, no worker backend or no runtime.
SubmitFails ==
    /\ CanInvoke
    /\ wk' = Says(Invoked, wk.latest + 1, "error")

Current_Always(g) == TRUE

Current(g) == wk.latest = g

Finish(g, what) ==
    LET w == [wk EXCEPT !.jobs = @ \ {g}]
    IN  /\ g \in wk.jobs
        /\ wk' = IF Current(g) /\ ~wk.ended THEN Says(w, g, what) ELSE w

Deactivate ==
    /\ wk.active
    /\ wk' = [wk EXCEPT !.active = FALSE, !.ran = FALSE, !.jobs = @ \ {wk.cancel}, !.cancel = NoJob]

Activate ==
    /\ ~wk.active
    /\ wk' = [wk EXCEPT !.active = TRUE]

WorkerInit == wk = [latest |-> 0, jobs |-> {}, cancel |-> NoJob, active |-> FALSE, ran |-> FALSE,
                    out |-> <<>>, ended |-> FALSE]

WorkerNext ==
    \/ InvokeWithoutInput \/ InvokeWorker \/ SubmitFails \/ Deactivate \/ Activate
    \/ \E g \in wk.jobs, what \in {"value", "error"} : Finish(g, what)

WorkerSpec == WorkerInit /\ [][WorkerNext]_wk

-----------------------------------------------------------------------------
(* Properties.                                                             *)

\* What the node sends is never about an older input than what it sent before,
\* an inactive node sends nothing, and while no job of the latest invocation is
\* in flight the node has sent its outcome (the check of latest_invocation).
ResultsCurrent ==
    /\ \A i, j \in DOMAIN wk.out : i < j => wk.out[i].by < wk.out[j].by
    /\ ~wk.active => wk.latest \notin wk.jobs
    /\ wk.ran /\ ~wk.ended /\ wk.latest \notin wk.jobs => wk.out[Len(wk.out)].by = wk.latest

=============================================================================
