--------------------------- MODULE TimeOperators ----------------------------
(***************************************************************************)
(* throttle, audit, timeout and buffer_time (time.rs): operators that have *)
(* a timer, or a notifier, as a dependency next to their source, and add,  *)
(* replace and remove it with rewires.                                     *)
(*                                                                         *)
(* A run and the rewires it asks for are one step.  While the operator is  *)
(* paused what its dependencies send accumulates, so that one run may find *)
(* values, the end of the source and the timer together.  The values of    *)
(* the source are 1, 2, ...                                                *)
(***************************************************************************)
EXTENDS Naturals, Sequences, SequencesExt

CONSTANTS
    TimedOps,    \* "throttle", "audit", "shared" (audit, one notifier), "timeout", "buffer"
    MaxInputs,   \* bound on the values of the source
    MaxTicks     \* bound on what buffer_time sends

ASSUME TimedAssumption == TimedOps \subseteq {"throttle", "audit", "shared", "timeout", "buffer"}

VARIABLES
    td           \* the operator, its source and its timer; `stale' records
                 \* whether a value has come since the timer was started

None == 0        \* no timer, no value

-----------------------------------------------------------------------------
(* The run of each operator.                                               *)

Fired(o) == o.timer # None /\ o.fired = "fires"

Ended(o, how) == [o EXCEPT !.ended = how, !.timer = None, !.latest = None, !.buffer = <<>>]

Emitted(o, v) == [o EXCEPT !.out = Append(@, v)]

Armed(o) == [o EXCEPT !.made = @ + 1, !.timer = o.made + 1, !.stale = FALSE]

\* run_throttle_body: the first value of a window is sent and opens it.
Throttle(o) ==
    LET closed == IF Fired(o) THEN [o EXCEPT !.timer = None] ELSE o
        opened == IF o.done \/ closed.timer # None \/ o.batch = <<>> THEN closed
                  ELSE Armed(Emitted(closed, Head(o.batch)))
        done == o.done \/ o.ends = "complete"
    IN  IF o.ends = "error" \/ o.fired = "error" THEN Ended([o EXCEPT !.done = TRUE], "error")
        ELSE IF done /\ opened.timer = None THEN Ended([opened EXCEPT !.done = TRUE], "complete")
        ELSE [opened EXCEPT !.done = done]

\* The next window has the notifier of the one that was just closed: what it
\* pushes when it is subscribed again is not a new signal.
Opens(o, closed) ==
    IF o.op = "shared" THEN [closed EXCEPT !.timer = 1, !.made = 1, !.suppress = Fired(o) /\ ~o.suppress]
    ELSE [Armed(closed) EXCEPT !.suppress = FALSE]

\* run_audit_body: the latest value of a window is sent when it closes.
Audit(o) ==
    LET closes == Fired(o) /\ ~o.suppress
        closed == IF closes
                  THEN [(IF o.latest = None THEN o ELSE Emitted(o, o.latest))
                        EXCEPT !.timer = None, !.latest = None, !.suppress = FALSE]
                  ELSE [o EXCEPT !.suppress = @ /\ ~Fired(o)]
        filled == IF o.batch = <<>> THEN closed ELSE [closed EXCEPT !.latest = Last(o.batch)]
    IN  IF o.ends = "error" \/ o.fired = "error" THEN Ended(closed, "error")
        ELSE IF o.ends = "complete"
        THEN Ended(IF filled.latest = None THEN filled ELSE Emitted(filled, filled.latest), "complete")
        ELSE IF filled.timer = None /\ o.batch # <<>> THEN Opens(o, filled)
        ELSE filled

Timeout_TimerFirst(o) ==
    IF Fired(o) THEN Ended(o, "timeout")
    ELSE LET sent == [o EXCEPT !.out = @ \o o.batch]
         IN  IF o.ends # "none" THEN Ended(sent, o.ends)
             ELSE IF o.batch # <<>> THEN Armed(sent)
             ELSE IF o.fired = "error" THEN Ended(sent, "error")
             ELSE sent

\* run_timeout_body: a value starts the timer again, also in the run in which
\* the old timer fires.
Timeout(o) ==
    LET sent == [o EXCEPT !.out = @ \o o.batch]
    IN  IF o.ends # "none" THEN Ended(sent, o.ends)
        ELSE IF o.batch # <<>> THEN Armed(sent)
        ELSE IF o.fired = "error" THEN Ended(sent, "error")
        ELSE IF Fired(o) THEN Ended(sent, "timeout")
        ELSE sent

\* run_buffer_time_body: the interval sends what was collected, if only nothing.
BufferTime(o) ==
    LET filled == [o EXCEPT !.buffer = @ \o o.batch]
        flushed == Emitted(filled, filled.buffer)
    IN  IF o.ends = "complete" THEN Ended(IF filled.buffer = <<>> THEN filled ELSE flushed, "complete")
        ELSE IF o.ends = "error" \/ o.fired = "error" THEN Ended(filled, "error")
        ELSE IF o.fired = "fires" THEN [flushed EXCEPT !.buffer = <<>>]
        ELSE filled

RunOf(o) == CASE o.op = "throttle" -> Throttle(o)
              [] o.op \in {"audit", "shared"} -> Audit(o)
              [] o.op = "timeout" -> Timeout(o)
              [] o.op = "buffer" -> BufferTime(o)

Due(o) == o.ended = "no" /\ ~o.paused /\ (o.batch # <<>> \/ o.ends # "none" \/ o.fired # "no")

\* A run consumes what has accumulated.  A shared notifier that has a value
\* pushes it when it is subscribed again.
OperatorRun ==
    LET n == [RunOf(td) EXCEPT !.batch = <<>>, !.ends = "none", !.fired = "no"]
        again == td.op = "shared" /\ n.timer # None /\ td.cached /\ (td.timer = None \/ n.suppress)
    IN  /\ Due(td)
        /\ td' = IF again THEN [n EXCEPT !.fired = "fires"] ELSE n

-----------------------------------------------------------------------------
(* What happens around the operator.                                       *)

SourceSends(count, ends) ==
    /\ ~Due(td) /\ td.ended = "no" /\ ~td.over
    /\ count > 0 \/ ends # "none"
    /\ td.sent + count <= MaxInputs
    /\ td' = [td EXCEPT !.batch = @ \o [i \in 1 .. count |-> td.sent + i], !.sent = @ + count,
                        !.ends = ends, !.over = ends # "none",
                        !.stale = @ \/ count > 0]

\* The timer the operator depends on fires, or fails: there is no async driver.
TimerFires(how) ==
    /\ ~Due(td) /\ td.ended = "no" /\ td.timer # None /\ td.fired = "no"
    /\ how = "error" => td.op # "shared"
    /\ td.op = "buffer" => Len(td.out) < MaxTicks
    /\ td' = [td EXCEPT !.fired = how, !.cached = TRUE]

PauseOperator ==
    /\ ~Due(td) /\ td.ended = "no"
    /\ td' = [td EXCEPT !.paused = ~@]

-----------------------------------------------------------------------------

\* timeout and buffer_time start with their timer, the others without.
FirstTimer(op) == IF op \in {"timeout", "buffer"} THEN 1 ELSE None

TimedInit ==
    \E op \in TimedOps :
        LET first == FirstTimer(op)
        IN  td = [op |-> op, timer |-> first, made |-> first, done |-> FALSE, latest |-> None,
                  suppress |-> FALSE, buffer |-> <<>>, batch |-> <<>>, ends |-> "none",
                  fired |-> "no", cached |-> FALSE, stale |-> FALSE, paused |-> FALSE,
                  sent |-> 0, over |-> FALSE, out |-> <<>>, ended |-> "no"]

TimedNext ==
    \/ OperatorRun \/ PauseOperator
    \/ \E count \in 0 .. 2, ends \in {"none", "complete", "error"} : SourceSends(count, ends)
    \/ \E how \in {"fires", "error"} : TimerFires(how)

TimedSpec == TimedInit /\ [][TimedNext]_td

-----------------------------------------------------------------------------
(* Properties.                                                             *)

\* The number of the values a run has been given.
Taken(o) == o.sent - Len(o.batch)

\* The lists hold 1, ..., n, each once, in this order.
Chained(lists, n) ==
    /\ \A k \in DOMAIN lists : \A i \in DOMAIN lists[k] : lists[k][i] \in 1 .. n
    /\ \A v \in 1 .. n : \E k \in DOMAIN lists : \E i \in DOMAIN lists[k] : lists[k][i] = v
    /\ \A k, l \in DOMAIN lists : \A i \in DOMAIN lists[k], j \in DOMAIN lists[l] :
          k < l \/ (k = l /\ i < j) => lists[k][i] < lists[l][j]

\* throttle has sent one value per window, audit at its end the last value of its
\* source, timeout every value it was given, and buffer_time has sent or holds
\* each of them exactly once and in order; none goes on when its source has ended
\* and nothing is left to wait for; and timeout gives up only when no value has
\* come since its timer was started (the bodies in time.rs).
NothingDropped ==
    /\ td.op = "throttle" => Len(td.out) = td.made
    /\ td.over /\ ~Due(td) /\ ~td.paused /\ td.timer = None => td.ended # "no"
    /\ td.op \in {"audit", "shared"} /\ td.ended = "complete" /\ td.sent > 0 => Last(td.out) = td.sent
    /\ td.op = "timeout" => td.out = [i \in 1 .. Taken(td) |-> i]
    /\ td.op = "buffer" /\ td.ended # "error" => Chained(Append(td.out, td.buffer), Taken(td))
    /\ td.ended = "timeout" => ~td.stale

=============================================================================
