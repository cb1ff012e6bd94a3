-------------------------- MODULE OutboundAdapter ---------------------------
(***************************************************************************)
(* The outbound adapters to_http, to_process and to_websocket              *)
(* (adapters/environment.rs): an events node that sends every value of its *)
(* source through a driver, retries a failed send under a policy, and a    *)
(* status node that counts what is in flight.                              *)
(*                                                                         *)
(* A value is its position in posts.  The source may end while sends are   *)
(* in flight: the events node then completes by itself, later reports are  *)
(* dropped and later retries are still made.                               *)
(***************************************************************************)
EXTENDS Naturals, Sequences, FiniteSets

CONSTANTS
    ObAttempts,   \* RetryPolicy.max_attempts
    ObDelays,     \* the delay before each attempt, 0: at once
    ObTimers,     \* whether the graph has an async driver: the cases to consider
    ObValues      \* bound on the values the source emits

ASSUME ObAssumption == /\ ObAttempts \in Nat \ {0} /\ ObTimers \subseteq BOOLEAN
                       /\ ObDelays \in [1 .. ObAttempts -> Nat]

VARIABLES
    timed,        \* the graph has an async driver
    posts,        \* per value: what it is doing, and its attempt
    outbound,     \* the events node: "open", "ended" (terminal) or "inactive"
    obStatus,     \* the status node's reduction
    unreported    \* the reports dropped because the node was terminal

obVars == <<timed, posts, outbound, obStatus, unreported>>

-----------------------------------------------------------------------------

\* reduce_status; attempt and last_delay_ms are left out.
ReduceStatus_RetryInFlight(status, event) ==
    [state |-> [Attempt |-> "Running", Retry |-> "Waiting",
                Sent |-> "Succeeded", Exhausted |-> "Exhausted"][event],
     inFlight |-> CASE event = "Attempt" -> status.inFlight + 1
                    [] event = "Retry" -> status.inFlight
                    [] OTHER -> IF status.inFlight = 0 THEN 0 ELSE status.inFlight - 1,
     sent |-> IF event = "Sent" THEN status.sent + 1 ELSE status.sent,
     failed |-> IF event = "Exhausted" THEN status.failed + 1 ELSE status.failed]

ReduceStatus(status, event) ==
    [state |-> [Attempt |-> "Running", Retry |-> "Waiting",
                Sent |-> "Succeeded", Exhausted |-> "Exhausted"][event],
     inFlight |-> CASE event = "Attempt" -> status.inFlight + 1
                    [] event # "Attempt" /\ status.inFlight > 0 -> status.inFlight - 1
                    [] OTHER -> 0,
     sent |-> IF event = "Sent" THEN status.sent + 1 ELSE status.sent,
     failed |-> IF event = "Exhausted" THEN status.failed + 1 ELSE status.failed]

\* A terminal events node drops what is emitted on it.
Report(events) ==
    IF outbound = "open"
    THEN /\ obStatus' = (LET After[n \in 0 .. Len(events)] ==
                                 IF n = 0 THEN obStatus ELSE ReduceStatus(After[n - 1], events[n])
                         IN  After[Len(events)])
         /\ UNCHANGED unreported
    ELSE /\ unreported' = unreported + Len(events)
         /\ UNCHANGED obStatus

-----------------------------------------------------------------------------
(* The events node.                                                        *)

\* The node runs on a value of its source.  A driver that cannot send at all
\* exhausts the value at once and fails the node.
Post(capable) ==
    /\ outbound = "open" /\ Len(posts) < ObValues
    /\ posts' = Append(posts, [doing |-> IF capable THEN "sending" ELSE "exhausted",
                               attempt |-> 1])
    /\ Report(IF capable THEN <<"Attempt">> ELSE <<"Attempt", "Exhausted">>)
    /\ outbound' = IF capable THEN "open" ELSE "ended"

\* The source completes or fails: the node follows it, and does not run.
SourceEnds ==
    /\ outbound = "open"
    /\ outbound' = "ended"
    /\ UNCHANGED <<posts, obStatus, unreported>>

\* Deactivation cancels what is in flight and asleep.
Unwatched ==
    /\ outbound # "inactive"
    /\ outbound' = "inactive"
    /\ posts' = [i \in DOMAIN posts |->
                   IF posts[i].doing \in {"sending", "waiting"}
                   THEN [posts[i] EXCEPT !.doing = "canceled"] ELSE posts[i]]
    /\ UNCHANGED <<obStatus, unreported>>

Becomes(i, doing) == posts' = [posts EXCEPT ![i].doing = doing]

Sending(i) == outbound # "inactive" /\ posts[i].doing = "sending"

Delivered(i) ==
    /\ Sending(i)
    /\ Becomes(i, "sent") /\ Report(<<"Sent">>)
    /\ UNCHANGED outbound

GivenUp(i) ==
    /\ Sending(i) /\ posts[i].attempt >= ObAttempts
    /\ Becomes(i, "exhausted") /\ Report(<<"Exhausted">>)
    /\ UNCHANGED outbound

\* A delayed retry without an async driver fails the value and the node.
CannotWait(i) ==
    /\ Sending(i) /\ posts[i].attempt < ObAttempts
    /\ ObDelays[posts[i].attempt + 1] > 0 /\ ~timed
    /\ Becomes(i, "exhausted") /\ Report(<<"Exhausted">>)
    /\ outbound' = "ended"

RetriedAtOnce(i) ==
    /\ Sending(i) /\ posts[i].attempt < ObAttempts
    /\ ObDelays[posts[i].attempt + 1] = 0
    /\ posts' = [posts EXCEPT ![i].attempt = @ + 1]
    /\ Report(<<"Retry", "Attempt">>)
    /\ UNCHANGED outbound

RetriedLater(i) ==
    /\ Sending(i) /\ posts[i].attempt < ObAttempts
    /\ ObDelays[posts[i].attempt + 1] > 0 /\ timed
    /\ Becomes(i, "waiting") /\ Report(<<"Retry">>)
    /\ UNCHANGED outbound

Wakes(i) ==
    /\ outbound # "inactive" /\ posts[i].doing = "waiting"
    /\ posts' = [posts EXCEPT ![i] = [doing |-> "sending", attempt |-> @.attempt + 1]]
    /\ Report(<<"Attempt">>)
    /\ UNCHANGED outbound

-----------------------------------------------------------------------------

ObInit ==
    /\ timed \in ObTimers /\ posts = <<>> /\ outbound = "open" /\ unreported = 0
    /\ obStatus = [state |-> "Idle", inFlight |-> 0, sent |-> 0, failed |-> 0]

ObNext ==
    /\ UNCHANGED timed
    /\ \/ \E capable \in BOOLEAN : Post(capable)
       \/ SourceEnds \/ Unwatched
       \/ \E i \in DOMAIN posts : \/ Delivered(i) \/ GivenUp(i) \/ CannotWait(i)
                                  \/ RetriedAtOnce(i) \/ RetriedLater(i) \/ Wakes(i)

ObSpec == ObInit /\ [][ObNext]_obVars

-----------------------------------------------------------------------------
(* Properties.                                                             *)

Doing(what) == Cardinality({i \in DOMAIN posts : posts[i].doing = what})

\* The status node, which sees only events and lowers its count with a
\* saturating subtraction, knows how many sends are in flight, made and given
\* up; once the source has ended it is out by no more than the reports dropped.
OutboundCounted ==
    LET Off(a, b) == IF a > b THEN a - b ELSE b - a
    IN  outbound # "inactive" =>
            /\ Off(obStatus.inFlight, Doing("sending")) <= unreported
            /\ Off(obStatus.sent, Doing("sent")) + Off(obStatus.failed, Doing("exhausted"))
                  <= unreported

=============================================================================
