------------------------------- MODULE Bridge -------------------------------
(***************************************************************************)
(* Two wire bridges of one session (adapters/bridge.rs), joined by a       *)
(* transport that may lose, repeat, delay and reorder envelopes.  An end   *)
(* numbers what it sends, accepts only the next number of its peer, and    *)
(* keeps what needs a receipt until an ack, a nack or the last timeout.    *)
(* A step of an end is one wave: the events it emits, in order, are what   *)
(* the nodes behind the bridge see.                                        *)
(***************************************************************************)
EXTENDS Integers, Sequences, FiniteSets, SequencesExt, TLC

CONSTANTS
    SeqMax,         \* the number that is never given out (u64::MAX); bounds what an end sends
    BridgeAttempts, \* RetryPolicy.max_attempts
    BridgeDelay,    \* the delay before each attempt
    BridgeTimes,    \* times a timeout command may report
    BridgeUses,     \* commands the user of each end gives
    NoTime,         \* an absent time
    NoPayload       \* an absent payload

ASSUME BridgeAssumption ==
    /\ SeqMax \in Nat \ {0} /\ BridgeAttempts \in Nat \ {0}
    /\ BridgeDelay \in [1..BridgeAttempts -> Nat]
    /\ BridgeTimes \subseteq Nat /\ NoTime \notin Nat

VARIABLES
    bridge,    \* BridgeState of each end, the events of the wave under way, and two histories:
               \* what the end has sent, by number, and what it has accepted, in order
    network    \* envelopes on their way to each end

bridgeVars == <<bridge, network>>

Ends == {"caller", "responder"}
Peer(e) == IF e = "caller" THEN "responder" ELSE "caller"

Content(env) == [type |-> env.type, payload |-> env.payload, ackFor |-> env.ackFor]

\* should_track_ack
Tracked == {"Start", "Data", "Close"}

NoPending == [s \in {} |-> s]
Without(f, s) == [x \in DOMAIN f \ {s} |-> f[x]]
With(f, s, v) == [x \in DOMAIN f \cup {s} |-> IF x = s THEN v ELSE f[x]]

NewBridge == [next |-> 1, cursor |-> 0, remote |-> 0, pending |-> NoPending,
              events |-> <<>>, sent |-> <<>>, accepted |-> <<>>]

BridgeInit ==
    /\ bridge = [e \in Ends |-> NewBridge]
    /\ network = [e \in Ends |-> {}]

\* Events of one wave, in the order the nodes behind the bridge see them.
Emit(b, ev) == [b EXCEPT !.events = Append(@, ev)]

-----------------------------------------------------------------------------
(* Commands *)

\* emit_outbound: a close forgets what is waited for.
EmitOutbound(b, type, payload, ackFor) ==
    LET env == [type |-> type, seq |-> b.next, cursor |-> b.cursor, attempt |-> 1,
                payload |-> payload, ackFor |-> ackFor]
        kept == IF type = "Close" THEN NoPending ELSE b.pending
        entry == [env |-> env, reported |-> 0, due |-> NoTime]
        moved == [b EXCEPT !.next = @ + 1,
                           !.pending = IF type \in Tracked THEN With(kept, b.next, entry) ELSE kept,
                           !.sent = Append(@, Content(env))]
    IN  IF b.next = SeqMax THEN Emit(b, [kind |-> "Invalid"])
        ELSE Emit(moved, [kind |-> "Outbound", env |-> env])

\* emit_retry_outbound: the same number and payload, the cursor of now.
EmitRetry(b, s) ==
    LET env == [b.pending[s].env EXCEPT !.attempt = @ + 1, !.cursor = b.cursor]
    IN  Emit([b EXCEPT !.pending[s] = [env |-> env, reported |-> 0, due |-> NoTime]],
             [kind |-> "Outbound", env |-> env])

\* process_ack_timeout_command: reports the attempt once, then retries it when it is due.
AckTimeout(b, s, attempt, observed) ==
    LET p == b.pending[s]
        early == p.due # NoTime /\ observed # NoTime /\ observed < p.due
        due == IF BridgeDelay[attempt + 1] > 0 /\ observed # NoTime
               THEN observed + BridgeDelay[attempt + 1] ELSE NoTime
        reported == Emit(Emit([b EXCEPT !.pending[s] = [env |-> p.env, reported |-> attempt, due |-> due]],
                              [kind |-> "Timeout", seq |-> s]), [kind |-> "Retry", seq |-> s])
    IN  CASE s \notin DOMAIN b.pending -> b
          [] s \in DOMAIN b.pending /\ p.env.attempt # attempt -> b
          [] s \in DOMAIN b.pending /\ p.env.attempt = attempt /\ p.reported = attempt ->
                 IF early THEN b ELSE EmitRetry(b, s)
          [] OTHER ->
                 IF attempt >= BridgeAttempts
                 THEN Emit(Emit([b EXCEPT !.pending = Without(@, s)], [kind |-> "Timeout", seq |-> s]),
                           [kind |-> "Exhausted", seq |-> s])
                 ELSE IF due # NoTime THEN reported ELSE EmitRetry(reported, s)

-----------------------------------------------------------------------------
(* Envelopes of the peer *)

\* process_ack, process_nack
Receipt(b, env) ==
    IF env.ackFor \in DOMAIN b.pending
    THEN Emit([b EXCEPT !.pending = Without(@, env.ackFor)],
              [kind |-> env.type, env |-> b.pending[env.ackFor].env])
    ELSE Emit(b, [kind |-> "LateReceipt"])

Verdict_Gaps(cursor, remote, env) ==
    CASE env.seq <= cursor     -> "Duplicate"
      [] env.cursor < remote   -> "Invalid"
      [] OTHER                 -> "Inbound"

\* What an end makes of the number and the cursor of an envelope.
Verdict(cursor, remote, env) ==
    CASE env.seq <= cursor     -> "Duplicate"
      [] env.seq > cursor + 1  -> "OutOfOrder"
      [] env.cursor < remote   -> "Invalid"
      [] OTHER                 -> "Inbound"

ProcessInbound(b, env) ==
    LET v == Verdict(b.cursor, b.remote, env)
        taken == Emit([b EXCEPT !.cursor = env.seq, !.remote = env.cursor, !.accepted = Append(@, Content(env))],
                      [kind |-> "Inbound", env |-> env])
    IN  IF v # "Inbound" THEN Emit(b, [kind |-> v])
        ELSE IF env.type \in {"Ack", "Nack"} THEN Receipt(taken, env) ELSE taken

-----------------------------------------------------------------------------
\* A wave at an end: the outbound envelopes among its events go to the network.
Departing(b) == {b.events[i].env : i \in {j \in DOMAIN b.events : b.events[j].kind = "Outbound"}}

Settle(e, b) ==
    /\ bridge' = [bridge EXCEPT ![e] = [b EXCEPT !.events = <<>>]]
    /\ network' = [network EXCEPT ![Peer(e)] = @ \cup Departing(b)]

\* Commands of the user of an end: start, data, close, receipts of what was received, and reports of missing receipts.
BridgeCommands(b, uses) ==
    {EmitOutbound(b, type, NoPayload, 0) : type \in uses \cap {"Start", "Data", "Close"}}
        \cup {EmitOutbound(b, type, NoPayload, s) : type \in uses \cap {"Ack", "Nack"}, s \in 1..b.cursor}
        \cup {AckTimeout(b, s, attempt, t) :
                 s \in IF "Timeout" \in uses THEN DOMAIN b.pending ELSE {},
                 attempt \in 1..BridgeAttempts, t \in BridgeTimes \cup {NoTime}}

BridgeNext ==
    \E e \in Ends :
        \/ \E b \in BridgeCommands(bridge[e], BridgeUses[e]) : Settle(e, b)
        \/ \E env \in network[e] : Settle(e, ProcessInbound(bridge[e], env))

BridgeSpec == BridgeInit /\ [][BridgeNext]_bridgeVars
-----------------------------------------------------------------------------
(* Properties *)

\* Whatever the transport does and however often envelopes are retried, an end accepts exactly what its peer sent,
\* in the order it was sent, without gaps and without repetition (process_inbound, emit_retry_outbound).
AcceptedInOrder == \A e \in Ends : IsPrefix(bridge[e].accepted, bridge[Peer(e)].sent)
=============================================================================
