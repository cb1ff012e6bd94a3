-------------------------- MODULE WebSocketSession --------------------------
(***************************************************************************)
(* A WebSocket session bundle (adapters/environment.rs): an events node    *)
(* that obeys Start, Send and Close commands, keeps one connection open,   *)
(* reconnects under a retry policy, and reports what became of every       *)
(* outbound message, together with the session half of the Tokio driver    *)
(* that calls it back (environment.rs).                                    *)
(*                                                                         *)
(* A message is its sequence number, a connection its position in          *)
(* web.conns.  The driver may answer a send after the session gave it up,  *)
(* and a connection that was asked to close may still deliver what the     *)
(* peer had sent: the bundle has to fence both.  Reactivating the node     *)
(* makes a new state cell, so a behaviour ends with the deactivation.      *)
(***************************************************************************)
EXTENDS Naturals, Sequences, SequencesExt, FiniteSets

CONSTANTS
    WsAttempts,       \* RetryPolicy.max_attempts
    WsDelays,         \* the delay before each attempt, 0: at once
    WsBuffer,         \* send policy Buffer{max_pending}, 0: Reject
    WsMessages,       \* bound on the messages sent
    WsConnections     \* no Start once this many connections were made

ASSUME WsAssumption == /\ WsAttempts \in Nat \ {0} /\ WsBuffer \in Nat
                       /\ WsDelays \in [1 .. WsAttempts -> Nat]

VARIABLE web          \* the state cell, the driver's side and what was reported

NoConnection == 0

NewSession == [active |-> TRUE, connected |-> FALSE, waiting |-> FALSE, attempt |-> 0,
         session |-> NoConnection, pending |-> <<>>, live |-> <<>>, next |-> 0,
         timer |-> 0, conns |-> <<>>, outstanding |-> {}, facts |-> <<>>,
         status |-> [state |-> "Idle", attempt |-> 0]]

-----------------------------------------------------------------------------
(* What the bundle reports.                                                *)

\* The status node's reducer, its counters left out.
StateAfter == [Attempt |-> "Connecting", Open |-> "Open", Closing |-> "Closing",
               Closed |-> "Closed", Retry |-> "Waiting", Error |-> "Errored",
               Exhausted |-> "Exhausted"]

Notify(w, event, attempt) ==
    [w EXCEPT !.status = [state |-> StateAfter[event],
                          attempt |-> IF attempt = 0 THEN @.attempt ELSE attempt]]

Outbound(w, fact, items) ==
    [w EXCEPT !.facts = @ \o [i \in 1 .. Len(items) |-> [fact |-> fact, seq |-> items[i]]]]

-----------------------------------------------------------------------------
(* Closing a connection.                                                   *)

\* close_websocket_session_connection, and the end of the handle it took out:
\* canceled or dropped ("gone"), or asked to close ("closing").
CloseConnection(w, ending) ==
    [w EXCEPT !.connected = FALSE, !.attempt = 0, !.session = NoConnection, !.live = <<>>,
              !.conns = IF w.session = NoConnection THEN @
                        ELSE [@ EXCEPT ![w.session].phase = ending]]

CancelLive(w, ending) == Outbound(CloseConnection(w, ending), "Canceled", w.live)

DrainPending(w, fact) == Outbound([w EXCEPT !.pending = <<>>], fact, w.pending)

Exhaust(w, attempt) == Notify(DrainPending(CancelLive(w, "gone"), "Rejected"), "Exhausted", attempt)

CancelTimers(w) == [w EXCEPT !.waiting = FALSE, !.timer = 0]

-----------------------------------------------------------------------------
(* Sending.                                                                *)

SendRefused(w, q, attempt) == Notify(Outbound(w, "Rejected", <<q>>), "Error", attempt)

SendAll(w, items) ==
    Outbound([w EXCEPT !.live = @ \o items, !.outstanding = @ \cup Range(items)], "Sending", items)

SendItem(w, q) == IF w.session = NoConnection THEN SendRefused(w, q, 0) ELSE SendAll(w, <<q>>)

SendMessage(v) ==
    LET q == v.next
        w == [v EXCEPT !.next = @ + 1]
    IN  CASE w.connected -> SendItem(w, q)
          [] ~w.connected /\ Len(w.pending) < WsBuffer ->
                Outbound([w EXCEPT !.pending = Append(@, q)], "Queued", <<q>>)
          [] OTHER -> SendRefused(w, q, w.attempt)

\* Before the handle of the connection is stored everything is given up.
FlushPending(w) ==
    IF w.session = NoConnection THEN DrainPending(w, "Canceled")
    ELSE SendAll([w EXCEPT !.pending = <<>>], w.pending)

-----------------------------------------------------------------------------
(* Attempts.                                                               *)

SessionOpened(w, attempt) == FlushPending(Notify([w EXCEPT !.connected = TRUE], "Open", attempt))

\* how: the driver has no sessions ("none"), calls Open from within
\* connect_session ("inside"), or calls back later.
StartAttempt(w, attempt, how) ==
    IF ~w.active \/ w.connected \/ w.attempt # 0 \/ w.waiting THEN w
    ELSE LET a == Notify([w EXCEPT !.attempt = attempt], "Attempt", attempt)
             c == [attempt |-> attempt,
                   phase |-> IF how = "inside" THEN "open" ELSE "connecting"]
             o == IF how = "inside" THEN SessionOpened(a, attempt) ELSE a
         IN  IF how = "none" THEN Exhaust(a, attempt)
             ELSE [o EXCEPT !.conns = Append(@, c), !.session = Len(w.conns) + 1]

RetryOrExhaust(v, attempt, how) ==
    LET w == CancelLive(v, "gone")
        r == Notify(w, "Retry", attempt)
    IN  CASE attempt >= WsAttempts -> Exhaust(w, attempt)
          [] attempt < WsAttempts /\ WsDelays[attempt + 1] = 0 -> StartAttempt(r, attempt + 1, how)
          [] OTHER -> [r EXCEPT !.waiting = TRUE, !.timer = attempt + 1]

-----------------------------------------------------------------------------
(* The commands.                                                           *)

StartSession(how) ==
    /\ web.active /\ Len(web.conns) < WsConnections
    /\ web' = StartAttempt(web, 1, how)

SendCommand ==
    /\ web.active /\ web.next < WsMessages
    /\ web' = SendMessage(web)

CloseCommand ==
    /\ web.active
    /\ LET c == Notify(CancelTimers(web), "Closing", 0)
       IN  web' = Notify(DrainPending(CancelLive(c, "closing"), "Canceled"), "Closed", 0)

Deactivate ==
    /\ web.active
    /\ web' = CloseConnection(CancelTimers([web EXCEPT !.active = FALSE]), "gone")

-----------------------------------------------------------------------------
(* The driver's callbacks.                                                 *)

\* The fence: the callback's attempt number is the current one.
IsCurrent(w, c) == w.active /\ w.attempt = w.conns[c].attempt

\* The connection of a callback goes on to the phase.
Phased(c, phase) == [web EXCEPT !.conns[c].phase = phase]

\* The callback of connection c leads to v, or does nothing more than w.
\* The fence compares attempt numbers, which begin at 1 again with every Start.
CallBack(c, w, v) == web' = IF IsCurrent(web, c) THEN v ELSE w

ConnectionOpens(c) ==
    /\ web.conns[c].phase = "connecting"
    /\ LET w == Phased(c, "open")
       IN  CallBack(c, w, SessionOpened(w, web.conns[c].attempt))

\* The event of a received message: the bundle's own state stays.
ConnectionDelivers(c) ==
    /\ web.conns[c].phase \in {"open", "closing"}
    /\ CallBack(c, web, web)

ConnectionCloses(c, normal, how) ==
    /\ web.conns[c].phase \in {"open", "closing"}
    /\ LET w == Phased(c, "gone")
           x == Notify(CancelLive(w, "gone"), "Closed", 0)
       IN  CallBack(c, w, IF normal THEN DrainPending(x, "Canceled")
                          ELSE RetryOrExhaust(x, web.conns[c].attempt, how))

ConnectionFails(c, how) ==
    /\ web.conns[c].phase # "gone"
    /\ LET w == Phased(c, "gone")
       IN  CallBack(c, w, RetryOrExhaust(w, web.conns[c].attempt, how))

RetryWakes(how) ==
    /\ web.timer # 0
    /\ web' = StartAttempt(CancelTimers(web), web.timer, how)

\* remove_websocket_live_outbound
Removed(list, q) ==
    IF ~Contains(list, q) THEN list
    ELSE LET at == CHOOSE i \in DOMAIN list : list[i] = q
         IN  [i \in 1 .. Len(list) - 1 |-> list[IF i < at THEN i ELSE i + 1]]

SendAnswered_Late(q, ok) ==
    /\ q \in web.outstanding
    /\ LET w == [web EXCEPT !.outstanding = @ \ {q}, !.live = Removed(@, q)]
       IN  web' = CASE ~web.active -> [web EXCEPT !.outstanding = @ \ {q}]
                    [] web.active /\ ok -> Outbound(w, "Sent", <<q>>)
                    [] OTHER -> SendRefused(w, q, w.attempt)

\* Sent or Rejected, unless the send was canceled before the answer came.
SendAnswered(q, ok) ==
    /\ q \in web.outstanding
    /\ LET w == [web EXCEPT !.outstanding = @ \ {q}, !.live = Removed(@, q)]
       IN  web' = CASE ~web.active \/ ~Contains(web.live, q) -> w
                    [] web.active /\ Contains(web.live, q) /\ ok -> Outbound(w, "Sent", <<q>>)
                    [] OTHER -> SendRefused(w, q, w.attempt)

-----------------------------------------------------------------------------

WebInit == web = NewSession

WebNext ==
    \/ \E how \in {"none", "inside", "later"} : StartSession(how) \/ RetryWakes(how)
    \/ SendCommand \/ CloseCommand \/ Deactivate
    \/ \E c \in DOMAIN web.conns :
          \/ ConnectionOpens(c) \/ ConnectionDelivers(c)
          \/ \E how \in {"none", "inside", "later"} :
                \/ ConnectionFails(c, how)
                \/ \E normal \in BOOLEAN : ConnectionCloses(c, normal, how)
    \/ \E q \in web.outstanding, ok \in BOOLEAN : SendAnswered(q, ok)

WebSpec == WebInit /\ [][WebNext]_web

-----------------------------------------------------------------------------
(* Properties.                                                             *)

Final == {"Sent", "Rejected", "Canceled"}

\* The final facts about a message, by their places.
EndsOf(q) == {i \in DOMAIN web.facts : web.facts[i].fact \in Final /\ web.facts[i].seq = q}

\* While the node is active every message handed to the session has exactly
\* one final fact, or none and is still pending or live; messages go out in
\* the order they were handed over; and the status node never calls a session
\* open, connecting or waiting that is not.  Closes, retries and answers that
\* race them each drain, cancel or answer what the others hold
\* (emit_outbound_canceled, remove_websocket_live_outbound, send_active).
SessionAccounted ==
    web.active =>
        /\ \A q \in 0 .. web.next - 1 :
              IF Contains(web.pending, q) \/ Contains(web.live, q)
              THEN EndsOf(q) = {}
              ELSE \E i \in EndsOf(q) : EndsOf(q) = {i}
        /\ \A i, j \in DOMAIN web.facts :
              i < j /\ web.facts[i].fact = "Sending" /\ web.facts[j].fact = "Sending"
                  => web.facts[i].seq < web.facts[j].seq
        /\ web.status.state = "Open" => web.connected
        /\ web.status.state = "Connecting" => web.attempt # 0 /\ ~web.connected
        /\ web.status.state = "Waiting" => web.waiting /\ web.timer # 0
=============================================================================
