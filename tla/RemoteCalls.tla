---------------------------- MODULE RemoteCalls ----------------------------
(***************************************************************************)
(* Remote calls over a pair of bridges (adapters/bridge.rs: remote_call,   *)
(* remote_responder).  The caller keeps the requests in flight three       *)
(* times, in the reducers of its responses, its status and its errors, all *)
(* fed by the events of one wave.  The responder reads the raw envelopes   *)
(* with a cursor of its own, next to the cursor of its bridge, runs the    *)
(* handler and answers in the same wave.                                   *)
(***************************************************************************)
EXTENDS Bridge

CONSTANTS
    CallIds,        \* request ids
    CallOps,        \* operations a caller may ask for
    HandledOps,     \* operations the responder has a handler for
    CallPushes,     \* responses the responder's side sends without a request
    CallUses,       \* bridge commands the user of each end gives by itself
    RejectUnknown   \* RemoteResponderOptions.reject_unknown

ASSUME CallsAssumption == HandledOps \subseteq CallOps /\ RejectUnknown \in BOOLEAN

VARIABLES
    calls,    \* RemoteCallResponsesState.pending: request id -> [op, seq]
    callStatus,   \* RemoteCallStatusReducer: its pending requests, and those ended before they were seen
    noted,    \* RemoteCallPendingState of the errors node
    ingress,  \* RemoteResponderCursor
    ran       \* requests the responder took up, in order

callVars == <<bridgeVars, calls, callStatus, noted, ingress, ran>>

CallsInit ==
    /\ BridgeInit
    /\ calls = NoPending /\ noted = NoPending
    /\ callStatus = [pending |-> NoPending, early |-> {}]
    /\ ingress = [cursor |-> 0, remote |-> 0]
    /\ ran = <<>>

-----------------------------------------------------------------------------
(* The caller *)

\* RemoteCallPendingState::insert; a request is bound to its number in the wave that sends it.
Insert(p, r, s) ==
    IF r.id \in DOMAIN p \/ \E i \in DOMAIN p : p[i].seq = s THEN p
    ELSE (r.id :> [op |-> r.op, seq |-> s]) @@ p

RemoveSeq(p, s) == [i \in {j \in DOMAIN p : p[j].seq # s} |-> p[i]]

IsRequest(ev) == ev.kind = "Outbound" /\ ev.env.payload # NoPayload
IsResponse(ev) == ev.kind = "Inbound" /\ ev.env.payload # NoPayload
Terminal(r) == r.kind \in {"Result", "Error"}
Correlates(p, r) == r.id \in DOMAIN p /\ p[r.id].op = r.op

\* What an event does to the requests in flight by number: a nack or the last timeout ends one.
EndBySeq(p, ev) ==
    CASE ev.kind = "Nack"      -> RemoveSeq(p, ev.env.seq)
      [] ev.kind = "Exhausted" -> RemoveSeq(p, ev.seq)
      [] OTHER                 -> p

Opened(p, events) ==
    FoldLeft(LAMBDA q, ev : IF IsRequest(ev) THEN Insert(q, ev.env.payload, ev.env.seq) ELSE q, p, events)

\* remote_call_responses_node: passes on the responses to requests in flight.
RespondTo(acc, ev) ==
    IF IsResponse(ev)
    THEN IF ~Correlates(acc.pending, ev.env.payload) THEN acc
         ELSE [pending |-> IF Terminal(ev.env.payload) THEN Without(acc.pending, ev.env.payload.id) ELSE acc.pending,
               ready |-> Append(acc.ready, ev.env.payload)]
    ELSE [acc EXCEPT !.pending = EndBySeq(@, ev)]

Responses(p, events) == FoldLeft(RespondTo, [pending |-> Opened(p, events), ready |-> <<>>], events)

\* remote_call_status_node: a request whose end was seen first is not taken up again.
StatusOpens(st, ev) ==
    IF ~IsRequest(ev) THEN st
    ELSE IF ev.env.payload \in st.early THEN [st EXCEPT !.early = @ \ {ev.env.payload}]
    ELSE [st EXCEPT !.pending = Insert(@, ev.env.payload, ev.env.seq)]
StatusEnds(st, r) ==
    IF ~Terminal(r) THEN st
    ELSE [pending |-> Without(st.pending, r.id),
          early |-> IF r.id \in DOMAIN st.pending THEN st.early
                    ELSE st.early \cup {[id |-> r.id, op |-> r.op]}]
StatusAfter_NacksOnly(st, events, ready) ==
    LET opened == FoldLeft(StatusOpens, st, events)
        ended == [opened EXCEPT !.pending =
                     FoldLeft(LAMBDA q, ev : IF ev.kind = "Nack" THEN EndBySeq(q, ev) ELSE q, @, events)]
    IN  FoldLeft(StatusEnds, ended, ready)
StatusAfter(st, events, ready) ==
    LET opened == FoldLeft(StatusOpens, st, events)
        ended == [opened EXCEPT !.pending = FoldLeft(EndBySeq, @, events)]
    IN  FoldLeft(StatusEnds, ended, ready)

\* remote_call_errors_node: responses first, then receipts.
ErrorsAfter(p, events, ready) ==
    FoldLeft(EndBySeq,
             FoldLeft(LAMBDA q, r : IF Terminal(r) THEN Without(q, r.id) ELSE q, Opened(p, events), ready),
             events)

CallerWave(b) ==
    LET r == Responses(calls, b.events)
    IN  /\ Settle("caller", b)
        /\ calls' = r.pending
        /\ callStatus' = StatusAfter(callStatus, b.events, r.ready)
        /\ noted' = ErrorsAfter(noted, b.events, r.ready)
        /\ UNCHANGED <<ingress, ran>>

Call(id, op) == CallerWave(EmitOutbound(bridge["caller"], "Data", [id |-> id, op |-> op], 0))

\* RemoteCallBundle::timeout
CallTimeout(id) ==
    /\ calls' = Without(calls, id)
    /\ callStatus' = [callStatus EXCEPT !.pending = Without(@, id)]
    /\ noted' = Without(noted, id)
    /\ UNCHANGED <<bridgeVars, ingress, ran>>

-----------------------------------------------------------------------------
(* The responder *)

\* reduce_remote_responder_ingress
Ingress(in, env) == Verdict(in.cursor, in.remote, env)

\* remote_responder_events_node: what the handler of a request may answer, or nothing.
Replies(r) ==
    IF r.op \in HandledOps THEN {[id |-> r.id, op |-> r.op, kind |-> k] : k \in {"Result", "Error"}}
    ELSE IF RejectUnknown THEN {[id |-> r.id, op |-> r.op, kind |-> "Error"]}
    ELSE {NoPayload}

ResponderWave(b) ==
    /\ Settle("responder", b)
    /\ UNCHANGED <<calls, callStatus, noted>>

\* An envelope reaches the bridge and, next to it, the responder.
Receive(env) ==
    LET b == ProcessInbound(bridge["responder"], env)
        taken == Ingress(ingress, env) = "Inbound"
    IN  /\ ingress' = IF taken THEN [cursor |-> env.seq, remote |-> env.cursor] ELSE ingress
        /\ IF taken /\ env.type = "Data"
           THEN /\ ran' = Append(ran, Content(env))
                /\ \E reply \in Replies(env.payload) :
                      ResponderWave(IF reply = NoPayload THEN b ELSE EmitOutbound(b, "Data", reply, 0))
           ELSE ran' = ran /\ ResponderWave(b)

\* The bridge command of the responder's side is open to its owner: progress, or a response nobody asked for.
Push(r) ==
    /\ ResponderWave(EmitOutbound(bridge["responder"], "Data", r, 0))
    /\ UNCHANGED <<ingress, ran>>

-----------------------------------------------------------------------------
CallsNext ==
    \/ \E id \in CallIds, op \in CallOps : Call(id, op)
    \/ \E id \in DOMAIN calls : CallTimeout(id)
    \/ \E b \in BridgeCommands(bridge["caller"], CallUses["caller"]) : CallerWave(b)
    \/ \E env \in network["caller"] : CallerWave(ProcessInbound(bridge["caller"], env))
    \/ \E b \in BridgeCommands(bridge["responder"], CallUses["responder"]) : ResponderWave(b) /\ UNCHANGED <<ingress, ran>>
    \/ \E env \in network["responder"] : Receive(env)
    \/ \E r \in CallPushes : Push(r)

CallsSpec == CallsInit /\ [][CallsNext]_callVars
-----------------------------------------------------------------------------
(* Properties *)

\* The three reducers of the caller agree on what is in flight after every wave, whatever receipts, retries,
\* timeouts and responses arrive in whatever order (remote_call_responses_node, _status_node, _errors_node).
CallsAgree == calls = callStatus.pending /\ calls = noted

\* The responder takes up exactly the requests its bridge accepted, once each and in order, although it counts the
\* envelopes on its own (reduce_remote_responder_ingress against process_inbound).
CallsRunOnce == ran = SelectSeq(bridge["responder"].accepted, LAMBDA c : c.type = "Data")

\* Both sides of a call keep count: the caller's reducers of what is in flight, the responder of what it took up.
CallsExact == CallsAgree /\ CallsRunOnce
=============================================================================
