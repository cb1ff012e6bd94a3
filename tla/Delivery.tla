------------------------------- MODULE Delivery -------------------------------
(***************************************************************************)
(* A command runtime behind the message bus (process/messaging.rs and      *)
(* cqrs/messaging.rs, which are the same recipe): messages of the inbox    *)
(* topic are delivered again until they are acked, lowered to commands and *)
(* dispatched; statuses become acks, events are published to the outbox    *)
(* topic.  The process also asks for effects, whose outcomes come back as  *)
(* commands (process_effect_runner).  Between delivery, dispatch and the   *)
(* bus there are waves of others: commands and bus commands wait in queues.*)
(***************************************************************************)
EXTENDS MessageBus, CommandRuntime

CONSTANTS
    In, Out, Sub,           \* the inbox and outbox topics and the subscription
    Payloads,               \* what messages ask for: a command id and a behaviour, "garbled" if none can be made
    ProducerIds, ProducerKeys,
    Ticks,                  \* how much time may pass before a publish
    MaxPublishes, MaxPulls, MaxEffects, MaxAdmin   \* bounds on the steps of each kind

ASSUME DeliveryAssumption ==
    /\ In \in Topics /\ Out \in Topics /\ In # Out /\ Sub \in Subs
    /\ \A p \in Payloads : p.does \in DOMAIN Handler \cup {"garbled"}
    /\ \A p \in Payloads : Len(p.cmd) # 3     \* no message has the id of an outcome of an effect
    /\ "settles" \in DOMAIN Handler
    /\ Ticks \subseteq Nat /\ MaxPublishes \in Nat

VARIABLES
    flavour,     \* "process" or "cqrs"
    ackRejected, \* policy.ack_rejected
    deliveries,  \* AckState.deliveries, by command id
    inbox,       \* commands delivered and not yet dispatched
    outbox,      \* bus commands that wait for the bus
    runtime,     \* the runtime's RuntimeState
    emitted, requested, \* events and effects the runtime emitted
    projected,   \* the value of a projection of the events
    settled,     \* messages with a visible status or issue
    acked,       \* messages an ack was emitted for
    steps        \* how many steps of the bounded kinds were taken

serviceVars == <<flavour, ackRejected, deliveries, inbox, outbox, runtime, emitted, requested, projected, settled, acked>>
deliveryVars == <<bus, serviceVars, steps>>

Step(kind, max) == steps[kind] < max /\ steps' = [steps EXCEPT ![kind] = @ + 1]

\* process_message_ack_commands: the ack of a message, with an id made from it and the reason.
AckCommand(seq, reason) == Command("Ack", In, Sub, seq, <<"ack", seq, reason>>)


\* process_event_outbox_commands
OutboxCommand(e) == Publish(Out, e, <<"outbox", e>>, e)

IdsOf(payloads) == {p.cmd : p \in payloads}

DeliveryInit ==
    /\ BusInit({In, Out})
    /\ flavour \in {"process", "cqrs"}
    /\ ackRejected \in BOOLEAN
    /\ deliveries = [c \in IdsOf(Payloads) |-> <<>>]
    /\ inbox = <<>> /\ outbox = <<>>
    /\ runtime = NewRuntime
    /\ emitted = <<>> /\ requested = <<>> /\ projected = <<>>
    /\ settled = {} /\ acked = {}
    /\ steps = [publish |-> 0, pull |-> 0, effect |-> 0, admin |-> 0]

-----------------------------------------------------------------------------
(* The bus *)

\* A producer publishes; time may pass before it does.
Produce(payload, id, key, now) ==
    /\ Step("publish", MaxPublishes)
    /\ now >= bus.now
    /\ bus' = Reduce([bus EXCEPT !.now = now], Publish(In, payload, id, key))
    /\ UNCHANGED serviceVars

\* The owner of the bus and of the subscription.
Administer ==
    /\ \/ \E c \in {Command("EnsureTopic", In, Nil, Nil, Nil), Command("CloseTopic", In, Nil, Nil, Nil),
                    Command("CloseSubscription", In, Sub, Nil, Nil)} : bus' = Reduce(bus, c)
       \/ \E strict \in BOOLEAN : bus' = Reduce(bus, [Command("TopicPolicy", Nil, Nil, Nil, Nil) EXCEPT !.payload = strict])
       \/ \E seq \in 1..(MaxPublishes + 1) : bus' = Reduce(bus, Command("Seek", In, Sub, seq, Nil))
       \/ \E from \in {<<"Earliest">>, <<"Latest">>, <<"Seq", 2>>} : bus' = EnsureSubscription(bus, In, Sub, from)
    /\ Step("admin", MaxAdmin)
    /\ UNCHANGED serviceVars

\* A bus command of the recipe reaches the bus.
Send ==
    /\ outbox # <<>>
    /\ bus' = Reduce(bus, Head(outbox))
    /\ outbox' = Tail(outbox)
    /\ UNCHANGED <<flavour, ackRejected, deliveries, inbox, runtime, emitted, requested, projected, settled, acked, steps>>

-----------------------------------------------------------------------------
(* The recipe *)

\* The messages of a page that can be lowered to a command, or not.
Lowered(page, can) == Only(page, {i \in DOMAIN page : (page[i].payload.does # "garbled") = can})

SeqsOf(messages) == [i \in DOMAIN messages |-> messages[i].seq]

\* The deliveries of one command among messages.
DeliveriesOf(messages, c) == SeqsOf(Only(messages, {i \in DOMAIN messages : messages[i].payload.cmd = c}))

\* process_command_from_message
CommandsOf(messages) ==
    [i \in DOMAIN messages |->
        [id |-> messages[i].payload.cmd, does |-> messages[i].payload.does, seq |-> messages[i].seq]]

\* A page is delivered: its messages become commands, or issues that are acked at once.
Pull(limit) ==
    LET page == AvailableTo(bus, In, Sub, Nil, limit).items
        commands == Lowered(page, TRUE)
        garbled == Lowered(page, FALSE)
    IN  /\ bus.subs[<<In, Sub>>].exists /\ page # <<>>
        /\ Step("pull", MaxPulls)
        /\ deliveries' = [c \in DOMAIN deliveries |-> deliveries[c] \o DeliveriesOf(commands, c)]
        /\ inbox' = inbox \o CommandsOf(commands)
        /\ outbox' = outbox \o [i \in DOMAIN garbled |-> AckCommand(garbled[i].seq, "issue")]
        /\ settled' = settled \cup Range(SeqsOf(garbled))
        /\ acked' = acked \cup Range(SeqsOf(garbled))
        /\ UNCHANGED <<bus, flavour, ackRejected, runtime, emitted, requested, projected>>

ReduceCommand(id, does) == IF flavour = "process" THEN ReduceProcess(runtime, id, does) ELSE ReduceCqrs(runtime, id, does)

ShiftDelivery_Last(c) == deliveries[c][Len(deliveries[c])]

\* shift_delivery: a status is about the oldest delivery of its command.
ShiftDelivery(c) == Head(deliveries[c])

\* A command is dispatched; its status, events and effects are seen in the same wave.
Dispatch ==
    LET c == Head(inbox)
        o == ReduceCommand(c.id, c.does)
        acks == /\ o.accepted \/ ackRejected
                /\ c.id \in DOMAIN deliveries /\ deliveries[c.id] # <<>>
        published == [i \in DOMAIN o.events |-> OutboxCommand(o.events[i])]
    IN  /\ inbox # <<>>
        /\ inbox' = Tail(inbox)
        /\ runtime' = o.runtime
        /\ emitted' = emitted \o o.events
        /\ requested' = requested \o o.effects
        /\ projected' = Project(projected, o.events, {})
        /\ settled' = settled \cup ({c.seq} \ {Nil})
        /\ \/ /\ acks
              /\ outbox' = outbox \o <<AckCommand(ShiftDelivery(c.id), "status")>> \o published
              /\ acked' = acked \cup {ShiftDelivery(c.id)}
              /\ deliveries' = [deliveries EXCEPT ![c.id] = Tail(@)]
           \/ /\ ~acks
              /\ outbox' = outbox \o published
              /\ UNCHANGED <<acked, deliveries>>
        /\ UNCHANGED <<bus, flavour, ackRejected, steps>>

\* process_effect_runner: an outcome of a requested effect comes back as a command of its own.
EffectOutcome(e, kind) ==
    /\ flavour = "process" /\ Step("effect", MaxEffects)
    /\ inbox' = Append(inbox, [id |-> <<"effect", e, kind>>, does |-> "settles", seq |-> Nil])
    /\ UNCHANGED <<bus, flavour, ackRejected, deliveries, outbox, runtime, emitted, requested, projected, settled,
                   acked>>

DeliveryNext ==
    \/ \E p \in Payloads, id \in ProducerIds \cup {Nil}, key \in ProducerKeys \cup {Nil}, d \in Ticks :
           Produce(p, id, key, bus.now + d)
    \/ Administer
    \/ Send
    \/ \E limit \in 1..2 : Pull(limit)
    \/ Dispatch
    \/ \E e \in ToSet(requested), kind \in {"Result", "Timeout"} : EffectOutcome(e, kind)

DeliverySpec == DeliveryInit /\ [][DeliveryNext]_deliveryVars

-----------------------------------------------------------------------------
(* Properties *)

\* Delivery is not an ack: a message is acked only after its command had a visible status or the message an issue,
\* although it may be delivered twice and commands may share ids; and if rejections are acked too, none that had an
\* outcome stays unacked (cqrs/messaging.rs, header; process_message_ack_commands).
AcksFollowOutcomes == acked \subseteq settled /\ (ackRejected => settled \subseteq acked)

\* Events have distinct ids: all of them in a process, any two within the event window in CQRS, also when commands
\* come again after they left the command window; effects have distinct ids.
EventsDistinct ==
    /\ \A i, j \in DOMAIN emitted :
           i < j /\ (flavour = "process" \/ EventWindow = 0 \/ j - i <= EventWindow) => emitted[i] # emitted[j]
    /\ Distinct(requested)
    /\ projected = emitted

\* The outbox topic holds exactly the events the runtime emitted, each once, however often commands are delivered.
OutboxExact ==
    LET published == {bus.log[Out][i].payload : i \in DOMAIN bus.log[Out]}
        waiting == {outbox[i].payload : i \in {j \in DOMAIN outbox : outbox[j].op = "Publish"}}
    IN  /\ published \cup waiting = ToSet(emitted)
        /\ Cardinality(published) = Len(bus.log[Out])

\* Events are told apart by their ids from the handler to the outbox (process_command_runtime,
\* cqrs_command_runtime, process_message_outbox): no id is used twice within its window, and each event is published
\* exactly once.
EventsExact == EventsDistinct /\ OutboxExact
=============================================================================
