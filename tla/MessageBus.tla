------------------------------ MODULE MessageBus ------------------------------
(***************************************************************************)
(* The message bus (messaging.rs): topics that retain what was published,  *)
(* subscriptions that read with a cursor and move it by acks and seeks,    *)
(* dead letters for what was refused.  Commands are reduced one after      *)
(* another; a step is one command, or one call of subscription().          *)
(* The state is one record, as MessageBusState is one cell of the code.    *)
(***************************************************************************)
EXTENDS Integers, Sequences, FiniteSets, SequencesExt

CONSTANTS
    Nil,            \* an absent option
    Topics, Subs,   \* topic names, subscription ids
    MaxRetained,    \* retention.max_messages, or Nil
    MaxAge,         \* retention.max_age_ms, or Nil
    DuplicateIsIssue \* dedupe.command_id = Issue

ASSUME MessageBusAssumption ==
    /\ Nil \notin Nat
    /\ MaxRetained = Nil \/ MaxRetained \in Nat
    /\ MaxAge = Nil \/ MaxAge \in Nat
    /\ DuplicateIsIssue \in BOOLEAN
    /\ IsFiniteSet(Subs)

VARIABLE bus

NoTopic == [exists |-> FALSE, closed |-> FALSE, head |-> 1, next |-> 1, messages |-> <<>>]
MakeTopicState == [NoTopic EXCEPT !.exists = TRUE]
NoSub == [exists |-> FALSE, next |-> 1, closed |-> FALSE, gap |-> FALSE]

\* The bus starts with some topics; "log" remembers all that was ever published, and is not part of the code.
BusInit(initial) ==
    bus = [topics |-> [t \in Topics |-> IF t \in initial THEN MakeTopicState ELSE NoTopic],
           subs |-> [x \in Topics \X Subs |-> NoSub],
           ids |-> {}, keys |-> {}, dead |-> <<>>, strict |-> TRUE, now |-> 0,
           events |-> <<>>,                                 \* what the command at hand has emitted so far
           cursor |-> [x \in Topics \X Subs |-> Nil],       \* what each cursor node shows
           log |-> [t \in Topics |-> <<>>]]

-----------------------------------------------------------------------------
(* What a command does to the bus *)

\* What is left of a sequence at some places, in order (Vec::retain, Iterator::filter).
Only(s, places) ==
    [k \in 1..Cardinality(places) |-> s[CHOOSE i \in places : Cardinality({j \in places : j <= i}) = k]]

Status(b, kind, t, s) == [b EXCEPT !.events = Append(@, [kind |-> kind, topic |-> t, sub |-> s])]

\* issue_events: an issue is emitted, and kept as a dead letter with the next entry number.
Issue(b, code, t) ==
    [Status(b, "Issue", t, Nil) EXCEPT
        !.dead = Append(@, [seq |-> Len(@) + 1, code |-> code, topic |-> t])]

\* As many issues one after another.
Issues(b, code, count) ==
    [b EXCEPT !.events = @ \o [i \in 1..count |-> [kind |-> "Issue", topic |-> Nil, sub |-> Nil]],
              !.dead = @ \o [i \in 1..count |-> [seq |-> Len(b.dead) + i, code |-> code, topic |-> Nil]]]

EnsureTopic(b, t) ==
    Status([b EXCEPT !.topics[t] = IF @.exists THEN @ ELSE MakeTopicState], "TopicCreated", t, Nil)

CloseTopic(b, t) ==
    IF b.topics[t].exists THEN Status([b EXCEPT !.topics[t].closed = TRUE], "TopicClosed", t, Nil)
    ELSE Issue(b, "unknown-topic", t)

LeftBehind_None(b, t, head) == {}

\* The open subscriptions of a topic that a new head leaves behind, and that do not know it yet.
LeftBehind(b, t, head) ==
    {s \in Subs : b.subs[<<t, s>>].exists /\ ~b.subs[<<t, s>>].closed /\ ~b.subs[<<t, s>>].gap /\ b.subs[<<t, s>>].next < head}

\* trim_retention: old messages go, then the oldest beyond the limit; subscriptions behind the new head get a gap.
TrimRetention(b, t) ==
    LET topic == b.topics[t]
        young == IF MaxAge = Nil THEN topic.messages
                 ELSE Only(topic.messages, {i \in DOMAIN topic.messages : b.now - topic.messages[i].at <= MaxAge})
        excess == IF MaxRetained = Nil \/ Len(young) <= MaxRetained THEN 0 ELSE Len(young) - MaxRetained
        kept == SubSeq(young, excess + 1, Len(young))
        head == IF kept = <<>> THEN topic.next ELSE kept[1].seq
        left == LeftBehind(b, t, head)
        trimmed == [b EXCEPT !.topics[t].messages = kept, !.topics[t].head = head]
        gapped == [trimmed EXCEPT !.subs = [x \in Topics \X Subs |->
                      IF x[1] = t /\ x[2] \in left THEN [b.subs[x] EXCEPT !.gap = TRUE] ELSE b.subs[x]]]
    IN  IF MaxRetained = 0 THEN Issue([b EXCEPT !.topics[t].messages = young], "policy-rejected", Nil)
        ELSE IF head = topic.head THEN trimmed
        ELSE Issues(Status(gapped, "RetentionTrimmed", t, Nil), "retention-gap", Cardinality(left))

PublishMessage(b, c) ==
    LET known == b.topics[c.topic].exists
        made == IF known THEN b ELSE EnsureTopic(b, c.topic)
        message == [seq |-> made.topics[c.topic].next, payload |-> c.payload, at |-> b.now, id |-> c.id, key |-> c.key]
        added == [made EXCEPT !.topics[c.topic].next = @ + 1,
                              !.topics[c.topic].messages = Append(@, message),
                              !.keys = IF c.key = Nil THEN @ ELSE @ \cup {<<c.topic, c.key>>},
                              !.log[c.topic] = Append(@, message)]
    IN  CASE ~known /\ b.strict -> Issue(b, "unknown-topic", c.topic)
          [] known /\ b.topics[c.topic].closed -> Issue(b, "closed-topic", c.topic)
          [] OTHER -> TrimRetention(Status(Status(added, "Message", c.topic, Nil), "MessagePublished", c.topic, Nil), c.topic)

AckSubscription(b, c) ==
    LET topic == b.topics[c.topic]  sub == b.subs[<<c.topic, c.sub>>]
    IN  CASE ~topic.exists -> Issue(b, "unknown-topic", Nil)
          [] topic.exists /\ ~sub.exists -> Issue(b, "unknown-subscription", Nil)
          [] topic.exists /\ sub.exists /\ sub.closed -> Issue(b, "subscription-closed", Nil)
          [] topic.exists /\ sub.exists /\ ~sub.closed /\ sub.gap -> Issue(b, "retention-gap", Nil)
          [] topic.exists /\ sub.exists /\ ~sub.closed /\ ~sub.gap /\ c.seq < sub.next -> Issue(b, "source-cursor-stale", Nil)
          [] topic.exists /\ sub.exists /\ ~sub.closed /\ ~sub.gap /\ c.seq >= sub.next /\ c.seq >= topic.next ->
                 Issue(b, "cursor-out-of-range", Nil)
          [] OTHER -> Status([b EXCEPT !.subs[<<c.topic, c.sub>>].next = c.seq + 1], "SubscriptionAcked", c.topic, c.sub)

SeekSubscription(b, c) ==
    LET topic == b.topics[c.topic]  sub == b.subs[<<c.topic, c.sub>>]
    IN  CASE ~topic.exists -> Issue(b, "unknown-topic", Nil)
          [] topic.exists /\ ~sub.exists -> Issue(b, "unknown-subscription", Nil)
          [] topic.exists /\ sub.exists /\ sub.closed -> Issue(b, "subscription-closed", Nil)
          [] topic.exists /\ sub.exists /\ ~sub.closed /\ c.seq < topic.head -> Issue(b, "retention-gap", Nil)
          [] topic.exists /\ sub.exists /\ ~sub.closed /\ c.seq > topic.next -> Issue(b, "cursor-out-of-range", Nil)
          [] OTHER -> Status([b EXCEPT !.subs[<<c.topic, c.sub>>].next = c.seq, !.subs[<<c.topic, c.sub>>].gap = FALSE],
                             "SubscriptionSought", c.topic, c.sub)

CloseSubscription(b, c) ==
    CASE ~b.topics[c.topic].exists -> Issue(b, "unknown-topic", Nil)
      [] b.topics[c.topic].exists /\ ~b.subs[<<c.topic, c.sub>>].exists -> Issue(b, "unknown-subscription", Nil)
      [] OTHER -> Status([b EXCEPT !.subs[<<c.topic, c.sub>>].closed = TRUE], "SubscriptionClosed", c.topic, c.sub)

DuplicateCommand(b, c) ==
    IF DuplicateIsIssue THEN Issue(b, "duplicate-command", c.topic)
    ELSE Status(b, "DuplicateCommand", c.topic, Nil)

Apply(b, c) ==
    CASE c.op = "EnsureTopic" -> EnsureTopic(b, c.topic)
      [] c.op = "CloseTopic" -> CloseTopic(b, c.topic)
      [] c.op = "TopicPolicy" -> [b EXCEPT !.strict = c.payload]
      [] c.op = "Publish" -> PublishMessage(b, c)
      [] c.op = "Ack" -> AckSubscription(b, c)
      [] c.op = "Seek" -> SeekSubscription(b, c)
      [] c.op = "CloseSubscription" -> CloseSubscription(b, c)

\* The cursor of a subscription as a reader of it sees it.
CursorSnapshot(b, x) ==
    [next |-> b.subs[x].next, closed |-> b.subs[x].closed, gap |-> b.subs[x].gap, head |-> b.topics[x[1]].head]

Moves_NotByTrimming(e, x) ==
    /\ e.topic = x[1] /\ e.sub = x[2]
    /\ e.kind \in {"SubscriptionOpened", "SubscriptionAcked", "SubscriptionSought", "SubscriptionClosed"}

\* Which statuses make the cursor node of a subscription emit.
Moves(e, x) ==
    \/ /\ e.topic = x[1] /\ e.sub = x[2]
       /\ e.kind \in {"SubscriptionOpened", "SubscriptionAcked", "SubscriptionSought", "SubscriptionClosed"}
    \/ e.topic = x[1] /\ e.kind = "RetentionTrimmed"

\* The projections run in the wave of the events, on the state after the command.
Shown(b) ==
    [b EXCEPT !.events = <<>>, !.cursor = [x \in Topics \X Subs |->
        IF b.subs[x].exists /\ \E i \in DOMAIN b.events : Moves(b.events[i], x) THEN CursorSnapshot(b, x)
        ELSE b.cursor[x]]]

Reduce_KeysUnchecked(b, c) ==
    LET marked == [b EXCEPT !.ids = @ \cup ({c.id} \ {Nil})]
    IN  Shown(CASE c.id # Nil /\ c.id \in b.ids -> DuplicateCommand(b, c)
                [] OTHER -> Apply(marked, c))

\* reduce_message_bus_command: a command id counts once even if the command is then refused; an idempotency key
\* counts once a message was published with it.
Reduce(b, c) ==
    LET marked == [b EXCEPT !.ids = @ \cup ({c.id} \ {Nil})]
    IN  Shown(CASE c.id # Nil /\ c.id \in b.ids -> DuplicateCommand(b, c)
                [] (c.id = Nil \/ c.id \notin b.ids) /\ c.op = "Publish" /\ <<c.topic, c.key>> \in b.keys ->
                       DuplicateCommand(marked, c)
                [] OTHER -> Apply(marked, c))

\* ensure_subscription: where a new subscription starts; a start outside of what is retained is an issue and
\* becomes the head.
EnsureSubscription(b, t, s, from) ==
    LET topic == b.topics[t]
        asked == CASE from = <<"Earliest">> -> topic.head [] from = <<"Latest">> -> topic.next [] OTHER -> from[2]
        outside == topic.exists /\ (asked < topic.head \/ asked > topic.next)
        noted == IF outside THEN [b EXCEPT
                                    !.dead = Append(@, [seq |-> Len(@) + 1, code |-> "cursor-out-of-range", topic |-> t])]
                 ELSE b
    IN  IF b.subs[<<t, s>>].exists THEN b
        ELSE Shown(Status([noted EXCEPT !.subs[<<t, s>>] = [exists |-> TRUE, closed |-> FALSE, gap |-> FALSE,
                                            next |-> IF outside THEN topic.head ELSE asked]],
                          "SubscriptionOpened", t, s))

-----------------------------------------------------------------------------
(* Pages *)

FirstOf(s, n) == SubSeq(s, 1, IF Len(s) < n THEN Len(s) ELSE n)

Page(all, limit) == [items |-> FirstOf(all, limit), more |-> Len(all) > limit]

\* The messages from a sequence number on.
From(messages, seq) == Only(messages, {i \in DOMAIN messages : messages[i].seq >= seq})

\* topic_page: what is retained after a message, or from the head on.
TopicPage(b, t, after, limit) ==
    Page(From(b.topics[t].messages, IF after = Nil THEN b.topics[t].head ELSE after + 1), limit)

\* available_page: what a subscription has still to read; nothing while it has a gap.
AvailableTo(b, t, s, after, limit) ==
    LET start == IF after = Nil THEN b.subs[<<t, s>>].next ELSE after + 1
    IN  Page(IF b.subs[<<t, s>>].gap THEN <<>> ELSE From(b.topics[t].messages, start), limit)

\* dead_letter_page
DeadLettersAfter(b, after, code, limit) ==
    Page(Only(b.dead, {i \in DOMAIN b.dead :
            (after = Nil \/ b.dead[i].seq > after) /\ (code = Nil \/ b.dead[i].code = code)}), limit)

\* catalog_page: the topics a reader of the catalog sees.
Catalog(b, includeClosed) ==
    {[topic |-> t, head |-> b.topics[t].head, next |-> b.topics[t].next, count |-> Len(b.topics[t].messages)] :
        t \in {u \in Topics : b.topics[u].exists /\ (includeClosed \/ ~b.topics[u].closed)}}

-----------------------------------------------------------------------------
(* Commands as callers make them *)

Command(op, t, s, seq, id) ==
    [op |-> op, topic |-> t, sub |-> s, seq |-> seq, id |-> id, key |-> Nil, payload |-> Nil]

Publish(t, payload, id, key) == [Command("Publish", t, Nil, Nil, id) EXCEPT !.payload = payload, !.key = key]

-----------------------------------------------------------------------------
(* Properties *)

\* An open subscription that was not told of a gap can still read every message from its cursor on: retention never
\* takes a message from under a reader in silence (trim_retention, available_page), as long as time does not go back.
NoSilentLoss ==
    \A t \in Topics, s \in Subs :
        LET sub == bus.subs[<<t, s>>]
        IN  sub.exists /\ ~sub.closed =>
              IF sub.gap THEN sub.next < bus.topics[t].head
              ELSE AvailableTo(bus, t, s, Nil, Len(bus.log[t]) + 1).items = From(bus.log[t], sub.next)

\* The cursor a subscriber was shown last is the cursor the bus keeps: no change of cursor, gap, head or closure goes
\* by without a status the cursor node listens to (subscription(), reduce_message_bus_command).
CursorsFresh ==
    \A x \in Topics \X Subs : bus.subs[x].exists => bus.cursor[x] = CursorSnapshot(bus, x)

\* A producer that repeats a publish with the same idempotency key, under whatever command ids, publishes once; the
\* sequence numbers of a topic leave none out, and its catalog entry spans exactly the messages retained.
PublishedOnce ==
    \A t \in Topics :
        /\ \A i, j \in DOMAIN bus.log[t] :
               i # j /\ bus.log[t][i].key # Nil => bus.log[t][i].key # bus.log[t][j].key
        /\ \A i \in DOMAIN bus.log[t] : bus.log[t][i].seq = i
        /\ \A entry \in Catalog(bus, TRUE) : entry.topic = t =>
               /\ entry.next - entry.head = entry.count
               /\ TopicPage(bus, t, Nil, entry.count + 1).items = SubSeq(bus.log[t], entry.head, entry.next - 1)
=============================================================================
