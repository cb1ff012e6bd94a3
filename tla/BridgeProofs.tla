---------------------------- MODULE BridgeProofs ----------------------------
(***************************************************************************)
(* A bridge accepts exactly what its peer sent, in the order it was sent,  *)
(* whatever the transport does, for every retry policy, every numbering    *)
(* limit and every use of the two ends, and also when remote calls run     *)
(* over it.  Everything that is on its way, waited for or about to be sent *)
(* is a copy of what its sender has put down under its number.             *)
(*                                                                         *)
(* The status node of an outbound adapter is exact while the events node   *)
(* is open, and out by no more than the reports dropped after it has ended.*)
(*                                                                         *)
(* What the receiver of an edge group releases is the snapshot its sender  *)
(* took, once for each cause while the tombstones reach back to the first. *)
(*                                                                         *)
(* A WebSocket session accounts for every message it was handed: what it   *)
(* lists as pending or live has no final report, and all else has one.     *)
(***************************************************************************)
EXTENDS RemoteCalls, OutboundAdapter, EdgeGroup, WebSocketSession, SequenceTheorems, FiniteSetTheorems, TLAPS

IsSeq(s) == \E S : s \in Seq(S)
IsEnv(env) ==
    env = [type |-> env.type, seq |-> env.seq, cursor |-> env.cursor, attempt |-> env.attempt,
           payload |-> env.payload, ackFor |-> env.ackFor]
IsEntry(p) == p = [env |-> p.env, reported |-> p.reported, due |-> p.due]

\* An envelope of an end that has sent what hist says.
Genuine(env, hist) == IsEnv(env) /\ env.seq \in 1..Len(hist) /\ Content(env) = hist[env.seq]

Shape(b) ==
    /\ b = [next |-> b.next, cursor |-> b.cursor, remote |-> b.remote, pending |-> b.pending,
            events |-> b.events, sent |-> b.sent, accepted |-> b.accepted]
    /\ b.pending = [s \in DOMAIN b.pending |-> b.pending[s]]
    /\ IsSeq(b.events) /\ IsSeq(b.sent) /\ IsSeq(b.accepted)

\* The numbers an end gives and takes are the lengths of its histories.
Numbered(b) == b.next = Len(b.sent) + 1 /\ b.cursor = Len(b.accepted)

\* What an end waits for, and what it is about to send, it has put down as sent.
Waiting(b) == \A s \in DOMAIN b.pending : IsEntry(b.pending[s]) /\ Genuine(b.pending[s].env, b.sent)
Leaving(b) == \A i \in 1..Len(b.events) : b.events[i].kind = "Outbound" => Genuine(b.events[i].env, b.sent)

Sound(b) == Shape(b) /\ Numbered(b) /\ Waiting(b) /\ Leaving(b)

\* An end has accepted a beginning of hist.
Follows(b, hist) == b.cursor <= Len(hist) /\ \A i \in 1..b.cursor : b.accepted[i] = hist[i]

\* The history only grows.
Grows(hist, longer) == Len(hist) <= Len(longer) /\ \A i \in 1..Len(hist) : longer[i] = hist[i]

-----------------------------------------------------------------------------
(* Appending keeps the elements already there, of whatever kind they are.  *)
LEMMA AppendAny ==
    ASSUME NEW s, IsSeq(s), NEW v
    PROVE  /\ IsSeq(Append(s, v))
           /\ Len(s) \in Nat
           /\ Len(Append(s, v)) = Len(s) + 1
           /\ Append(s, v)[Len(s) + 1] = v
           /\ \A i \in 1..Len(s) : Append(s, v)[i] = s[i]
           /\ Grows(s, Append(s, v))
<1>1. PICK S : s \in Seq(S)
  BY DEF IsSeq
<1>2. s \in Seq(S \cup {v})
  BY <1>1
<1>3. Append(s, v) \in Seq(S \cup {v})
  BY <1>2
<1>4. IsSeq(Append(s, v))
  BY <1>3 DEF IsSeq
<1>5. /\ Len(s) \in Nat
      /\ Len(Append(s, v)) = Len(s) + 1
      /\ Append(s, v)[Len(s) + 1] = v
      /\ \A i \in 1..Len(s) : Append(s, v)[i] = s[i]
  BY <1>2
<1>6. QED
  BY <1>4, <1>5 DEF Grows

(* What was genuine stays genuine.                                         *)
LEMMA GenuineGrows ==
    ASSUME NEW hist, NEW longer, IsSeq(hist), IsSeq(longer), Grows(hist, longer), NEW env, Genuine(env, hist)
    PROVE  Genuine(env, longer)
<1>1. Len(hist) \in Nat /\ Len(longer) \in Nat
  BY DEF IsSeq
<1>2. QED
  BY <1>1 DEF Genuine, Grows

(* Emitting an event, an outbound one with a genuine envelope.             *)
LEMMA EmitSound ==
    ASSUME NEW b, Sound(b), NEW ev, ev.kind = "Outbound" => Genuine(ev.env, b.sent)
    PROVE  /\ Sound(Emit(b, ev))
           /\ Emit(b, ev).sent = b.sent /\ Emit(b, ev).accepted = b.accepted
           /\ Emit(b, ev).cursor = b.cursor /\ Emit(b, ev).pending = b.pending
           /\ Emit(b, ev).remote = b.remote /\ Emit(b, ev).next = b.next
<1> DEFINE c == Emit(b, ev)
<1>1. IsSeq(b.events) /\ Shape(b)
  BY DEF Sound, Shape
<1>2. c = [next |-> b.next, cursor |-> b.cursor, remote |-> b.remote, pending |-> b.pending,
           events |-> Append(b.events, ev), sent |-> b.sent, accepted |-> b.accepted]
  BY <1>1 DEF Emit, Shape
<1>3. /\ c.sent = b.sent /\ c.accepted = b.accepted /\ c.cursor = b.cursor /\ c.pending = b.pending
      /\ c.remote = b.remote /\ c.next = b.next /\ c.events = Append(b.events, ev)
  BY <1>2
<1>4. c = [next |-> c.next, cursor |-> c.cursor, remote |-> c.remote, pending |-> c.pending,
           events |-> c.events, sent |-> c.sent, accepted |-> c.accepted]
  BY <1>2, <1>3
<1> HIDE DEF c
<1>5. Shape(c)
  BY <1>1, <1>3, <1>4, AppendAny DEF Shape
<1>6. Numbered(c) /\ Waiting(c)
  BY <1>3 DEF Sound, Numbered, Waiting
<1>7. Leaving(c)
  <2>1. /\ Len(b.events) \in Nat /\ Len(c.events) = Len(b.events) + 1
        /\ c.events[Len(b.events) + 1] = ev
        /\ \A i \in 1..Len(b.events) : c.events[i] = b.events[i]
    BY <1>1, <1>3, AppendAny
  <2>2. QED
    BY <2>1, <1>3 DEF Sound, Leaving
<1>8. Sound(c)
  BY <1>5, <1>6, <1>7 DEF Sound
<1>9. QED
  BY <1>3, <1>8 DEF c

\* Nothing was sent or accepted on the way from b to c.
Quiet(b, c) ==
    c.sent = b.sent /\ c.accepted = b.accepted /\ c.cursor = b.cursor /\ c.remote = b.remote /\ c.next = b.next

(* Changing what is waited for.                                            *)
LEMMA PendingSound ==
    ASSUME NEW b, Sound(b), NEW p, p = [s \in DOMAIN p |-> p[s]],
           \A s \in DOMAIN p : IsEntry(p[s]) /\ Genuine(p[s].env, b.sent)
    PROVE  /\ Sound([b EXCEPT !.pending = p])
           /\ Quiet(b, [b EXCEPT !.pending = p])
           /\ [b EXCEPT !.pending = p].pending = p
<1> DEFINE c == [b EXCEPT !.pending = p]
<1>1. Shape(b)
  BY DEF Sound
<1>2. c = [next |-> b.next, cursor |-> b.cursor, remote |-> b.remote, pending |-> p,
           events |-> b.events, sent |-> b.sent, accepted |-> b.accepted]
  BY <1>1 DEF Shape
<1>3. /\ c.sent = b.sent /\ c.accepted = b.accepted /\ c.cursor = b.cursor /\ c.pending = p
      /\ c.remote = b.remote /\ c.next = b.next /\ c.events = b.events
  BY <1>2
<1>4. c = [next |-> c.next, cursor |-> c.cursor, remote |-> c.remote, pending |-> c.pending,
           events |-> c.events, sent |-> c.sent, accepted |-> c.accepted]
  BY <1>2, <1>3
<1> HIDE DEF c
<1>5. Shape(c)
  BY <1>1, <1>3, <1>4 DEF Shape
<1>6. Numbered(c) /\ Waiting(c) /\ Leaving(c)
  BY <1>3 DEF Sound, Numbered, Waiting, Leaving
<1>7. QED
  BY <1>3, <1>5, <1>6 DEF Sound, Quiet, c

(* Forgetting one entry.                                                   *)
LEMMA ForgetSound ==
    ASSUME NEW b, Sound(b), NEW s
    PROVE  /\ Sound([b EXCEPT !.pending = Without(@, s)])
           /\ Quiet(b, [b EXCEPT !.pending = Without(@, s)])
<1> DEFINE p == Without(b.pending, s)
<1>1. [b EXCEPT !.pending = Without(@, s)] = [b EXCEPT !.pending = p]
  BY DEF Sound, Shape
<1>2. p = [x \in DOMAIN p |-> p[x]] /\ \A x \in DOMAIN p : x \in DOMAIN b.pending /\ p[x] = b.pending[x]
  BY DEF Without
<1> HIDE DEF p
<1>3. \A x \in DOMAIN p : IsEntry(p[x]) /\ Genuine(p[x].env, b.sent)
  BY <1>2 DEF Sound, Waiting
<1>4. QED
  BY <1>1, <1>2, <1>3, PendingSound

(* emit_outbound: what is sent is put down, kept if it needs a receipt,    *)
(* and emitted; at the last number nothing is sent.                        *)
LEMMA EmitOutboundSound ==
    ASSUME NEW b, Sound(b), NEW type, NEW payload, NEW ackFor
    PROVE  LET c == EmitOutbound(b, type, payload, ackFor)
           IN  /\ Sound(c) /\ Grows(b.sent, c.sent)
               /\ c.accepted = b.accepted /\ c.cursor = b.cursor /\ c.remote = b.remote
<1> DEFINE env == [type |-> type, seq |-> b.next, cursor |-> b.cursor, attempt |-> 1,
                   payload |-> payload, ackFor |-> ackFor]
           kept == IF type = "Close" THEN NoPending ELSE b.pending
           entry == [env |-> env, reported |-> 0, due |-> NoTime]
           p == IF type \in Tracked THEN With(kept, b.next, entry) ELSE kept
           hist == Append(b.sent, Content(env))
           moved == [b EXCEPT !.next = @ + 1, !.pending = p, !.sent = Append(@, Content(env))]
<1>0. EmitOutbound(b, type, payload, ackFor) =
        IF b.next = SeqMax THEN Emit(b, [kind |-> "Invalid"]) ELSE Emit(moved, [kind |-> "Outbound", env |-> env])
  BY DEF EmitOutbound
<1>e. IsEnv(env) /\ env.seq = b.next /\ IsEntry(entry) /\ entry.env = env
  BY DEF IsEnv, IsEntry
<1> HIDE DEF env, entry, kept, p
<1>1. Shape(b) /\ Numbered(b) /\ IsSeq(b.sent) /\ IsSeq(b.events)
  BY DEF Sound, Shape
<1>2. /\ moved.sent = hist /\ moved.accepted = b.accepted /\ moved.cursor = b.cursor /\ moved.pending = p
      /\ moved.remote = b.remote /\ moved.next = b.next + 1 /\ moved.events = b.events
      /\ DOMAIN moved = {"next", "cursor", "remote", "pending", "events", "sent", "accepted"}
      /\ moved = [f \in DOMAIN moved |-> moved[f]]
  BY <1>1 DEF Shape
<1> HIDE DEF moved
<1>3. /\ moved.sent = hist /\ moved.accepted = b.accepted /\ moved.cursor = b.cursor /\ moved.pending = p
      /\ moved.remote = b.remote /\ moved.next = b.next + 1 /\ moved.events = b.events
  BY <1>2
<1>4. moved = [next |-> moved.next, cursor |-> moved.cursor, remote |-> moved.remote, pending |-> moved.pending,
               events |-> moved.events, sent |-> moved.sent, accepted |-> moved.accepted]
  BY <1>2
<1>h. /\ IsSeq(hist) /\ Grows(b.sent, hist) /\ Len(b.sent) \in Nat
      /\ Len(hist) = Len(b.sent) + 1 /\ hist[Len(b.sent) + 1] = Content(env)
  BY <1>1, AppendAny
<1> HIDE DEF hist
<1>g. Genuine(env, hist)
  BY <1>1, <1>e, <1>h DEF Genuine, Numbered
<1>k. /\ kept = [s \in DOMAIN kept |-> kept[s]]
      /\ \A s \in DOMAIN kept : IsEntry(kept[s]) /\ Genuine(kept[s].env, hist)
  <2>1. CASE type = "Close"
    BY <2>1 DEF NoPending, kept
  <2>2. CASE type # "Close"
    <3>1. kept = b.pending
      BY <2>2 DEF kept
    <3>2. QED
      BY <3>1, <1>1, <1>h, GenuineGrows DEF Sound, Waiting, Shape
  <2>3. QED
    BY <2>1, <2>2
<1>p. /\ p = [s \in DOMAIN p |-> p[s]]
      /\ \A s \in DOMAIN p : IsEntry(p[s]) /\ Genuine(p[s].env, hist)
  <2>1. CASE type \in Tracked
    <3>1. p = [s \in DOMAIN kept \cup {b.next} |-> IF s = b.next THEN entry ELSE kept[s]]
      BY <2>1 DEF With, p
    <3>2. p = [s \in DOMAIN p |-> p[s]]
      BY <3>1
    <3>3. ASSUME NEW s \in DOMAIN p PROVE IsEntry(p[s]) /\ Genuine(p[s].env, hist)
      <4>1. p[s] = entry \/ (s \in DOMAIN kept /\ p[s] = kept[s])
        BY <3>1, <3>3
      <4>2. QED
        BY <4>1, <1>k, <1>e, <1>g
    <3>4. QED
      BY <3>2, <3>3
  <2>2. CASE type \notin Tracked
    BY <2>2, <1>k DEF p
  <2>3. QED
    BY <2>1, <2>2
<1>5. Shape(moved)
  BY <1>1, <1>3, <1>4, <1>p, <1>h DEF Shape
<1>6. Numbered(moved) /\ Waiting(moved)
  BY <1>1, <1>3, <1>h, <1>p DEF Numbered, Waiting
<1>7. Leaving(moved)
  BY <1>3, <1>1, <1>h, GenuineGrows DEF Sound, Leaving
<1>8. Sound(moved)
  BY <1>5, <1>6, <1>7 DEF Sound
<1>9. CASE b.next = SeqMax
  <2> DEFINE ev == [kind |-> "Invalid"]
  <2>1. ev.kind # "Outbound"
    OBVIOUS
  <2> HIDE DEF ev
  <2>2. /\ Sound(Emit(b, ev)) /\ Emit(b, ev).sent = b.sent /\ Emit(b, ev).accepted = b.accepted
        /\ Emit(b, ev).cursor = b.cursor /\ Emit(b, ev).remote = b.remote
    BY <2>1, EmitSound
  <2>3. Grows(b.sent, b.sent)
    BY <1>h DEF Grows
  <2>4. EmitOutbound(b, type, payload, ackFor) = Emit(b, ev)
    BY <1>0, <1>9 DEF ev
  <2>5. QED
    BY <2>2, <2>3, <2>4
<1>10. CASE b.next # SeqMax
  <2> DEFINE ev == [kind |-> "Outbound", env |-> env]
  <2>1. ev.kind = "Outbound" /\ ev.env = env
    OBVIOUS
  <2> HIDE DEF ev
  <2>2. /\ Sound(Emit(moved, ev)) /\ Emit(moved, ev).sent = moved.sent /\ Emit(moved, ev).accepted = moved.accepted
        /\ Emit(moved, ev).cursor = moved.cursor /\ Emit(moved, ev).remote = moved.remote
    BY <2>1, <1>3, <1>8, <1>g, EmitSound
  <2>3. EmitOutbound(b, type, payload, ackFor) = Emit(moved, ev)
    BY <1>0, <1>10 DEF ev
  <2>4. QED
    BY <2>2, <2>3, <1>3, <1>h
<1>11. QED
  BY <1>9, <1>10

(* emit_retry_outbound: the same envelope but for attempt and cursor.      *)
LEMMA EmitRetrySound ==
    ASSUME NEW b, Sound(b), NEW s \in DOMAIN b.pending
    PROVE  Sound(EmitRetry(b, s)) /\ Quiet(b, EmitRetry(b, s))
<1> DEFINE old == b.pending[s].env
           env == [old EXCEPT !.attempt = @ + 1, !.cursor = b.cursor]
           entry == [env |-> env, reported |-> 0, due |-> NoTime]
           p == [b.pending EXCEPT ![s] = entry]
           c == [b EXCEPT !.pending = p]
           ev == [kind |-> "Outbound", env |-> env]
<1>0. EmitRetry(b, s) = Emit(c, ev)
  BY DEF EmitRetry, Sound, Shape
<1>1. IsEnv(old) /\ Genuine(old, b.sent)
  BY DEF Sound, Waiting, Genuine
<1>2. /\ env.type = old.type /\ env.seq = old.seq /\ env.payload = old.payload /\ env.ackFor = old.ackFor
      /\ DOMAIN env = {"type", "seq", "cursor", "attempt", "payload", "ackFor"}
      /\ env = [f \in DOMAIN env |-> env[f]]
  BY <1>1 DEF IsEnv
<1> HIDE DEF env, old
<1>3. IsEnv(env) /\ env.seq = old.seq /\ Content(env) = Content(old)
  BY <1>2 DEF IsEnv, Content
<1>4. Genuine(env, b.sent)
  BY <1>1, <1>3 DEF Genuine
<1>5. IsEntry(entry) /\ entry.env = env
  BY DEF IsEntry
<1> HIDE DEF entry
<1>6. p = [x \in DOMAIN p |-> p[x]] /\ DOMAIN p = DOMAIN b.pending
      /\ \A x \in DOMAIN p : p[x] = entry \/ p[x] = b.pending[x]
  BY DEF Sound, Shape
<1> HIDE DEF p
<1>7. \A x \in DOMAIN p : IsEntry(p[x]) /\ Genuine(p[x].env, b.sent)
  BY <1>4, <1>5, <1>6 DEF Sound, Waiting
<1>8. Sound(c) /\ Quiet(b, c)
  BY <1>6, <1>7, PendingSound
<1> HIDE DEF c
<1>9. ev.kind = "Outbound" /\ ev.env = env
  OBVIOUS
<1> HIDE DEF ev
<1>10. Sound(Emit(c, ev)) /\ Quiet(c, Emit(c, ev))
  BY <1>4, <1>8, <1>9, EmitSound DEF Quiet
<1>11. QED
  BY <1>0, <1>8, <1>10 DEF Quiet

(* An event that is not an envelope.                                       *)
LEMMA EmitQuiet ==
    ASSUME NEW b, Sound(b), NEW ev, ev.kind # "Outbound"
    PROVE  Sound(Emit(b, ev)) /\ Quiet(b, Emit(b, ev)) /\ Emit(b, ev).pending = b.pending
BY EmitSound DEF Quiet

(* process_ack_timeout_command sends nothing new.                          *)
LEMMA AckTimeoutSound ==
    ASSUME NEW b, Sound(b), NEW s \in DOMAIN b.pending, NEW attempt, NEW observed
    PROVE  Sound(AckTimeout(b, s, attempt, observed)) /\ Quiet(b, AckTimeout(b, s, attempt, observed))
<1> DEFINE p == b.pending[s]
           early == p.due # NoTime /\ observed # NoTime /\ observed < p.due
           due == IF BridgeDelay[attempt + 1] > 0 /\ observed # NoTime
                  THEN observed + BridgeDelay[attempt + 1] ELSE NoTime
           told == [kind |-> "Timeout", seq |-> s]
           again == [kind |-> "Retry", seq |-> s]
           over == [kind |-> "Exhausted", seq |-> s]
           marked == [b EXCEPT !.pending[s] = [env |-> p.env, reported |-> attempt, due |-> due]]
           reported == Emit(Emit(marked, told), again)
           gone == [b EXCEPT !.pending = Without(@, s)]
           exhausted == Emit(Emit(gone, told), over)
           r == AckTimeout(b, s, attempt, observed)
<1>0. \/ r = b
      \/ r = EmitRetry(b, s)
      \/ r = exhausted
      \/ r = reported
      \/ r = EmitRetry(reported, s)
  <2> HIDE DEF marked, told, again, over, early, due
  <2>1. CASE p.env.attempt # attempt
    BY <2>1 DEF AckTimeout, marked, told, again, over, early, due
  <2>2. CASE p.env.attempt = attempt /\ p.reported = attempt
    BY <2>2 DEF AckTimeout, marked, told, again, over, early, due
  <2>3. CASE p.env.attempt = attempt /\ p.reported # attempt
    BY <2>3 DEF AckTimeout, marked, told, again, over, early, due
  <2>4. QED
    BY <2>1, <2>2, <2>3
<1>k. told.kind # "Outbound" /\ again.kind # "Outbound" /\ over.kind # "Outbound"
  OBVIOUS
<1> HIDE DEF told, again, over, due
<1>1. Sound(gone) /\ Quiet(b, gone)
  BY ForgetSound
<1>2. Sound(exhausted) /\ Quiet(b, exhausted)
  <2> HIDE DEF gone
  <2>1. Sound(Emit(gone, told)) /\ Quiet(gone, Emit(gone, told))
    BY <1>1, <1>k, EmitQuiet
  <2>2. Sound(exhausted) /\ Quiet(Emit(gone, told), exhausted)
    BY <2>1, <1>k, EmitQuiet
  <2>3. QED
    BY <1>1, <2>1, <2>2 DEF Quiet
<1>3. Sound(marked) /\ Quiet(b, marked) /\ DOMAIN marked.pending = DOMAIN b.pending
  <2> DEFINE entry == [env |-> p.env, reported |-> attempt, due |-> due]
             q == [b.pending EXCEPT ![s] = entry]
  <2>1. p = [env |-> p.env, reported |-> p.reported, due |-> p.due] /\ Genuine(p.env, b.sent)
    BY DEF Sound, Waiting, IsEntry
  <2>3. marked = [b EXCEPT !.pending = q]
    BY DEF Sound, Shape
  <2>4. IsEntry(entry) /\ Genuine(entry.env, b.sent)
    BY <2>1 DEF IsEntry
  <2> HIDE DEF entry, marked
  <2>5. q = [x \in DOMAIN q |-> q[x]] /\ DOMAIN q = DOMAIN b.pending
        /\ \A x \in DOMAIN q : q[x] = entry \/ q[x] = b.pending[x]
    BY DEF Sound, Shape
  <2> HIDE DEF q
  <2>6. \A x \in DOMAIN q : IsEntry(q[x]) /\ Genuine(q[x].env, b.sent)
    BY <2>4, <2>5 DEF Sound, Waiting
  <2>7. QED
    BY <2>3, <2>5, <2>6, PendingSound
<1>4. Sound(reported) /\ Quiet(b, reported) /\ s \in DOMAIN reported.pending
  <2> HIDE DEF marked
  <2>1. Sound(Emit(marked, told)) /\ Quiet(marked, Emit(marked, told)) /\ Emit(marked, told).pending = marked.pending
    BY <1>3, <1>k, EmitQuiet
  <2>2. Sound(reported) /\ Quiet(Emit(marked, told), reported) /\ reported.pending = Emit(marked, told).pending
    BY <2>1, <1>k, EmitQuiet
  <2>3. QED
    BY <1>3, <2>1, <2>2 DEF Quiet
<1> HIDE DEF reported, exhausted
<1>5. Sound(EmitRetry(b, s)) /\ Quiet(b, EmitRetry(b, s))
  BY EmitRetrySound
<1>6. Sound(EmitRetry(reported, s)) /\ Quiet(b, EmitRetry(reported, s))
  BY <1>4, EmitRetrySound DEF Quiet
<1>7. Quiet(b, b)
  BY DEF Quiet
<1> HIDE DEF r
<1>8. QED
  BY <1>0, <1>2, <1>4, <1>5, <1>6, <1>7 DEF r

(* process_inbound accepts the next envelope of the peer or nothing.       *)
LEMMA ProcessInboundSound ==
    ASSUME NEW b, Sound(b), NEW hist, IsSeq(hist), Follows(b, hist), NEW env, Genuine(env, hist)
    PROVE  LET c == ProcessInbound(b, env) IN Sound(c) /\ c.sent = b.sent /\ Follows(c, hist)
<1> DEFINE v == Verdict(b.cursor, b.remote, env)
           next == [b EXCEPT !.cursor = env.seq, !.remote = env.cursor, !.accepted = Append(@, Content(env))]
           in == [kind |-> "Inbound", env |-> env]
           taken == Emit(next, in)
           c == ProcessInbound(b, env)
<1>0. c = IF v # "Inbound" THEN Emit(b, [kind |-> v])
          ELSE IF env.type \in {"Ack", "Nack"} THEN Receipt(taken, env) ELSE taken
  BY DEF ProcessInbound
<1>1. Shape(b) /\ Numbered(b) /\ IsSeq(b.accepted) /\ IsSeq(b.events)
  BY DEF Sound, Shape
<1>n. /\ Len(hist) \in Nat /\ env.seq \in Nat /\ b.cursor = Len(b.accepted) /\ b.cursor \in Nat
      /\ env.seq <= Len(hist) /\ Content(env) = hist[env.seq]
  <2>1. Len(hist) \in Nat /\ Len(b.accepted) \in Nat
    BY <1>1 DEF IsSeq
  <2>2. QED
    BY <2>1, <1>1 DEF Genuine, Numbered
<1>v. v # "Outbound" /\ (v = "Inbound" => env.seq = b.cursor + 1)
  BY <1>n DEF Verdict
<1> HIDE DEF v
<1>2. CASE v # "Inbound"
  <2> DEFINE ev == [kind |-> v]
  <2>1. ev.kind # "Outbound"
    BY <1>v
  <2> HIDE DEF ev
  <2>2. Sound(Emit(b, ev)) /\ Quiet(b, Emit(b, ev))
    BY <2>1, EmitQuiet
  <2>3. c = Emit(b, ev)
    BY <1>0, <1>2 DEF ev
  <2> HIDE DEF c
  <2>4. QED
    BY <2>2, <2>3 DEF Quiet, Follows, c
<1>3. CASE v = "Inbound"
  <2>1. /\ next.sent = b.sent /\ next.accepted = Append(b.accepted, Content(env)) /\ next.cursor = env.seq
        /\ next.pending = b.pending /\ next.next = b.next /\ next.events = b.events
        /\ DOMAIN next = {"next", "cursor", "remote", "pending", "events", "sent", "accepted"}
        /\ next = [f \in DOMAIN next |-> next[f]]
    BY <1>1 DEF Shape
  <2> HIDE DEF next
  <2>2. next = [next |-> next.next, cursor |-> next.cursor, remote |-> next.remote, pending |-> next.pending,
                events |-> next.events, sent |-> next.sent, accepted |-> next.accepted]
    BY <2>1
  <2>3. /\ IsSeq(next.accepted) /\ Len(next.accepted) = b.cursor + 1
        /\ next.accepted[b.cursor + 1] = Content(env)
        /\ \A i \in 1..b.cursor : next.accepted[i] = b.accepted[i]
    BY <2>1, <1>1, <1>n, AppendAny
  <2>4. Shape(next)
    BY <2>1, <2>2, <2>3, <1>1 DEF Shape
  <2>5. Numbered(next) /\ Waiting(next) /\ Leaving(next)
    BY <2>1, <2>3, <1>1, <1>3, <1>v DEF Sound, Numbered, Waiting, Leaving
  <2>6. Sound(next)
    BY <2>4, <2>5 DEF Sound
  <2>7. Follows(next, hist)
    <3>1. \A i \in 1..(b.cursor + 1) : next.accepted[i] = hist[i]
      BY <2>3, <1>n, <1>3, <1>v DEF Follows
    <3>2. QED
      BY <3>1, <2>1, <1>n, <1>3, <1>v DEF Follows
  <2>8. in.kind # "Outbound"
    OBVIOUS
  <2> HIDE DEF in
  <2>9. Sound(taken) /\ Quiet(next, taken)
    BY <2>6, <2>8, EmitQuiet
  <2> HIDE DEF taken
  <2>10. CASE env.type \notin {"Ack", "Nack"}
    <3>1. c = taken
      BY <1>0, <1>3, <2>10
    <3> HIDE DEF c
    <3>2. QED
      BY <3>1, <2>1, <2>7, <2>9 DEF Quiet, Follows, c
  <2>11. CASE env.type \in {"Ack", "Nack"}
    <3> DEFINE gone == [taken EXCEPT !.pending = Without(@, env.ackFor)]
               told == [kind |-> env.type, env |-> taken.pending[env.ackFor].env]
               late == [kind |-> "LateReceipt"]
    <3>1. c = Receipt(taken, env)
      BY <1>0, <1>3, <2>11
    <3>2. c = Emit(gone, told) \/ c = Emit(taken, late)
      BY <3>1 DEF Receipt
    <3>3. told.kind # "Outbound" /\ late.kind # "Outbound"
      BY <2>11
    <3>4. Sound(gone) /\ Quiet(taken, gone)
      BY <2>9, ForgetSound
    <3> HIDE DEF gone, told, late
    <3>5. Sound(Emit(gone, told)) /\ Quiet(gone, Emit(gone, told))
      BY <3>3, <3>4, EmitQuiet
    <3>6. Sound(Emit(taken, late)) /\ Quiet(taken, Emit(taken, late))
      BY <2>9, <3>3, EmitQuiet
    <3> HIDE DEF c
    <3>7. Sound(c) /\ Quiet(next, c)
      BY <3>2, <3>4, <3>5, <3>6, <2>9 DEF Quiet
    <3>8. QED
      BY <3>7, <2>1, <2>7 DEF Quiet, Follows, c
  <2>12. QED
    BY <2>10, <2>11
<1>4. QED
  BY <1>2, <1>3

-----------------------------------------------------------------------------
(* Both ends and the network between them                                  *)
BridgeInv ==
    /\ bridge = [e \in Ends |-> bridge[e]] /\ network = [e \in Ends |-> network[e]]
    /\ \A e \in Ends :
         /\ Sound(bridge[e])
         /\ Follows(bridge[e], bridge[Peer(e)].sent)
         /\ \A env \in network[e] : Genuine(env, bridge[Peer(e)].sent)

(* New bridges have sent and accepted nothing.                             *)
LEMMA BridgeInitInv == BridgeInit => BridgeInv
<1> SUFFICES ASSUME BridgeInit PROVE BridgeInv
  OBVIOUS
<1>1. /\ bridge = [e \in Ends |-> bridge[e]] /\ network = [e \in Ends |-> network[e]]
      /\ \A e \in Ends : bridge[e] = NewBridge /\ network[e] = {} /\ Peer(e) \in Ends
  BY DEF BridgeInit, Ends, Peer
<1> DEFINE b == NewBridge
<1>2. /\ b.next = 1 /\ b.cursor = 0 /\ b.pending = NoPending
      /\ b.events = <<>> /\ b.sent = <<>> /\ b.accepted = <<>>
      /\ b = [next |-> b.next, cursor |-> b.cursor, remote |-> b.remote, pending |-> b.pending,
              events |-> b.events, sent |-> b.sent, accepted |-> b.accepted]
  BY DEF NewBridge
<1>3. b.pending = [s \in DOMAIN b.pending |-> b.pending[s]] /\ DOMAIN b.pending = {}
  BY <1>2 DEF NoPending
<1>4. IsSeq(<<>>) /\ Len(<<>>) = 0
  BY DEF IsSeq
<1> HIDE DEF b
<1>5. Sound(b)
  BY <1>2, <1>3, <1>4 DEF Sound, Shape, Numbered, Waiting, Leaving
<1>6. Follows(b, b.sent)
  BY <1>2, <1>4 DEF Follows
<1>7. QED
  BY <1>1, <1>5, <1>6 DEF BridgeInv, b

(* A wave at an end, whatever it was, keeps the invariant if it left the   *)
(* end sound, its history grown and its peer's followed.                   *)
LEMMA SettleInv ==
    ASSUME BridgeInv, NEW e \in Ends, NEW b, Sound(b), Grows(bridge[e].sent, b.sent),
           Follows(b, bridge[Peer(e)].sent), Settle(e, b)
    PROVE  BridgeInv'
<1> DEFINE o == Peer(e)
           c == [b EXCEPT !.events = <<>>]
<1>1. o \in Ends /\ o # e /\ Peer(o) = e /\ \A x \in Ends : x = e \/ x = o
  BY DEF Ends, Peer
<1>2. /\ bridge' = [x \in Ends |-> bridge'[x]] /\ network' = [x \in Ends |-> network'[x]]
      /\ bridge'[e] = c /\ bridge'[o] = bridge[o]
      /\ network'[o] = network[o] \cup Departing(b) /\ network'[e] = network[e]
  BY <1>1 DEF Settle, BridgeInv
<1>3. Shape(b)
  BY DEF Sound
<1>4. /\ c = [next |-> c.next, cursor |-> c.cursor, remote |-> c.remote, pending |-> c.pending,
               events |-> c.events, sent |-> c.sent, accepted |-> c.accepted]
      /\ c.sent = b.sent /\ c.accepted = b.accepted /\ c.cursor = b.cursor /\ c.pending = b.pending
      /\ c.next = b.next /\ c.events = <<>>
  <2>1. c = [next |-> b.next, cursor |-> b.cursor, remote |-> b.remote, pending |-> b.pending,
             events |-> <<>>, sent |-> b.sent, accepted |-> b.accepted]
    BY <1>3 DEF Shape
  <2>2. QED
    BY <2>1
<1> HIDE DEF c, o
<1>5. Sound(c)
  <2>1. IsSeq(<<>>) /\ Len(<<>>) = 0
    BY DEF IsSeq
  <2>2. Shape(c)
    BY <2>1, <1>3, <1>4 DEF Shape
  <2>3. Numbered(c) /\ Waiting(c) /\ Leaving(c)
    BY <2>1, <1>4 DEF Sound, Numbered, Waiting, Leaving
  <2>4. QED
    BY <2>2, <2>3 DEF Sound
<1>6. Sound(bridge[e]) /\ IsSeq(bridge[e].sent) /\ IsSeq(b.sent)
  BY <1>3 DEF BridgeInv, Sound, Shape
<1>7. Follows(c, bridge[o].sent)
  BY <1>4 DEF Follows, o
<1>8. Follows(bridge[o], c.sent)
  <2>1. Follows(bridge[o], bridge[e].sent) /\ Sound(bridge[o])
    BY <1>1 DEF BridgeInv
  <2>2. Len(bridge[e].sent) \in Nat /\ Len(b.sent) \in Nat /\ bridge[o].cursor \in Nat
    <3>1. IsSeq(bridge[o].accepted) /\ bridge[o].cursor = Len(bridge[o].accepted)
      BY <2>1 DEF Sound, Shape, Numbered
    <3>2. QED
      BY <3>1, <1>6 DEF IsSeq
  <2>3. QED
    BY <2>1, <2>2, <1>4 DEF Follows, Grows
<1>9. \A env \in network'[o] : Genuine(env, c.sent)
  <2>1. \A env \in network[o] : Genuine(env, bridge[e].sent)
    BY <1>1 DEF BridgeInv
  <2>2. \A env \in network[o] : Genuine(env, b.sent)
    BY <2>1, <1>6, GenuineGrows
  <2>3. \A env \in Departing(b) : Genuine(env, b.sent)
    <3>1. DOMAIN b.events = 1..Len(b.events)
      BY <1>3 DEF Shape, IsSeq
    <3>2. QED
      BY <3>1 DEF Departing, Sound, Leaving
  <2>4. QED
    BY <2>2, <2>3, <1>2, <1>4
<1>10. \A env \in network'[e] : Genuine(env, bridge[o].sent)
  BY <1>2 DEF BridgeInv, o
<1>11. Sound(bridge[o])
  BY <1>1 DEF BridgeInv
<1>12. \A x \in Ends : /\ Sound(bridge'[x])
                       /\ Follows(bridge'[x], bridge'[Peer(x)].sent)
                       /\ \A env \in network'[x] : Genuine(env, bridge'[Peer(x)].sent)
  BY <1>1, <1>2, <1>5, <1>7, <1>8, <1>9, <1>10, <1>11 DEF o
<1>13. QED
  BY <1>2, <1>12 DEF BridgeInv

\* What a wave at e may leave behind.
Fit(e, b) == Sound(b) /\ Grows(bridge[e].sent, b.sent) /\ Follows(b, bridge[Peer(e)].sent)

(* An end as it is, is fit.                                                *)
LEMMA FitNow ==
    ASSUME BridgeInv, NEW e \in Ends
    PROVE  Fit(e, bridge[e]) /\ Peer(e) \in Ends /\ IsSeq(bridge[e].sent) /\ IsSeq(bridge[Peer(e)].sent)
<1>1. Peer(e) \in Ends
  BY DEF Ends, Peer
<1>2. IsSeq(bridge[e].sent) /\ IsSeq(bridge[Peer(e)].sent)
  BY <1>1 DEF BridgeInv, Sound, Shape
<1>3. Len(bridge[e].sent) \in Nat
  BY <1>2 DEF IsSeq
<1>4. QED
  <2>1. Grows(bridge[e].sent, bridge[e].sent)
    BY <1>3 DEF Grows
  <2>2. Sound(bridge[e]) /\ Follows(bridge[e], bridge[Peer(e)].sent)
    BY DEF BridgeInv
  <2>3. QED
    BY <1>1, <1>2, <2>1, <2>2 DEF Fit

(* What grows twice has grown.                                             *)
LEMMA GrowsTwice ==
    ASSUME NEW x, NEW y, NEW z, Len(x) \in Nat, Len(y) \in Nat, Len(z) \in Nat,
           Grows(x, y), Grows(y, z)
    PROVE  Grows(x, z)
<1>1. Len(x) <= Len(z)
  BY DEF Grows
<1>2. ASSUME NEW i \in 1..Len(x) PROVE z[i] = x[i]
  <2>1. i \in 1..Len(y)
    BY DEF Grows
  <2>2. QED
    BY <2>1 DEF Grows
<1>3. QED
  BY <1>1, <1>2 DEF Grows

(* Sending leaves a fit end fit (emit_outbound).                           *)
LEMMA FitOutbound ==
    ASSUME BridgeInv, NEW e \in Ends, NEW b, Fit(e, b), NEW type, NEW payload, NEW ackFor
    PROVE  Fit(e, EmitOutbound(b, type, payload, ackFor))
<1> DEFINE c == EmitOutbound(b, type, payload, ackFor)
<1>1. Sound(b) /\ IsSeq(b.sent) /\ IsSeq(bridge[e].sent)
  BY FitNow DEF Fit, Sound, Shape
<1>2. Sound(c) /\ Grows(b.sent, c.sent) /\ c.accepted = b.accepted /\ c.cursor = b.cursor
  BY <1>1, EmitOutboundSound
<1> HIDE DEF c
<1>3. Len(bridge[e].sent) \in Nat /\ Len(b.sent) \in Nat /\ Len(c.sent) \in Nat
  BY <1>1, <1>2 DEF IsSeq, Sound, Shape
<1>4. Grows(bridge[e].sent, c.sent)
  <2>1. Grows(bridge[e].sent, b.sent)
    BY DEF Fit
  <2>2. QED
    BY <1>2, <1>3, <2>1, GrowsTwice
<1>5. QED
  BY <1>2, <1>4 DEF Fit, Follows, c

(* The commands a user may give (process_command).                         *)
LEMMA FitCommands ==
    ASSUME BridgeInv, NEW e \in Ends, NEW uses, NEW b \in BridgeCommands(bridge[e], uses)
    PROVE  Fit(e, b)
<1>0. Fit(e, bridge[e])
  BY FitNow
<1>1. CASE \E type, ackFor : b = EmitOutbound(bridge[e], type, NoPayload, ackFor)
  BY <1>0, <1>1, FitOutbound
<1>2. CASE \E s \in DOMAIN bridge[e].pending : \E attempt, t : b = AckTimeout(bridge[e], s, attempt, t)
  <2>1. Sound(b) /\ Quiet(bridge[e], b)
    BY <1>0, <1>2, AckTimeoutSound DEF Fit
  <2>2. QED
    BY <1>0, <2>1 DEF Fit, Quiet, Follows
<1>3. QED
  BY <1>1, <1>2 DEF BridgeCommands

(* An envelope of the network (process_inbound).                           *)
LEMMA FitInbound ==
    ASSUME BridgeInv, NEW e \in Ends, NEW env \in network[e]
    PROVE  Fit(e, ProcessInbound(bridge[e], env))
<1> DEFINE c == ProcessInbound(bridge[e], env)
<1>1. Fit(e, bridge[e]) /\ IsSeq(bridge[Peer(e)].sent) /\ Genuine(env, bridge[Peer(e)].sent)
  BY FitNow DEF BridgeInv
<1>2. Sound(c) /\ c.sent = bridge[e].sent /\ Follows(c, bridge[Peer(e)].sent)
  BY <1>1, ProcessInboundSound DEF Fit
<1> HIDE DEF c
<1>3. QED
  BY <1>1, <1>2 DEF Fit, c

(* A wave that leaves its end fit keeps the invariant.                     *)
LEMMA FitSettles == ASSUME BridgeInv, NEW e \in Ends, NEW b, Fit(e, b), Settle(e, b) PROVE BridgeInv'
BY SettleInv DEF Fit

(* Nothing happens to the bridges.                                         *)
LEMMA BridgeStutter == ASSUME BridgeInv, UNCHANGED bridgeVars PROVE BridgeInv'
BY DEF BridgeInv, bridgeVars

(* What has been accepted is a beginning of what was sent.                 *)
LEMMA FollowsIsPrefix ==
    ASSUME NEW b, Sound(b), NEW hist, IsSeq(hist), Follows(b, hist)
    PROVE  IsPrefix(b.accepted, hist)
<1> DEFINE acc == b.accepted
           n == Len(acc)
<1>1. IsSeq(acc) /\ b.cursor = n
  BY DEF Sound, Shape, Numbered
<1>2. PICK S, T : acc \in Seq(S) /\ hist \in Seq(T)
  BY <1>1 DEF IsSeq
<1> DEFINE U == S \cup T
<1>3. acc \in Seq(U) /\ hist \in Seq(U)
  BY <1>2
<1> HIDE DEF acc
<1>4. n \in Nat /\ n <= Len(hist) /\ \A i \in 1..n : acc[i] = hist[i] /\ acc[i] \in U /\ hist[i] \in U
  <2>1. n \in Nat /\ Len(hist) \in Nat
    BY <1>3
  <2>2. n <= Len(hist) /\ \A i \in 1..n : acc[i] = hist[i]
    BY <1>1 DEF Follows, acc
  <2>3. \A i \in 1..n : acc[i] \in U
    BY <1>3
  <2>4. QED
    BY <2>1, <2>2, <2>3
<1> HIDE DEF U, n
<1>5. /\ SubSeq(acc, 1, n) \in Seq(U)
      /\ Len(SubSeq(acc, 1, n)) = IF 1 <= n THEN n - 1 + 1 ELSE 0
      /\ \A i \in 1..n - 1 + 1 : SubSeq(acc, 1, n)[i] = acc[1 + i - 1]
  BY <1>3, <1>4, SubSeqProperties
<1>6. /\ SubSeq(hist, 1, n) \in Seq(U)
      /\ Len(SubSeq(hist, 1, n)) = IF 1 <= n THEN n - 1 + 1 ELSE 0
      /\ \A i \in 1..n - 1 + 1 : SubSeq(hist, 1, n)[i] = hist[1 + i - 1]
  BY <1>3, <1>4, SubSeqProperties
<1>7. /\ Len(SubSeq(acc, 1, n)) = n /\ Len(SubSeq(hist, 1, n)) = n
      /\ \A i \in 1..n : SubSeq(acc, 1, n)[i] = acc[i] /\ SubSeq(hist, 1, n)[i] = hist[i]
  BY <1>4, <1>5, <1>6
<1>8. SubSeq(acc, 1, n) = SubSeq(hist, 1, n)
  BY <1>4, <1>5, <1>6, <1>7, SeqEqual
<1>9. QED
  BY <1>4, <1>8 DEF IsPrefix, acc, n

(* The invariant says that both ends accept in order.                      *)
LEMMA InvInOrder == BridgeInv => AcceptedInOrder
BY FollowsIsPrefix, FitNow DEF BridgeInv, AcceptedInOrder

-----------------------------------------------------------------------------
(* Whatever the transport loses, repeats, delays or reorders and whatever  *)
(* the users of the two ends do, a bridge accepts exactly what its peer    *)
(* sent, in order, without gaps and without repetition (process_inbound,   *)
(* emit_outbound, emit_retry_outbound).                                    *)
THEOREM BridgeInOrder == BridgeSpec => []AcceptedInOrder
<1>1. BridgeInit => BridgeInv
  BY BridgeInitInv
<1>2. BridgeInv /\ [BridgeNext]_bridgeVars => BridgeInv'
  <2> SUFFICES ASSUME BridgeInv, [BridgeNext]_bridgeVars PROVE BridgeInv'
    OBVIOUS
  <2>1. ASSUME NEW e \in Ends, NEW b \in BridgeCommands(bridge[e], BridgeUses[e]), Settle(e, b) PROVE BridgeInv'
    BY <2>1, FitCommands, FitSettles
  <2>2. ASSUME NEW e \in Ends, NEW env \in network[e], Settle(e, ProcessInbound(bridge[e], env)) PROVE BridgeInv'
    BY <2>2, FitInbound, FitSettles
  <2>3. CASE UNCHANGED bridgeVars
    BY <2>3, BridgeStutter
  <2>4. QED
    BY <2>1, <2>2, <2>3 DEF BridgeNext
<1>3. BridgeInv => AcceptedInOrder
  BY InvInOrder
<1>4. QED
  BY <1>1, <1>2, <1>3, PTL DEF BridgeSpec

(* The same when remote calls run over the bridges: a request sends, a     *)
(* responder answers in the wave that accepts the request, and pushes of   *)
(* its side send what nobody asked for (remote_call, remote_responder).    *)
THEOREM CallsInOrder == CallsSpec => []AcceptedInOrder
<1>1. CallsInit => BridgeInv
  BY BridgeInitInv DEF CallsInit
<1>2. BridgeInv /\ [CallsNext]_callVars => BridgeInv'
  <2> SUFFICES ASSUME BridgeInv, [CallsNext]_callVars PROVE BridgeInv'
    OBVIOUS
  <2>e. "caller" \in Ends /\ "responder" \in Ends
    BY DEF Ends
  <2>1. ASSUME NEW id, NEW op, Call(id, op) PROVE BridgeInv'
    BY <2>1, <2>e, FitNow, FitOutbound, FitSettles DEF Call, CallerWave
  <2>2. ASSUME NEW id, CallTimeout(id) PROVE BridgeInv'
    BY <2>2, BridgeStutter DEF CallTimeout
  <2>3. ASSUME NEW b \in BridgeCommands(bridge["caller"], CallUses["caller"]), CallerWave(b) PROVE BridgeInv'
    BY <2>3, <2>e, FitCommands, FitSettles DEF CallerWave
  <2>4. ASSUME NEW env \in network["caller"], CallerWave(ProcessInbound(bridge["caller"], env)) PROVE BridgeInv'
    BY <2>4, <2>e, FitInbound, FitSettles DEF CallerWave
  <2>5. ASSUME NEW b \in BridgeCommands(bridge["responder"], CallUses["responder"]), ResponderWave(b) PROVE BridgeInv'
    BY <2>5, <2>e, FitCommands, FitSettles DEF ResponderWave
  <2>6. ASSUME NEW env \in network["responder"], Receive(env) PROVE BridgeInv'
    <3> DEFINE b == ProcessInbound(bridge["responder"], env)
    <3>1. Fit("responder", b)
      BY <2>e, FitInbound
    <3>2. PICK reply : \/ Settle("responder", b)
                       \/ Settle("responder", EmitOutbound(b, "Data", reply, 0))
      BY <2>6 DEF Receive, ResponderWave
    <3> HIDE DEF b
    <3>3. Fit("responder", EmitOutbound(b, "Data", reply, 0))
      BY <3>1, <2>e, FitOutbound
    <3>4. QED
      BY <3>1, <3>2, <3>3, <2>e, FitSettles
  <2>7. ASSUME NEW r, Push(r) PROVE BridgeInv'
    BY <2>7, <2>e, FitNow, FitOutbound, FitSettles DEF Push, ResponderWave
  <2>8. CASE UNCHANGED callVars
    BY <2>8, BridgeStutter DEF callVars
  <2>9. QED
    BY <2>1, <2>2, <2>3, <2>4, <2>5, <2>6, <2>7, <2>8 DEF CallsNext
<1>3. BridgeInv => AcceptedInOrder
  BY InvInOrder
<1>4. QED
  BY <1>1, <1>2, <1>3, PTL DEF CallsSpec

-----------------------------------------------------------------------------
(* The outbound adapters.                                                  *)

(* One report, and two in a row, as the status node reduces them.          *)
LEMMA ReducedOnce ==
  ASSUME NEW e, outbound = "open", Report(<<e>>)
  PROVE  obStatus' = ReduceStatus(obStatus, e) /\ unreported' = unreported
  <1> DEFINE ev == <<e>>
             A == CHOOSE F : F = [n \in 0..Len(ev) |->
                      IF n = 0 THEN obStatus ELSE ReduceStatus(F[n - 1], ev[n])]
             G == [n \in 0..1 |-> IF n = 0 THEN obStatus ELSE ReduceStatus(obStatus, e)]
  <1>1. obStatus' = A[Len(ev)] /\ unreported' = unreported
    BY DEF Report
  <1>2. Len(ev) = 1 /\ ev[1] = e
    OBVIOUS
  <1> HIDE DEF ev
  <1>3. G = [n \in 0..Len(ev) |-> IF n = 0 THEN obStatus ELSE ReduceStatus(G[n - 1], ev[n])]
    <2>1. \A n \in 0..1 : (IF n = 0 THEN obStatus ELSE ReduceStatus(obStatus, e))
                          = (IF n = 0 THEN obStatus ELSE ReduceStatus(G[n - 1], ev[n]))
      <3> TAKE n \in 0..1
      <3>1. G[0] = obStatus
        OBVIOUS
      <3> HIDE DEF G
      <3>2. n = 1 => G[n - 1] = obStatus /\ ev[n] = e
        BY <1>2, <3>1
      <3>3. n = 0 \/ n = 1
        OBVIOUS
      <3> QED BY <3>2, <3>3
    <2>2. Len(ev) = 1
      BY <1>2
    <2> QED BY <2>1, <2>2
  <1> HIDE DEF G
  <1>4. A = [n \in 0..Len(ev) |-> IF n = 0 THEN obStatus ELSE ReduceStatus(A[n - 1], ev[n])]
    BY <1>3
  <1> HIDE DEF A
  <1>5. A[0] = obStatus
    BY <1>2, <1>4
  <1>6. A[1] = ReduceStatus(A[1 - 1], ev[1])
    BY <1>2, <1>4
  <1>7. A[1] = ReduceStatus(obStatus, e)
    BY <1>2, <1>5, <1>6
  <1> QED BY <1>1, <1>2, <1>7

(* Two reports in a row.                                                   *)
LEMMA ReducedTwice ==
  ASSUME NEW e, NEW f, outbound = "open", Report(<<e, f>>)
  PROVE  obStatus' = ReduceStatus(ReduceStatus(obStatus, e), f) /\ unreported' = unreported
  <1> DEFINE ev == <<e, f>>
             A == CHOOSE F : F = [n \in 0..Len(ev) |->
                      IF n = 0 THEN obStatus ELSE ReduceStatus(F[n - 1], ev[n])]
             s1 == ReduceStatus(obStatus, e)
             s2 == ReduceStatus(s1, f)
             G == [n \in 0..2 |-> IF n = 0 THEN obStatus ELSE IF n = 1 THEN s1 ELSE s2]
  <1>1. obStatus' = A[Len(ev)] /\ unreported' = unreported
    BY DEF Report
  <1>2. Len(ev) = 2 /\ ev[1] = e /\ ev[2] = f
    OBVIOUS
  <1> HIDE DEF ev, s2
  <1>3. G = [n \in 0..Len(ev) |-> IF n = 0 THEN obStatus ELSE ReduceStatus(G[n - 1], ev[n])]
    <2>1. \A n \in 0..2 : (IF n = 0 THEN obStatus ELSE IF n = 1 THEN s1 ELSE s2)
                          = (IF n = 0 THEN obStatus ELSE ReduceStatus(G[n - 1], ev[n]))
      <3> TAKE n \in 0..2
      <3>1. G[0] = obStatus /\ G[1] = s1
        OBVIOUS
      <3> HIDE DEF G
      <3>2. n = 1 => G[n - 1] = obStatus /\ ev[n] = e
        BY <1>2, <3>1
      <3>3. n = 2 => G[n - 1] = s1 /\ ev[n] = f
        BY <1>2, <3>1
      <3>4. n = 0 \/ n = 1 \/ n = 2
        OBVIOUS
      <3> HIDE DEF s1
      <3> QED BY <3>2, <3>3, <3>4 DEF s2, s1
    <2>2. Len(ev) = 2
      BY <1>2
    <2> QED BY <2>1, <2>2
  <1> HIDE DEF G
  <1>4. A = [n \in 0..Len(ev) |-> IF n = 0 THEN obStatus ELSE ReduceStatus(A[n - 1], ev[n])]
    BY <1>3
  <1> HIDE DEF A
  <1>5. A[0] = obStatus
    BY <1>2, <1>4
  <1>6. A[1] = ReduceStatus(A[1 - 1], ev[1]) /\ A[2] = ReduceStatus(A[2 - 1], ev[2])
    BY <1>2, <1>4
  <1>7. A[1] = s1
    BY <1>2, <1>5, <1>6
  <1>8. A[2] = ReduceStatus(s1, f)
    BY <1>2, <1>6, <1>7
  <1> QED BY <1>1, <1>2, <1>8

(* Reports that are dropped are counted.                                   *)
LEMMA ReportDropped ==
  ASSUME NEW events, outbound # "open", Report(events)
  PROVE  obStatus' = obStatus /\ unreported' = unreported + Len(events)
  BY DEF Report

(* How many of the posts p are doing w, and one of them changing.          *)
DoingIn(p, w) == Cardinality({i \in DOMAIN p : p[i].doing = w})

OneIf(a, w) == IF a = w THEN 1 ELSE 0

ObPost == [doing : {"sending", "waiting", "sent", "exhausted", "canceled"}, attempt : Nat]

Others(p, i, w) == Cardinality({j \in DOMAIN p \ {i} : p[j].doing = w})

LEMMA CountSplits ==
  ASSUME NEW p \in Seq(ObPost), NEW i \in DOMAIN p, NEW w
  PROVE  /\ DoingIn(p, w) = Others(p, i, w) + OneIf(p[i].doing, w)
         /\ DoingIn(p, w) \in Nat /\ Others(p, i, w) \in Nat
  <1> DEFINE S == {j \in DOMAIN p \ {i} : p[j].doing = w}
             T == {j \in DOMAIN p : p[j].doing = w}
  <1>1. IsFiniteSet(1..Len(p))
    BY FS_Interval
  <1>2. IsFiniteSet(S) /\ IsFiniteSet(T)
    <2>1. S \subseteq 1..Len(p) /\ T \subseteq 1..Len(p)
      OBVIOUS
    <2> QED BY <1>1, <2>1, FS_Subset
  <1>3. Cardinality(S) \in Nat /\ Cardinality(T) \in Nat
    BY <1>2, FS_CardinalityType
  <1>4. i \notin S
    OBVIOUS
  <1>5. CASE p[i].doing = w
    <2>1. T = S \cup {i}
      BY <1>5
    <2>2. Cardinality(T) = Cardinality(S) + 1
      BY <1>2, <1>4, <2>1, FS_AddElement
    <2>3. OneIf(p[i].doing, w) = 1
      BY <1>5 DEF OneIf
    <2> QED BY <1>3, <2>2, <2>3 DEF DoingIn, Others
  <1>6. CASE p[i].doing # w
    <2>1. T = S
      BY <1>6
    <2>2. OneIf(p[i].doing, w) = 0
      BY <1>6 DEF OneIf
    <2>3. Cardinality(T) = Cardinality(S)
      BY <2>1
    <2> HIDE DEF S, T
    <2>4. Cardinality(T) = Cardinality(S) + OneIf(p[i].doing, w)
      BY <1>3, <2>2, <2>3
    <2> QED BY <1>3, <2>4 DEF DoingIn, Others, S, T
  <1> QED BY <1>5, <1>6

ButAt(p, q, i) == DOMAIN q = DOMAIN p /\ \A j \in DOMAIN p \ {i} : q[j].doing = p[j].doing

LEMMA CountMoves ==
  ASSUME NEW p \in Seq(ObPost), NEW q \in Seq(ObPost), NEW i \in DOMAIN p, NEW w,
         ButAt(p, q, i)
  PROVE  /\ DoingIn(p, w) \in Nat /\ DoingIn(q, w) \in Nat
         /\ DoingIn(q, w) + OneIf(p[i].doing, w) = DoingIn(p, w) + OneIf(q[i].doing, w)
  <1>1. Others(p, i, w) = Others(q, i, w)
    <2>1. {j \in DOMAIN p \ {i} : p[j].doing = w} = {j \in DOMAIN q \ {i} : q[j].doing = w}
      BY DEF ButAt
    <2> QED BY <2>1 DEF Others
  <1>2. /\ DoingIn(p, w) = Others(p, i, w) + OneIf(p[i].doing, w)
        /\ DoingIn(p, w) \in Nat /\ Others(p, i, w) \in Nat
    BY CountSplits
  <1>3. i \in DOMAIN q
    BY DEF ButAt
  <1>4. DoingIn(q, w) = Others(q, i, w) + OneIf(q[i].doing, w) /\ DoingIn(q, w) \in Nat
    BY <1>3, CountSplits
  <1> QED BY <1>1, <1>2, <1>4 DEF OneIf

(* A post appended is counted with the others.                             *)
LEMMA CountAppends ==
  ASSUME NEW p \in Seq(ObPost), NEW x \in ObPost, NEW w
  PROVE  /\ DoingIn(p, w) \in Nat /\ DoingIn(Append(p, x), w) \in Nat
         /\ DoingIn(Append(p, x), w) = DoingIn(p, w) + OneIf(x.doing, w)
  <1> DEFINE q == Append(p, x)
             i == Len(p) + 1
  <1>1. q \in Seq(ObPost) /\ DOMAIN q = 1..i /\ q[i] = x /\ DOMAIN p = 1..Len(p)
    OBVIOUS
  <1>2. \A j \in DOMAIN p : q[j] = p[j]
    OBVIOUS
  <1>3. Len(p) \in Nat
    OBVIOUS
  <1> HIDE DEF q
  <1>4. i \in DOMAIN q
    BY <1>1, <1>3
  <1>5. DoingIn(q, w) = Others(q, i, w) + OneIf(q[i].doing, w) /\ DoingIn(q, w) \in Nat
        /\ Others(q, i, w) \in Nat
    BY <1>1, <1>4, CountSplits
  <1>6. {j \in DOMAIN q \ {i} : q[j].doing = w} = {j \in DOMAIN p : p[j].doing = w}
    <2>1. DOMAIN q \ {i} = DOMAIN p
      BY <1>1, <1>3
    <2> QED BY <2>1, <1>2
  <1>7. DoingIn(p, w) = Others(q, i, w)
    BY <1>6 DEF DoingIn, Others
  <1>8. q[i].doing = x.doing
    BY <1>1
  <1> HIDE DEF i
  <1> QED BY <1>5, <1>7, <1>8 DEF q

-----------------------------------------------------------------------------
(* While the events node is open the status node is exact; afterwards it   *)
(* is out by no more than the reports it did not get.                      *)
ObTyped ==
    /\ posts \in Seq(ObPost)
    /\ outbound \in {"open", "ended", "inactive"}
    /\ obStatus.inFlight \in Nat /\ obStatus.sent \in Nat /\ obStatus.failed \in Nat
    /\ unreported \in Nat

ObExact ==
    outbound = "open" => /\ obStatus.inFlight = Doing("sending")
                         /\ obStatus.sent = Doing("sent")
                         /\ obStatus.failed = Doing("exhausted")

ObInv == ObTyped /\ ObExact /\ OutboundCounted

LEMMA DoingNow ==
  ASSUME NEW w
  PROVE  Doing(w) = DoingIn(posts, w) /\ Doing(w)' = DoingIn(posts', w)
  BY DEF Doing, DoingIn

LEMMA DoingNat ==
  ASSUME NEW p \in Seq(ObPost), NEW w
  PROVE  DoingIn(p, w) \in Nat
  <1> DEFINE T == {j \in DOMAIN p : p[j].doing = w}
  <1>1. IsFiniteSet(1..Len(p))
    BY FS_Interval
  <1>2. IsFiniteSet(T)
    <2>1. T \subseteq 1..Len(p)
      OBVIOUS
    <2> QED BY <1>1, <2>1, FS_Subset
  <1> QED BY <1>2, FS_CardinalityType DEF DoingIn

(* An open node that counted exactly still counts exactly, open or ended.  *)
LEMMA StillExact ==
  ASSUME ObTyped', obStatus'.inFlight = DoingIn(posts', "sending"),
         obStatus'.sent = DoingIn(posts', "sent"), obStatus'.failed = DoingIn(posts', "exhausted")
  PROVE  ObInv'
  <1>1. ObExact'
    BY DoingNow DEF ObExact
  <1>2. OutboundCounted'
    <2> DEFINE Off(a, b) == IF a > b THEN a - b ELSE b - a
    <2>1. \A a \in Nat : Off(a, a) = 0
      OBVIOUS
    <2>2. /\ Doing("sending")' \in Nat /\ Doing("sent")' \in Nat /\ Doing("exhausted")' \in Nat
          /\ unreported' \in Nat
      BY DoingNow DEF ObTyped
    <2>3. /\ Off(obStatus'.inFlight, Doing("sending")') = 0
          /\ Off(obStatus'.sent, Doing("sent")') = 0
          /\ Off(obStatus'.failed, Doing("exhausted")') = 0
      BY <2>1, <2>2, DoingNow
    <2> QED BY <2>2, <2>3 DEF OutboundCounted
  <1> QED BY <1>1, <1>2 DEF ObInv

(* How far a count is out, and how far it moves.                           *)
OffBy(a, b) == IF a > b THEN a - b ELSE b - a

LEMMA OffMoves ==
  ASSUME NEW o \in Nat, NEW d \in Nat, NEW e \in Nat, NEW a \in 0..1, NEW b \in 0..1,
         e + a = d + b
  PROVE  OffBy(o, e) <= OffBy(o, d) + 1 /\ OffBy(o, e) \in Nat /\ OffBy(o, d) \in Nat
         /\ (a = 0 => OffBy(o, e) <= OffBy(o, d) + b)
  BY DEF OffBy

LEMMA CountedIs ==
  OutboundCounted <=>
     (outbound # "inactive" =>
        /\ OffBy(obStatus.inFlight, DoingIn(posts, "sending")) <= unreported
        /\ OffBy(obStatus.sent, DoingIn(posts, "sent"))
             + OffBy(obStatus.failed, DoingIn(posts, "exhausted")) <= unreported)
  BY DEF OutboundCounted, OffBy, Doing, DoingIn

LEMMA SumWithin ==
  ASSUME NEW p \in Nat, NEW q \in Nat, NEW r \in Nat, NEW s \in Nat, NEW u \in Nat, NEW v \in Nat,
         NEW b \in 0..1, NEW c \in 0..1, b + c <= 1, v >= u + 1,
         p + q <= u, r <= p + b, s <= q + c
  PROVE  r + s <= v
  OBVIOUS

(* A node that is no longer open drops a report for what changes.          *)
LEMMA StillWithin ==
  ASSUME ObInv, ObTyped', outbound # "open", outbound # "inactive", outbound' # "open",
         obStatus' = obStatus, unreported' >= unreported + 1,
         NEW a1 \in 0..1, NEW b1 \in 0..1, NEW b2 \in 0..1, NEW b3 \in 0..1, b2 + b3 <= 1,
         DoingIn(posts', "sending") + a1 = DoingIn(posts, "sending") + b1,
         DoingIn(posts', "sent") = DoingIn(posts, "sent") + b2,
         DoingIn(posts', "exhausted") = DoingIn(posts, "exhausted") + b3
  PROVE  ObInv'
  <1>1. ObExact'
    BY DEF ObExact
  <1>2. OutboundCounted'
    <2>1. /\ obStatus.inFlight \in Nat /\ obStatus.sent \in Nat /\ obStatus.failed \in Nat
          /\ unreported \in Nat /\ unreported' \in Nat
          /\ \A w : DoingIn(posts, w) \in Nat /\ DoingIn(posts', w) \in Nat
      BY DoingNat DEF ObInv, ObTyped
    <2>2. /\ OffBy(obStatus.inFlight, DoingIn(posts, "sending")) <= unreported
          /\ OffBy(obStatus.sent, DoingIn(posts, "sent"))
               + OffBy(obStatus.failed, DoingIn(posts, "exhausted")) <= unreported
      BY CountedIs DEF ObInv
    <2>3. /\ OffBy(obStatus.inFlight, DoingIn(posts', "sending"))
               <= OffBy(obStatus.inFlight, DoingIn(posts, "sending")) + 1
          /\ OffBy(obStatus.inFlight, DoingIn(posts', "sending")) \in Nat
          /\ OffBy(obStatus.inFlight, DoingIn(posts, "sending")) \in Nat
      BY <2>1, OffMoves
    <2>4. 0 \in 0..1 /\ DoingIn(posts', "sent") + 0 = DoingIn(posts, "sent") + b2
          /\ DoingIn(posts', "exhausted") + 0 = DoingIn(posts, "exhausted") + b3
      BY <2>1
    <2>5. /\ OffBy(obStatus.sent, DoingIn(posts', "sent"))
               <= OffBy(obStatus.sent, DoingIn(posts, "sent")) + b2
          /\ OffBy(obStatus.sent, DoingIn(posts', "sent")) \in Nat
          /\ OffBy(obStatus.sent, DoingIn(posts, "sent")) \in Nat
      BY <2>1, <2>4, OffMoves
    <2>6. /\ OffBy(obStatus.failed, DoingIn(posts', "exhausted"))
               <= OffBy(obStatus.failed, DoingIn(posts, "exhausted")) + b3
          /\ OffBy(obStatus.failed, DoingIn(posts', "exhausted")) \in Nat
          /\ OffBy(obStatus.failed, DoingIn(posts, "exhausted")) \in Nat
      BY <2>1, <2>4, OffMoves
    <2>7. OffBy(obStatus.sent, DoingIn(posts', "sent"))
            + OffBy(obStatus.failed, DoingIn(posts', "exhausted")) <= unreported'
      BY <2>1, <2>2, <2>5, <2>6, SumWithin
    <2>8. OffBy(obStatus.inFlight, DoingIn(posts', "sending")) <= unreported'
      BY <2>1, <2>2, <2>3
    <2>9. OutboundCounted' <=>
           (outbound' # "inactive" =>
              /\ OffBy(obStatus'.inFlight, DoingIn(posts', "sending")) <= unreported'
              /\ OffBy(obStatus'.sent, DoingIn(posts', "sent"))
                   + OffBy(obStatus'.failed, DoingIn(posts', "exhausted")) <= unreported')
      BY DEF OutboundCounted, OffBy, Doing, DoingIn
    <2> QED BY <2>7, <2>8, <2>9
  <1> QED BY <1>1, <1>2 DEF ObInv

(* One post, at i, goes from one thing to another.                         *)
LEMMA ExceptMoves ==
  ASSUME NEW p \in Seq(ObPost), NEW i \in DOMAIN p, NEW x \in ObPost, NEW w
  PROVE  /\ [p EXCEPT ![i] = x] \in Seq(ObPost)
         /\ DoingIn([p EXCEPT ![i] = x], w) + OneIf(p[i].doing, w) = DoingIn(p, w) + OneIf(x.doing, w)
         /\ DoingIn(p, w) \in Nat /\ DoingIn([p EXCEPT ![i] = x], w) \in Nat
  <1>1. PICK q : q = [p EXCEPT ![i] = x]
    OBVIOUS
  <1>2. q \in Seq(ObPost)
    BY <1>1
  <1>3. DOMAIN q = DOMAIN p /\ q[i] = x
    BY <1>1
  <1>4. \A j \in DOMAIN p \ {i} : q[j].doing = p[j].doing
    BY <1>1
  <1>5. ButAt(p, q, i)
    BY <1>3, <1>4 DEF ButAt
  <1>6. /\ DoingIn(q, w) + OneIf(p[i].doing, w) = DoingIn(p, w) + OneIf(q[i].doing, w)
        /\ DoingIn(p, w) \in Nat /\ DoingIn(q, w) \in Nat
    BY <1>2, <1>5, CountMoves
  <1> QED BY <1>1, <1>2, <1>3, <1>6

LEMMA OneIfBit ==
  ASSUME NEW a, NEW w
  PROVE  OneIf(a, w) \in 0..1
  BY DEF OneIf

LEMMA MoveKeeps ==
  ASSUME ObInv, NEW i \in DOMAIN posts, NEW x \in ObPost,
         posts' = [posts EXCEPT ![i] = x], posts[i].doing \in {"sending", "waiting"},
         outbound # "inactive", outbound' \in {outbound, "ended"},
         outbound = "open" =>
            /\ obStatus'.inFlight \in Nat /\ unreported' = unreported
            /\ obStatus'.inFlight + OneIf(posts[i].doing, "sending")
                 = obStatus.inFlight + OneIf(x.doing, "sending")
            /\ obStatus'.sent = obStatus.sent + OneIf(x.doing, "sent")
            /\ obStatus'.failed = obStatus.failed + OneIf(x.doing, "exhausted"),
         outbound # "open" => /\ obStatus' = obStatus
                              /\ unreported' \in Nat /\ unreported' >= unreported + 1
  PROVE  ObInv'
  <1> DEFINE old == posts[i].doing
  <1>1. /\ posts \in Seq(ObPost) /\ unreported \in Nat
        /\ obStatus.inFlight \in Nat /\ obStatus.sent \in Nat /\ obStatus.failed \in Nat
        /\ outbound \in {"open", "ended", "inactive"}
    BY DEF ObInv, ObTyped
  <1>2. /\ posts' \in Seq(ObPost)
        /\ \A w : /\ DoingIn(posts', w) + OneIf(old, w) = DoingIn(posts, w) + OneIf(x.doing, w)
                  /\ DoingIn(posts, w) \in Nat /\ DoingIn(posts', w) \in Nat
    BY <1>1, ExceptMoves
  <1>3. \A a, w : OneIf(a, w) \in 0..1
    BY OneIfBit
  <1>4. OneIf(old, "sent") = 0 /\ OneIf(old, "exhausted") = 0
    BY DEF OneIf
  <1>5. OneIf(x.doing, "sent") + OneIf(x.doing, "exhausted") <= 1
    BY DEF OneIf
  <1>6. /\ DoingIn(posts', "sending") + OneIf(old, "sending")
             = DoingIn(posts, "sending") + OneIf(x.doing, "sending")
        /\ DoingIn(posts', "sent") = DoingIn(posts, "sent") + OneIf(x.doing, "sent")
        /\ DoingIn(posts', "exhausted") = DoingIn(posts, "exhausted") + OneIf(x.doing, "exhausted")
    <2> HIDE DEF old
    <2>1. /\ DoingIn(posts', "sent") + OneIf(old, "sent") = DoingIn(posts, "sent") + OneIf(x.doing, "sent")
          /\ DoingIn(posts', "exhausted") + OneIf(old, "exhausted")
               = DoingIn(posts, "exhausted") + OneIf(x.doing, "exhausted")
          /\ DoingIn(posts', "sent") \in Nat /\ DoingIn(posts', "exhausted") \in Nat
      BY <1>2
    <2>2. DoingIn(posts', "sending") + OneIf(old, "sending")
             = DoingIn(posts, "sending") + OneIf(x.doing, "sending")
      BY <1>2
    <2> QED BY <1>4, <2>1, <2>2
  <1>7. CASE outbound = "open"
    <2>1. /\ obStatus.inFlight = DoingIn(posts, "sending") /\ obStatus.sent = DoingIn(posts, "sent")
          /\ obStatus.failed = DoingIn(posts, "exhausted")
      BY <1>7, DoingNow DEF ObInv, ObExact
    <2>2. /\ obStatus'.inFlight \in Nat /\ unreported' = unreported
          /\ obStatus'.inFlight + OneIf(old, "sending") = obStatus.inFlight + OneIf(x.doing, "sending")
          /\ obStatus'.sent = obStatus.sent + OneIf(x.doing, "sent")
          /\ obStatus'.failed = obStatus.failed + OneIf(x.doing, "exhausted")
      BY <1>7
    <2>3. obStatus'.sent = DoingIn(posts', "sent") /\ obStatus'.failed = DoingIn(posts', "exhausted")
      BY <1>6, <2>1, <2>2
    <2>4. OneIf(old, "sending") \in 0..1 /\ DoingIn(posts', "sending") \in Nat
      BY <1>2, <1>3
    <2> HIDE DEF old
    <2>5. obStatus'.inFlight = DoingIn(posts', "sending")
      BY <1>6, <2>1, <2>2, <2>4
    <2>6. ObTyped'
      BY <1>1, <1>2, <1>7, <2>2, <2>3 DEF ObTyped
    <2> QED BY <2>3, <2>5, <2>6, StillExact
  <1>8. CASE outbound # "open"
    <2>1. ObTyped'
      BY <1>1, <1>2, <1>8 DEF ObTyped
    <2>2. outbound' # "open"
      BY <1>8
    <2>3. /\ OneIf(old, "sending") \in 0..1 /\ OneIf(x.doing, "sending") \in 0..1
          /\ OneIf(x.doing, "sent") \in 0..1 /\ OneIf(x.doing, "exhausted") \in 0..1
      BY <1>3
    <2>4. obStatus' = obStatus /\ unreported' >= unreported + 1
      BY <1>8
    <2> QED BY <1>5, <1>6, <1>8, <2>1, <2>2, <2>3, <2>4, StillWithin
  <1> QED BY <1>7, <1>8

(* A post that is being sent is counted.                                   *)
LEMMA SendingCounted ==
  ASSUME ObInv, outbound = "open", NEW i \in DOMAIN posts, posts[i].doing = "sending"
  PROVE  obStatus.inFlight > 0 /\ obStatus.inFlight \in Nat
  <1>1. posts \in Seq(ObPost) /\ obStatus.inFlight \in Nat
    BY DEF ObInv, ObTyped
  <1>2. DoingIn(posts, "sending") = Others(posts, i, "sending") + OneIf(posts[i].doing, "sending")
        /\ Others(posts, i, "sending") \in Nat
    BY <1>1, CountSplits
  <1>3. OneIf(posts[i].doing, "sending") = 1
    BY DEF OneIf
  <1>4. obStatus.inFlight = DoingIn(posts, "sending")
    BY DoingNow DEF ObInv, ObExact
  <1> QED BY <1>1, <1>2, <1>3, <1>4

(* A send that ends, or sleeps, and reports it once.                       *)
LEMMA SendEnds ==
  ASSUME ObInv, NEW i \in DOMAIN posts, Sending(i), NEW d, NEW e,
         <<d, e>> \in {<<"sent", "Sent">>, <<"exhausted", "Exhausted">>, <<"waiting", "Retry">>},
         Becomes(i, d), Report(<<e>>), outbound' \in {outbound, "ended"}
  PROVE  ObInv'
  <1> DEFINE x == [doing |-> d, attempt |-> posts[i].attempt]
  <1>1. posts \in Seq(ObPost) /\ unreported \in Nat
        /\ obStatus.sent \in Nat /\ obStatus.failed \in Nat
    BY DEF ObInv, ObTyped
  <1>2. posts[i] \in ObPost
    BY <1>1
  <1>3. x \in ObPost /\ x.doing = d
    BY <1>2 DEF ObPost
  <1>4. posts' = [posts EXCEPT ![i] = x]
    <2>1. [posts[i] EXCEPT !.doing = d] = x
      BY <1>2 DEF ObPost
    <2> QED BY <2>1 DEF Becomes
  <1>5. posts[i].doing = "sending" /\ outbound # "inactive"
    BY DEF Sending
  <1>6. ASSUME outbound = "open"
        PROVE  /\ obStatus'.inFlight \in Nat /\ unreported' = unreported
               /\ obStatus'.inFlight + OneIf(posts[i].doing, "sending")
                    = obStatus.inFlight + OneIf(x.doing, "sending")
               /\ obStatus'.sent = obStatus.sent + OneIf(x.doing, "sent")
               /\ obStatus'.failed = obStatus.failed + OneIf(x.doing, "exhausted")
    <2>1. obStatus' = ReduceStatus(obStatus, e) /\ unreported' = unreported
      BY <1>6, ReducedOnce
    <2>2. obStatus.inFlight > 0 /\ obStatus.inFlight \in Nat
      BY <1>5, <1>6, SendingCounted
    <2>3. e \in {"Retry", "Sent", "Exhausted"}
      OBVIOUS
    <2>4. /\ obStatus'.inFlight = obStatus.inFlight - 1
          /\ obStatus'.sent = obStatus.sent + OneIf(e, "Sent")
          /\ obStatus'.failed = obStatus.failed + OneIf(e, "Exhausted")
      BY <1>1, <2>1, <2>2, <2>3 DEF ReduceStatus, OneIf
    <2>5. /\ OneIf(x.doing, "sending") = 0 /\ OneIf(posts[i].doing, "sending") = 1
          /\ OneIf(x.doing, "sent") = OneIf(e, "Sent")
          /\ OneIf(x.doing, "exhausted") = OneIf(e, "Exhausted")
      BY <1>3, <1>5 DEF OneIf
    <2> HIDE DEF x
    <2> QED BY <2>1, <2>2, <2>4, <2>5
  <1>7. ASSUME outbound # "open"
        PROVE  /\ obStatus' = obStatus
               /\ unreported' \in Nat /\ unreported' >= unreported + 1
    <2>1. obStatus' = obStatus /\ unreported' = unreported + Len(<<e>>)
      BY <1>7, ReportDropped
    <2>2. Len(<<e>>) = 1
      OBVIOUS
    <2> QED BY <1>1, <2>1, <2>2
  <1> HIDE DEF x
  <1> QED BY <1>3, <1>4, <1>5, <1>6, <1>7, MoveKeeps

(* A send retried at once: the saturating count goes down and up again.    *)
LEMMA RetryKeeps ==
  ASSUME ObInv, NEW i \in DOMAIN posts, RetriedAtOnce(i)
  PROVE  ObInv'
  <1> DEFINE x == [doing |-> "sending", attempt |-> posts[i].attempt + 1]
  <1>1. posts \in Seq(ObPost) /\ unreported \in Nat
        /\ obStatus.sent \in Nat /\ obStatus.failed \in Nat
    BY DEF ObInv, ObTyped
  <1>2. posts[i] \in ObPost
    BY <1>1
  <1>3. x \in ObPost /\ x.doing = "sending"
    BY <1>2 DEF ObPost
  <1>4. posts[i].doing = "sending" /\ outbound # "inactive"
    BY DEF RetriedAtOnce, Sending
  <1>5. posts' = [posts EXCEPT ![i] = x]
    <2>1. [posts[i] EXCEPT !.attempt = @ + 1] = x
      BY <1>2, <1>4 DEF ObPost
    <2> QED BY <2>1 DEF RetriedAtOnce
  <1>6. Report(<<"Retry", "Attempt">>) /\ outbound' = outbound
    BY DEF RetriedAtOnce
  <1>7. ASSUME outbound = "open"
        PROVE  /\ obStatus'.inFlight \in Nat /\ unreported' = unreported
               /\ obStatus'.inFlight + OneIf(posts[i].doing, "sending")
                    = obStatus.inFlight + OneIf(x.doing, "sending")
               /\ obStatus'.sent = obStatus.sent + OneIf(x.doing, "sent")
               /\ obStatus'.failed = obStatus.failed + OneIf(x.doing, "exhausted")
    <2>1. obStatus' = ReduceStatus(ReduceStatus(obStatus, "Retry"), "Attempt") /\ unreported' = unreported
      BY <1>6, <1>7, ReducedTwice
    <2>2. obStatus.inFlight > 0 /\ obStatus.inFlight \in Nat
      BY <1>4, <1>7, SendingCounted
    <2>3. /\ ReduceStatus(obStatus, "Retry").inFlight = obStatus.inFlight - 1
          /\ ReduceStatus(obStatus, "Retry").sent = obStatus.sent
          /\ ReduceStatus(obStatus, "Retry").failed = obStatus.failed
      BY <2>2 DEF ReduceStatus
    <2>4. /\ obStatus'.inFlight = ReduceStatus(obStatus, "Retry").inFlight + 1
          /\ obStatus'.sent = ReduceStatus(obStatus, "Retry").sent
          /\ obStatus'.failed = ReduceStatus(obStatus, "Retry").failed
      BY <2>1 DEF ReduceStatus
    <2>5. /\ OneIf(x.doing, "sending") = 1 /\ OneIf(posts[i].doing, "sending") = 1
          /\ OneIf(x.doing, "sent") = 0 /\ OneIf(x.doing, "exhausted") = 0
      BY <1>3, <1>4 DEF OneIf
    <2> HIDE DEF x
    <2> QED BY <1>1, <2>1, <2>2, <2>3, <2>4, <2>5
  <1>8. ASSUME outbound # "open"
        PROVE  /\ obStatus' = obStatus
               /\ unreported' \in Nat /\ unreported' >= unreported + 1
    <2>1. obStatus' = obStatus /\ unreported' = unreported + Len(<<"Retry", "Attempt">>)
      BY <1>6, <1>8, ReportDropped
    <2>2. Len(<<"Retry", "Attempt">>) = 2
      OBVIOUS
    <2> QED BY <1>1, <2>1, <2>2
  <1> HIDE DEF x
  <1> QED BY <1>3, <1>4, <1>5, <1>6, <1>7, <1>8, MoveKeeps

(* A retry that wakes is in flight again.                                  *)
LEMMA WakeKeeps ==
  ASSUME ObInv, NEW i \in DOMAIN posts, Wakes(i)
  PROVE  ObInv'
  <1> DEFINE x == [doing |-> "sending", attempt |-> posts[i].attempt + 1]
  <1>1. posts \in Seq(ObPost) /\ unreported \in Nat /\ obStatus.inFlight \in Nat
        /\ obStatus.sent \in Nat /\ obStatus.failed \in Nat
    BY DEF ObInv, ObTyped
  <1>2. posts[i] \in ObPost
    BY <1>1
  <1>3. x \in ObPost /\ x.doing = "sending"
    BY <1>2 DEF ObPost
  <1>4. posts[i].doing = "waiting" /\ outbound # "inactive"
    BY DEF Wakes
  <1>5. posts' = [posts EXCEPT ![i] = x]
    BY DEF Wakes
  <1>6. Report(<<"Attempt">>) /\ outbound' = outbound
    BY DEF Wakes
  <1>7. ASSUME outbound = "open"
        PROVE  /\ obStatus'.inFlight \in Nat /\ unreported' = unreported
               /\ obStatus'.inFlight + OneIf(posts[i].doing, "sending")
                    = obStatus.inFlight + OneIf(x.doing, "sending")
               /\ obStatus'.sent = obStatus.sent + OneIf(x.doing, "sent")
               /\ obStatus'.failed = obStatus.failed + OneIf(x.doing, "exhausted")
    <2>1. obStatus' = ReduceStatus(obStatus, "Attempt") /\ unreported' = unreported
      BY <1>6, <1>7, ReducedOnce
    <2>2. /\ obStatus'.inFlight = obStatus.inFlight + 1
          /\ obStatus'.sent = obStatus.sent /\ obStatus'.failed = obStatus.failed
      BY <2>1 DEF ReduceStatus
    <2>3. /\ OneIf(x.doing, "sending") = 1 /\ OneIf(posts[i].doing, "sending") = 0
          /\ OneIf(x.doing, "sent") = 0 /\ OneIf(x.doing, "exhausted") = 0
      BY <1>3, <1>4 DEF OneIf
    <2> HIDE DEF x
    <2> QED BY <1>1, <2>1, <2>2, <2>3
  <1>8. ASSUME outbound # "open"
        PROVE  /\ obStatus' = obStatus
               /\ unreported' \in Nat /\ unreported' >= unreported + 1
    <2>1. obStatus' = obStatus /\ unreported' = unreported + Len(<<"Attempt">>)
      BY <1>6, <1>8, ReportDropped
    <2>2. Len(<<"Attempt">>) = 1
      OBVIOUS
    <2> QED BY <1>1, <2>1, <2>2
  <1> HIDE DEF x
  <1> QED BY <1>3, <1>4, <1>5, <1>6, <1>7, <1>8, MoveKeeps

(* A value posted is in flight, or given up at once.                       *)
LEMMA PostKeeps ==
  ASSUME ObInv, NEW capable \in BOOLEAN, Post(capable)
  PROVE  ObInv'
  <1> DEFINE d == IF capable THEN "sending" ELSE "exhausted"
             x == [doing |-> d, attempt |-> 1]
  <1>1. posts \in Seq(ObPost) /\ unreported \in Nat /\ obStatus.inFlight \in Nat
        /\ obStatus.sent \in Nat /\ obStatus.failed \in Nat
    BY DEF ObInv, ObTyped
  <1>2. x \in ObPost /\ x.doing = d
    BY DEF ObPost
  <1>3. outbound = "open" /\ posts' = Append(posts, x) /\ outbound' \in {"open", "ended"}
    BY DEF Post
  <1>4. /\ posts' \in Seq(ObPost)
        /\ \A w : /\ DoingIn(posts', w) = DoingIn(posts, w) + OneIf(d, w)
                  /\ DoingIn(posts, w) \in Nat
    <2> HIDE DEF x, d
    <2>1. \A w : /\ DoingIn(Append(posts, x), w) = DoingIn(posts, w) + OneIf(x.doing, w)
                 /\ DoingIn(posts, w) \in Nat
      BY <1>1, <1>2, CountAppends
    <2>2. Append(posts, x) \in Seq(ObPost)
      BY <1>1, <1>2
    <2> QED BY <1>2, <1>3, <2>1, <2>2
  <1>5. /\ obStatus.inFlight = DoingIn(posts, "sending") /\ obStatus.sent = DoingIn(posts, "sent")
        /\ obStatus.failed = DoingIn(posts, "exhausted")
    BY <1>3, DoingNow DEF ObInv, ObExact
  <1>6. /\ obStatus'.inFlight = obStatus.inFlight + OneIf(d, "sending")
        /\ obStatus'.sent = obStatus.sent + OneIf(d, "sent")
        /\ obStatus'.failed = obStatus.failed + OneIf(d, "exhausted")
        /\ unreported' = unreported
    <2>1. CASE capable
      <3>1. Report(<<"Attempt">>)
        BY <2>1 DEF Post
      <3>2. obStatus' = ReduceStatus(obStatus, "Attempt") /\ unreported' = unreported
        BY <1>3, <3>1, ReducedOnce
      <3>3. OneIf(d, "sending") = 1 /\ OneIf(d, "sent") = 0 /\ OneIf(d, "exhausted") = 0
        BY <2>1 DEF OneIf
      <3> HIDE DEF d
      <3> QED BY <1>1, <3>2, <3>3 DEF ReduceStatus
    <2>2. CASE ~capable
      <3>1. Report(<<"Attempt", "Exhausted">>)
        BY <2>2 DEF Post
      <3>2. obStatus' = ReduceStatus(ReduceStatus(obStatus, "Attempt"), "Exhausted") /\ unreported' = unreported
        BY <1>3, <3>1, ReducedTwice
      <3>3. OneIf(d, "sending") = 0 /\ OneIf(d, "sent") = 0 /\ OneIf(d, "exhausted") = 1
        BY <2>2 DEF OneIf
      <3> HIDE DEF d
      <3>4. /\ ReduceStatus(obStatus, "Attempt").inFlight = obStatus.inFlight + 1
            /\ ReduceStatus(obStatus, "Attempt").sent = obStatus.sent
            /\ ReduceStatus(obStatus, "Attempt").failed = obStatus.failed
        BY DEF ReduceStatus
      <3>5. \A s : /\ ReduceStatus(s, "Exhausted").inFlight = IF s.inFlight > 0 THEN s.inFlight - 1 ELSE 0
                   /\ ReduceStatus(s, "Exhausted").sent = s.sent
                   /\ ReduceStatus(s, "Exhausted").failed = s.failed + 1
        BY DEF ReduceStatus
      <3>6. /\ obStatus'.inFlight = IF obStatus.inFlight + 1 > 0 THEN obStatus.inFlight + 1 - 1 ELSE 0
            /\ obStatus'.sent = obStatus.sent /\ obStatus'.failed = obStatus.failed + 1
        <4> DEFINE r == ReduceStatus(obStatus, "Attempt")
        <4>1. r.inFlight = obStatus.inFlight + 1 /\ r.sent = obStatus.sent /\ r.failed = obStatus.failed
          BY <3>4
        <4>2. obStatus' = ReduceStatus(r, "Exhausted")
          BY <3>2
        <4> HIDE DEF r
        <4>3. /\ obStatus'.inFlight = IF r.inFlight > 0 THEN r.inFlight - 1 ELSE 0
              /\ obStatus'.sent = r.sent /\ obStatus'.failed = r.failed + 1
          BY <3>5, <4>2
        <4> QED BY <1>1, <4>1, <4>3
      <3> QED BY <1>1, <3>2, <3>3, <3>6
    <2> QED BY <2>1, <2>2
  <1> HIDE DEF d, x
  <1>7. \A w : OneIf(d, w) \in 0..1
    BY OneIfBit
  <1>8. /\ obStatus'.inFlight = DoingIn(posts', "sending") /\ obStatus'.sent = DoingIn(posts', "sent")
        /\ obStatus'.failed = DoingIn(posts', "exhausted")
    BY <1>4, <1>5, <1>6
  <1>9. obStatus'.inFlight \in Nat /\ obStatus'.sent \in Nat /\ obStatus'.failed \in Nat
    BY <1>1, <1>6, <1>7
  <1>10. ObTyped'
    BY <1>1, <1>3, <1>4, <1>6, <1>9 DEF ObTyped
  <1> QED BY <1>8, <1>10, StillExact

(* The node ends, or is dropped.                                           *)
LEMMA EndKeeps ==
  ASSUME ObInv, SourceEnds
  PROVE  ObInv'
  <1>1. ObTyped' /\ ObExact'
    BY DEF ObInv, ObTyped, ObExact, SourceEnds
  <1>2. OutboundCounted'
    BY DEF ObInv, OutboundCounted, SourceEnds, Doing
  <1> QED BY <1>1, <1>2 DEF ObInv

LEMMA UnwatchKeeps ==
  ASSUME ObInv, Unwatched
  PROVE  ObInv'
  <1>1. posts' \in Seq(ObPost)
    <2>1. posts \in Seq(ObPost)
      BY DEF ObInv, ObTyped
    <2>2. \A i \in DOMAIN posts : [posts[i] EXCEPT !.doing = "canceled"] \in ObPost
      <3> TAKE i \in DOMAIN posts
      <3>1. posts[i] \in ObPost
        BY <2>1
      <3> QED BY <3>1 DEF ObPost
    <2> QED BY <2>1, <2>2 DEF Unwatched
  <1>2. ObTyped' /\ ObExact' /\ OutboundCounted'
    BY <1>1 DEF ObInv, ObTyped, ObExact, OutboundCounted, Unwatched
  <1> QED BY <1>2 DEF ObInv

LEMMA OutboundSteps == ObInv /\ [ObNext]_obVars => ObInv'
  <1> SUFFICES ASSUME ObInv, [ObNext]_obVars
               PROVE  ObInv'
    OBVIOUS
  <1>1. CASE UNCHANGED obVars
    BY <1>1 DEF ObInv, ObTyped, ObExact, OutboundCounted, Doing, obVars
  <1>2. CASE \E capable \in BOOLEAN : Post(capable)
    BY <1>2, PostKeeps
  <1>3. CASE SourceEnds
    BY <1>3, EndKeeps
  <1>4. CASE Unwatched
    BY <1>4, UnwatchKeeps
  <1>5. ASSUME NEW i \in DOMAIN posts,
               Delivered(i) \/ GivenUp(i) \/ CannotWait(i) \/ RetriedAtOnce(i)
                 \/ RetriedLater(i) \/ Wakes(i)
        PROVE  ObInv'
    <2>1. CASE Delivered(i)
      <3>1. Sending(i) /\ Becomes(i, "sent") /\ Report(<<"Sent">>) /\ outbound' = outbound
        BY <2>1 DEF Delivered
      <3> QED BY <3>1, SendEnds
    <2>2. CASE GivenUp(i)
      <3>1. Sending(i) /\ Becomes(i, "exhausted") /\ Report(<<"Exhausted">>) /\ outbound' = outbound
        BY <2>2 DEF GivenUp
      <3> QED BY <3>1, SendEnds
    <2>3. CASE CannotWait(i)
      <3>1. Sending(i) /\ Becomes(i, "exhausted") /\ Report(<<"Exhausted">>) /\ outbound' = "ended"
        BY <2>3 DEF CannotWait
      <3> QED BY <3>1, SendEnds
    <2>4. CASE RetriedLater(i)
      <3>1. Sending(i) /\ Becomes(i, "waiting") /\ Report(<<"Retry">>) /\ outbound' = outbound
        BY <2>4 DEF RetriedLater
      <3> QED BY <3>1, SendEnds
    <2> QED BY <1>5, <2>1, <2>2, <2>3, <2>4, RetryKeeps, WakeKeeps
  <1> QED BY <1>1, <1>2, <1>3, <1>4, <1>5 DEF ObNext

(* The status node of an outbound adapter (reduce_status in               *)
(* adapters/environment.rs), which only sees events and subtracts with    *)
(* saturation, knows what is in flight, sent and given up, to within the  *)
(* reports a terminal events node drops.                                  *)
THEOREM OutboundIsCounted == ObSpec => []OutboundCounted
  <1>1. ObInit => ObInv
    <2> SUFFICES ASSUME ObInit
                 PROVE  ObInv
      OBVIOUS
    <2>1. posts = <<>> /\ outbound = "open" /\ unreported = 0
          /\ obStatus.inFlight = 0 /\ obStatus.sent = 0 /\ obStatus.failed = 0
      BY DEF ObInit
    <2>2. \A w : {i \in DOMAIN posts : posts[i].doing = w} = {}
      BY <2>1
    <2>3. \A w : Doing(w) = 0
      BY <2>2, FS_EmptySet DEF Doing
    <2>4. ObTyped /\ ObExact
      BY <2>1, <2>3 DEF ObTyped, ObExact
    <2>5. OutboundCounted
      BY <2>1, <2>3 DEF OutboundCounted
    <2> QED BY <2>4, <2>5 DEF ObInv
  <1>2. ObInv => OutboundCounted
    BY DEF ObInv
  <1> QED BY <1>1, <1>2, OutboundSteps, PTL DEF ObSpec

-----------------------------------------------------------------------------
(* Edge groups                                                             *)
(* What waits to be sent is newer than what was sent of its edge, and each *)
(* cause has a newer value of every edge than the causes before it.        *)
WaitsOK(p, src) ==
    /\ DOMAIN p \subseteq Edges
    /\ \A e \in DOMAIN p : /\ p[e].value \in Nat /\ p[e].version \in Nat
                           /\ p[e].value <= p[e].version /\ p[e].version <= src[e]

OutOK(o, src) ==
    /\ o = [once |-> o.once, pending |-> o.pending, last |-> o.last]
    /\ o.once \in BOOLEAN /\ WaitsOK(o.pending, src)
    /\ o.once => /\ o.last \in [Edges -> Nat] /\ \A e \in Edges : o.last[e] <= src[e]
                 /\ \A e \in DOMAIN o.pending : o.last[e] < o.pending[e].value

SentOK(o, sent) ==
    /\ sent \in Seq([Edges -> Nat])
    /\ ~o.once => sent = <<>>
    /\ o.once => \A i \in 1..Len(sent) : \A e \in Edges : sent[i][e] <= o.last[e]
    /\ \A i, j \in 1..Len(sent) : i < j => \A e \in Edges : sent[i][e] < sent[j][e]

\* A frame on an edge of the group says what was sent.
FrameOK(f, sent) ==
    f.edge \in Edges => /\ f.cause \in 1..Len(sent) /\ f.kind \in {"Dirty", "Data"}
                        /\ f.kind # "Dirty" => f.value = sent[f.cause][f.edge]

\* The gate gathers the values of one cause.
GateOK(g, sent) ==
    /\ g = [active |-> g.active, dirty |-> g.dirty, data |-> g.data, failed |-> g.failed, released |-> g.released]
    /\ g.dirty \subseteq Edges /\ DOMAIN g.data \subseteq g.dirty
    /\ g.active = NoCause => g.dirty = {}
    /\ g.active # NoCause => /\ g.active \in 1..Len(sent)
                             /\ \A e \in DOMAIN g.data : g.data[e] = sent[g.active][e]

\* What was released is what was sent; while the tombstones have not run out
\* they hold each cause that was released, and it was released once.
CohortsOK(cs, sent) ==
    /\ cs \in Seq([cause : Nat, values : [Edges -> Nat]])
    /\ \A i \in 1..Len(cs) : cs[i].cause \in 1..Len(sent) /\ cs[i].values = sent[cs[i].cause]

Once(rel, cs, sent) ==
    Len(sent) <= TombstoneLimit =>
        /\ rel \in Seq(1..Len(sent))
        /\ \A i, j \in 1..Len(rel) : rel[i] = rel[j] => i = j
        /\ \A i \in 1..Len(cs) : \E k \in 1..Len(rel) : rel[k] = cs[i].cause
        /\ \A i, j \in 1..Len(cs) : cs[i].cause = cs[j].cause => i = j

EdgeInv ==
    /\ source \in [Edges -> Nat] /\ OutOK(outgoing, source) /\ SentOK(outgoing, emitted)
    /\ \A f \in frames : FrameOK(f, emitted)
    /\ GateOK(gate, emitted) /\ CohortsOK(cohorts, emitted)
    /\ Once(gate.released, cohorts, emitted)

-----------------------------------------------------------------------------
(* The sending group.                                                      *)

(* A wave's values are above the version its node had, and not above the   *)
(* one it has by then.                                                     *)
WaveOK(vals, src, ver) ==
    \A e \in Edges : /\ src[e] <= ver[e] /\ vals[e] \in Seq(Nat)
                     /\ \A i \in 1..Len(vals[e]) : /\ vals[e][i] <= ver[e]
                                                   /\ src[e] < vals[e][i] \/ vals[e][i] = ver[e]

LEMMA AdmitKeeps ==
  ASSUME NEW o, NEW src \in [Edges -> Nat], NEW ver \in [Edges -> Nat], NEW vals,
         OutOK(o, src), WaveOK(vals, src, ver)
  PROVE  /\ OutOK(AdmitAll(o, vals, ver), ver)
         /\ AdmitAll(o, vals, ver).once = o.once /\ AdmitAll(o, vals, ver).last = o.last
  <1> DEFINE taken == {e \in Edges : vals[e] # <<>> /\ Admits(o, e, ver[e])}
             V(e) == IF o.once THEN Head(vals[e]) ELSE Last(vals[e])
             p == [e \in DOMAIN o.pending \cup taken |->
                     IF e \in taken THEN [value |-> V(e), version |-> ver[e]] ELSE o.pending[e]]
             r == [once |-> o.once, pending |-> p, last |-> o.last]
  <1>1. AdmitAll(o, vals, ver) = r
    <2>1. AdmitAll(o, vals, ver) = [o EXCEPT !.pending = p]
      BY DEF AdmitAll
    <2> HIDE DEF p
    <2> QED BY <2>1 DEF OutOK
  <1>2. \A e \in taken : /\ V(e) \in Nat /\ V(e) <= ver[e] /\ (src[e] < V(e) \/ V(e) = ver[e])
    <2> TAKE e \in taken
    <2>1. vals[e] \in Seq(Nat) /\ vals[e] # <<>>
      BY DEF WaveOK
    <2>2. Len(vals[e]) \in Nat /\ Len(vals[e]) > 0 /\ Head(vals[e]) = vals[e][1]
      BY <2>1
    <2>3. 1 \in 1..Len(vals[e]) /\ Len(vals[e]) \in 1..Len(vals[e])
      BY <2>2
    <2>4. PICK i \in 1..Len(vals[e]) : V(e) = vals[e][i]
      BY <2>2, <2>3 DEF Last
    <2>5. e \in Edges
      OBVIOUS
    <2> HIDE DEF V, taken
    <2> QED BY <2>1, <2>4, <2>5 DEF WaveOK
  <1>3. /\ DOMAIN p = DOMAIN o.pending \cup taken
        /\ \A e \in taken : p[e].value = V(e) /\ p[e].version = ver[e]
        /\ \A e \in DOMAIN o.pending \ taken : p[e] = o.pending[e]
    OBVIOUS
  <1>4. taken \subseteq Edges /\ \A e \in taken : Admits(o, e, ver[e])
    OBVIOUS
  <1>5. r.once = o.once /\ r.pending = p /\ r.last = o.last
    OBVIOUS
  <1> HIDE DEF p, V, taken
  <1>6. WaitsOK(p, ver)
    <2>1. DOMAIN p \subseteq Edges
      BY <1>3, <1>4 DEF OutOK, WaitsOK
    <2>2. ASSUME NEW e \in taken
          PROVE  /\ p[e].value \in Nat /\ p[e].version \in Nat
                 /\ p[e].value <= p[e].version /\ p[e].version <= ver[e]
      <3>1. ver[e] \in Nat
        BY <1>4
      <3> QED BY <1>2, <1>3, <3>1
    <2>3. ASSUME NEW e \in DOMAIN o.pending \ taken
          PROVE  /\ p[e].value \in Nat /\ p[e].version \in Nat
                 /\ p[e].value <= p[e].version /\ p[e].version <= ver[e]
      <3>1. /\ o.pending[e].value \in Nat /\ o.pending[e].version \in Nat /\ e \in Edges
            /\ o.pending[e].value <= o.pending[e].version /\ o.pending[e].version <= src[e]
        BY DEF OutOK, WaitsOK
      <3>2. src[e] \in Nat /\ ver[e] \in Nat /\ src[e] <= ver[e]
        BY <3>1 DEF WaveOK
      <3>3. p[e] = o.pending[e]
        BY <1>3
      <3> QED BY <3>1, <3>2, <3>3
    <2> QED BY <1>3, <2>1, <2>2, <2>3 DEF WaitsOK
  <1>7. ASSUME o.once
        PROVE  /\ o.last \in [Edges -> Nat] /\ \A e \in Edges : o.last[e] <= ver[e]
               /\ \A e \in DOMAIN p : o.last[e] < p[e].value
    <2>1. o.last \in [Edges -> Nat] /\ \A e \in Edges : o.last[e] <= src[e]
      BY <1>7 DEF OutOK
    <2>2. \A e \in Edges : o.last[e] <= ver[e]
      BY <2>1 DEF WaveOK
    <2>3. ASSUME NEW e \in taken
          PROVE  o.last[e] < p[e].value
      <3>1. e \in DOMAIN o.last /\ o.last[e] # ver[e]
        BY <1>4, <1>7, <2>1 DEF Admits
      <3>2. o.last[e] \in Nat /\ src[e] \in Nat /\ ver[e] \in Nat /\ o.last[e] <= src[e] /\ src[e] <= ver[e]
        BY <1>4, <2>1 DEF WaveOK
      <3> QED BY <1>2, <1>3, <3>1, <3>2
    <2>4. ASSUME NEW e \in DOMAIN o.pending \ taken
          PROVE  o.last[e] < p[e].value
      BY <1>3, <1>7, <2>4 DEF OutOK
    <2> QED BY <1>3, <2>1, <2>2, <2>3, <2>4
  <1>8. OutOK(r, ver)
    BY <1>5, <1>6, <1>7 DEF OutOK
  <1> HIDE DEF r
  <1> QED BY <1>1, <1>5, <1>8

(* What was sent stays, so that what was true of it stays true.            *)
Longer(sent, more) ==
    /\ Len(sent) \in Nat /\ Len(more) \in Nat /\ Len(sent) <= Len(more)
    /\ \A i \in 1..Len(sent) : more[i] = sent[i]

LEMMA LongerKeeps ==
  ASSUME NEW sent, NEW more, Longer(sent, more)
  PROVE  /\ \A f : FrameOK(f, sent) => FrameOK(f, more)
         /\ \A g : GateOK(g, sent) => GateOK(g, more)
         /\ \A cs : CohortsOK(cs, sent) => CohortsOK(cs, more)
         /\ \A rel, cs : Once(rel, cs, sent) => Once(rel, cs, more)
  <1>1. \A c \in 1..Len(sent) : c \in 1..Len(more) /\ more[c] = sent[c]
    BY DEF Longer
  <1>2. \A f : FrameOK(f, sent) => FrameOK(f, more)
    BY <1>1 DEF FrameOK
  <1>3. \A g : GateOK(g, sent) => GateOK(g, more)
    BY <1>1 DEF GateOK
  <1>4. \A cs : CohortsOK(cs, sent) => CohortsOK(cs, more)
    BY <1>1 DEF CohortsOK
  <1>5. \A rel, cs : Once(rel, cs, sent) => Once(rel, cs, more)
    <2> TAKE rel, cs
    <2> SUFFICES ASSUME Once(rel, cs, sent), Len(more) <= TombstoneLimit
                 PROVE  /\ rel \in Seq(1..Len(more))
                        /\ \A i, j \in 1..Len(rel) : rel[i] = rel[j] => i = j
                        /\ \A i \in 1..Len(cs) : \E k \in 1..Len(rel) : rel[k] = cs[i].cause
                        /\ \A i, j \in 1..Len(cs) : cs[i].cause = cs[j].cause => i = j
      BY DEF Once
    <2>1. Len(sent) <= TombstoneLimit
      BY EdgeAssumption DEF Longer
    <2>2. /\ rel \in Seq(1..Len(sent))
          /\ \A i, j \in 1..Len(rel) : rel[i] = rel[j] => i = j
          /\ \A i \in 1..Len(cs) : \E k \in 1..Len(rel) : rel[k] = cs[i].cause
          /\ \A i, j \in 1..Len(cs) : cs[i].cause = cs[j].cause => i = j
      BY <2>1 DEF Once
    <2>3. 1..Len(sent) \subseteq 1..Len(more)
      BY <1>1
    <2>4. rel \in Seq(1..Len(more))
      <3>1. Len(rel) \in Nat /\ rel \in [1..Len(rel) -> 1..Len(sent)]
        BY <2>2
      <3>2. rel \in [1..Len(rel) -> 1..Len(more)]
        BY <2>3, <3>1
      <3> QED BY <3>1, <3>2
    <2> QED BY <2>2, <2>4
  <1> QED BY <1>2, <1>3, <1>4, <1>5

(* Sending a cause.                                                        *)
LEMMA EmissionKeeps ==
  ASSUME EdgeInv, source' \in [Edges -> Nat], NEW o, OutOK(o, source'),
         o.once = outgoing.once, o.last = outgoing.last,
         Emission(o), UNCHANGED <<gate, cohorts>>
  PROVE  EdgeInv'
  <1> DEFINE w == [e \in DOMAIN o.pending |-> o.pending[e].value]
  <1>1. SentOK(o, emitted)
    BY DEF EdgeInv, SentOK
  <1>2. CASE DOMAIN o.pending # Edges
    <2>1. outgoing' = o /\ emitted' = emitted /\ frames' = frames
      BY <1>2 DEF Emission
    <2> QED BY <1>1, <2>1 DEF EdgeInv
  <1>3. CASE DOMAIN o.pending = Edges
    <2> DEFINE last == [e \in Edges |-> o.pending[e].version]
               n == [once |-> TRUE, pending |-> NoEdges, last |-> last]
               more == Append(emitted, w)
    <2>1. /\ outgoing' = n /\ emitted' = more
          /\ frames' = frames \cup FramesOf(Len(emitted) + 1, w)
      BY <1>3 DEF Emission
    <2>2. \A e \in Edges : /\ o.pending[e].value \in Nat /\ o.pending[e].version \in Nat
                           /\ o.pending[e].value <= o.pending[e].version
                           /\ o.pending[e].version <= source'[e]
      BY <1>3 DEF OutOK, WaitsOK
    <2>3. w \in [Edges -> Nat] /\ last \in [Edges -> Nat]
      BY <1>3, <2>2
    <2>4. \A e \in Edges : w[e] <= last[e] /\ last[e] <= source'[e]
      BY <1>3, <2>2
    <2>5. emitted \in Seq([Edges -> Nat]) /\ Len(emitted) \in Nat
      BY <1>1 DEF SentOK
    <2>6. \A i \in 1..Len(emitted) : \A e \in Edges : emitted[i][e] < w[e]
      <3>1. CASE ~o.once
        <4>1. emitted = <<>>
          BY <1>1, <3>1 DEF SentOK
        <4> QED BY <4>1
      <3>2. CASE o.once
        <4> TAKE i \in 1..Len(emitted)
        <4> TAKE e \in Edges
        <4>1. emitted[i][e] <= o.last[e] /\ emitted[i][e] \in Nat
          BY <1>1, <2>5, <3>2 DEF SentOK
        <4>2. o.last[e] \in Nat /\ o.last[e] < w[e] /\ w[e] \in Nat
          BY <1>3, <2>3, <3>2 DEF OutOK
        <4> QED BY <4>1, <4>2
      <3> QED BY <3>1, <3>2
    <2> HIDE DEF w, last
    <2>7. /\ more \in Seq([Edges -> Nat]) /\ Len(more) = Len(emitted) + 1 /\ more[Len(emitted) + 1] = w
          /\ \A i \in 1..Len(emitted) : more[i] = emitted[i]
      BY <2>3, <2>5
    <2> HIDE DEF more
    <2>8. Longer(emitted, more)
      BY <2>5, <2>7 DEF Longer
    <2>9. n.once = TRUE /\ n.last = last /\ n.pending = NoEdges /\ DOMAIN NoEdges = {}
      BY DEF NoEdges
    <2>10. OutOK(n, source')
      BY <2>3, <2>4, <2>9 DEF OutOK, WaitsOK
    <2>11. SentOK(n, more)
      <3>1. \A i \in 1..Len(more) : i \in 1..Len(emitted) \/ i = Len(emitted) + 1
        BY <2>5, <2>7
      <3>2. ASSUME NEW i \in 1..Len(more), NEW e \in Edges
            PROVE  more[i][e] <= last[e]
        <4>0. w[e] \in Nat /\ last[e] \in Nat /\ w[e] <= last[e]
          BY <2>3, <2>4
        <4>1. CASE i \in 1..Len(emitted)
          <5>1. more[i] = emitted[i] /\ emitted[i][e] \in Nat /\ emitted[i][e] < w[e]
            BY <2>5, <2>6, <2>7, <4>1
          <5> QED BY <4>0, <5>1
        <4>2. CASE i = Len(emitted) + 1
          BY <2>7, <4>0, <4>2
        <4> QED BY <3>1, <4>1, <4>2
      <3>3. ASSUME NEW i \in 1..Len(more), NEW j \in 1..Len(more), i < j, NEW e \in Edges
            PROVE  more[i][e] < more[j][e]
        <4>1. i \in 1..Len(emitted)
          BY <2>5, <2>7, <3>3
        <4>2. CASE j \in 1..Len(emitted)
          <5>1. emitted[i][e] < emitted[j][e]
            BY <1>1, <3>3, <4>1, <4>2 DEF SentOK
          <5> QED BY <2>7, <4>1, <4>2, <5>1
        <4>3. CASE j = Len(emitted) + 1
          BY <2>6, <2>7, <4>1, <4>3
        <4> QED BY <3>1, <4>2, <4>3
      <3> QED BY <2>7, <2>9, <3>2, <3>3 DEF SentOK
    <2>12. \A f \in frames' : FrameOK(f, more)
      <3>1. \A f \in frames : FrameOK(f, more)
        BY <2>8, LongerKeeps DEF EdgeInv
      <3>2. \A f \in FramesOf(Len(emitted) + 1, w) : FrameOK(f, more)
        <4> TAKE f \in FramesOf(Len(emitted) + 1, w)
        <4>1. /\ f.cause = Len(emitted) + 1 /\ f.kind \in {"Dirty", "Data"}
              /\ f.kind # "Dirty" => f.value = w[f.edge]
          BY DEF FramesOf
        <4>2. Len(emitted) + 1 \in 1..Len(more)
          BY <2>5, <2>7
        <4> QED BY <2>7, <4>1, <4>2 DEF FrameOK
      <3> QED BY <2>1, <3>1, <3>2
    <2>13. GateOK(gate, more) /\ CohortsOK(cohorts, more) /\ Once(gate.released, cohorts, more)
      BY <2>8, LongerKeeps DEF EdgeInv
    <2> HIDE DEF n
    <2> QED BY <2>1, <2>10, <2>11, <2>12, <2>13 DEF EdgeInv
  <1> QED BY <1>2, <1>3

LEMMA NewValuesKeep ==
  ASSUME EdgeInv, NEW counts \in [Edges -> 0..2], NewValues(counts)
  PROVE  EdgeInv'
  <1> DEFINE ver == [e \in Edges |-> source[e] + counts[e]]
             vals == [e \in Edges |-> [i \in 1..counts[e] |-> source[e] + i]]
  <1>1. /\ source' = ver /\ Emission(AdmitAll(outgoing, vals, ver)) /\ UNCHANGED <<gate, cohorts>>
    BY DEF NewValues
  <1>2. source \in [Edges -> Nat] /\ OutOK(outgoing, source)
    BY DEF EdgeInv
  <1>3. ver \in [Edges -> Nat] /\ \A e \in Edges : source[e] <= ver[e]
    BY <1>2
  <1>4. \A e \in Edges : vals[e] \in Seq(Nat) /\ Len(vals[e]) = counts[e]
    <2> TAKE e \in Edges
    <2>1. counts[e] \in Nat /\ source[e] \in Nat /\ vals[e] = [i \in 1..counts[e] |-> source[e] + i]
      BY <1>2
    <2> QED BY <2>1
  <1>5. \A e \in Edges : \A i \in 1..Len(vals[e]) : /\ vals[e][i] <= ver[e]
                                                    /\ source[e] < vals[e][i]
    <2> TAKE e \in Edges
    <2>1. counts[e] \in Nat /\ source[e] \in Nat /\ vals[e] = [i \in 1..counts[e] |-> source[e] + i]
          /\ ver[e] = source[e] + counts[e]
      BY <1>2
    <2>2. Len(vals[e]) = counts[e]
      BY <1>4
    <2> HIDE DEF vals, ver
    <2> QED BY <2>1, <2>2
  <1> HIDE DEF vals, ver
  <1>6. PICK o : o = AdmitAll(outgoing, vals, ver)
    OBVIOUS
  <1>7. WaveOK(vals, source, ver)
    BY <1>3, <1>4, <1>5 DEF WaveOK
  <1>8. OutOK(o, ver) /\ o.once = outgoing.once /\ o.last = outgoing.last
    BY <1>2, <1>3, <1>6, <1>7, AdmitKeeps
  <1> QED BY <1>1, <1>3, <1>6, <1>8, EmissionKeeps

LEMMA ReplayKeeps ==
  ASSUME EdgeInv, NEW e \in Edges, Replay(e)
  PROVE  EdgeInv'
  <1> DEFINE vals == [x \in Edges |-> IF x = e THEN <<source[e]>> ELSE <<>>]
  <1>1. /\ source' = source /\ Emission(AdmitAll(outgoing, vals, source)) /\ UNCHANGED <<gate, cohorts>>
    BY DEF Replay
  <1>2. source \in [Edges -> Nat] /\ OutOK(outgoing, source)
    BY DEF EdgeInv
  <1>3. \A x \in Edges : source[x] <= source[x]
    BY <1>2
  <1>4. \A x \in Edges : vals[x] \in Seq(Nat)
    BY <1>2
  <1>5. \A x \in Edges : \A i \in 1..Len(vals[x]) : vals[x][i] <= source[x] /\ vals[x][i] = source[x]
    <2> TAKE x \in Edges
    <2>1. CASE x = e
      <3>1. vals[x] = <<source[e]>> /\ source[e] \in Nat
        BY <1>2, <2>1
      <3> HIDE DEF vals
      <3> QED BY <2>1, <3>1
    <2>2. CASE x # e
      <3>1. vals[x] = <<>>
        BY <2>2
      <3> HIDE DEF vals
      <3> QED BY <3>1
    <2> QED BY <2>1, <2>2
  <1> HIDE DEF vals
  <1>6. PICK o : o = AdmitAll(outgoing, vals, source)
    OBVIOUS
  <1>7. WaveOK(vals, source, source)
    BY <1>3, <1>4, <1>5 DEF WaveOK
  <1>8. OutOK(o, source) /\ o.once = outgoing.once /\ o.last = outgoing.last
    BY <1>2, <1>6, <1>7, AdmitKeeps
  <1> QED BY <1>1, <1>2, <1>6, <1>8, EmissionKeeps

LEMMA InvalidKeeps ==
  ASSUME EdgeInv, NEW e \in Edges, SourceInvalid(e)
  PROVE  EdgeInv'
  <1> DEFINE p == [x \in DOMAIN outgoing.pending \ {e} |-> outgoing.pending[x]]
  <1>1. PICK o : o = [outgoing EXCEPT !.pending = p]
    OBVIOUS
  <1>2. source' = source /\ Emission(o) /\ UNCHANGED <<gate, cohorts>>
    BY <1>1 DEF SourceInvalid
  <1>3. source \in [Edges -> Nat] /\ OutOK(outgoing, source)
    BY DEF EdgeInv
  <1>4. DOMAIN p \subseteq DOMAIN outgoing.pending /\ \A x \in DOMAIN p : p[x] = outgoing.pending[x]
    OBVIOUS
  <1> HIDE DEF p
  <1>5. /\ o = [once |-> o.once, pending |-> o.pending, last |-> o.last]
        /\ o.once = outgoing.once /\ o.last = outgoing.last /\ o.pending = p
    BY <1>1, <1>3 DEF OutOK
  <1>6. WaitsOK(p, source)
    BY <1>3, <1>4 DEF OutOK, WaitsOK
  <1>7. OutOK(o, source)
    BY <1>3, <1>4, <1>5, <1>6 DEF OutOK
  <1> QED BY <1>2, <1>3, <1>5, <1>7, EmissionKeeps

-----------------------------------------------------------------------------
(* The receiving group.                                                    *)

LEMMA FailIs ==
  ASSUME NEW g, NEW sent, GateOK(g, sent), NEW c
  PROVE  GateOK(Fail(g, c), sent) /\ Fail(g, c).released = g.released /\ Fail(g, c).active = NoCause
  <1> DEFINE b == Bury(g.failed, c)
             r == [active |-> NoCause, dirty |-> {}, data |-> NoEdges, failed |-> b, released |-> g.released]
  <1>1. Fail(g, c) = r
    <2> HIDE DEF b
    <2>1. Fail(g, c) = Reset([g EXCEPT !.failed = b])
      BY DEF Fail, b
    <2> QED BY <2>1 DEF Reset, GateOK
  <1>2. DOMAIN NoEdges = {}
    BY DEF NoEdges
  <1>3. GateOK(r, sent) /\ r.released = g.released /\ r.active = NoCause
    <2> HIDE DEF b
    <2> QED BY <1>2 DEF GateOK
  <1> HIDE DEF r
  <1> QED BY <1>1, <1>3

LEMMA FailBothIs ==
  ASSUME NEW g, NEW sent, GateOK(g, sent), NEW c
  PROVE  GateOK(FailBoth(g, c), sent) /\ FailBoth(g, c).released = g.released
  <1>1. PICK f : f = Fail(g, g.active)
    OBVIOUS
  <1>2. GateOK(f, sent) /\ f.released = g.released
    BY <1>1, FailIs
  <1> DEFINE b == Bury(f.failed, c)
             r == [active |-> f.active, dirty |-> f.dirty, data |-> f.data, failed |-> b, released |-> f.released]
  <1>3. FailBoth(g, c) = r
    <2>1. FailBoth(g, c) = [f EXCEPT !.failed = b]
      BY <1>1 DEF FailBoth
    <2> HIDE DEF b
    <2> QED BY <1>2, <2>1 DEF GateOK
  <1>4. GateOK(r, sent) /\ r.released = g.released
    <2> HIDE DEF b
    <2> QED BY <1>2 DEF GateOK
  <1> HIDE DEF r
  <1> QED BY <1>3, <1>4

\* The frame f completes what g gathers.
Completes(g, f) ==
    /\ ~Spent(g, f.cause) /\ g.active = f.cause /\ f.kind = "Data"
    /\ f.edge \in g.dirty \ DOMAIN g.data /\ Whole(g, f)

\* f is of the cause that g gathers, on an edge announced.
Adds(g, f) == g.active = f.cause /\ f.edge \in g.dirty /\ f.kind # "Dirty"

LEMMA GatheredIs ==
  ASSUME NEW g, NEW sent, GateOK(g, sent), NEW f, FrameOK(f, sent), Adds(g, f)
  PROVE  /\ DOMAIN Gathered(g, f) = DOMAIN g.data \cup {f.edge}
         /\ \A e \in DOMAIN Gathered(g, f) : Gathered(g, f)[e] = sent[f.cause][e]
         /\ f.cause \in 1..Len(sent) /\ g.active # NoCause
  <1>1. f.edge \in Edges /\ g.active # NoCause
    BY DEF GateOK, Adds
  <1>2. f.cause \in 1..Len(sent) /\ f.value = sent[f.cause][f.edge]
    BY <1>1 DEF FrameOK, Adds
  <1>3. \A e \in DOMAIN g.data : g.data[e] = sent[f.cause][e]
    BY <1>1 DEF GateOK, Adds
  <1> QED BY <1>1, <1>2, <1>3 DEF Gathered

LEMMA ReduceKeeps ==
  ASSUME NEW g, NEW sent, GateOK(g, sent), Len(sent) \in Nat, NEW f, FrameOK(f, sent)
  PROVE  /\ GateOK(ReduceFrame(g, f), sent)
         /\ ~Completes(g, f) => ReduceFrame(g, f).released = g.released
         /\ Completes(g, f) => ReduceFrame(g, f).released = Bury(g.released, f.cause)
  <1>1. CASE Spent(g, f.cause)
    BY <1>1 DEF ReduceFrame, Completes
  <1>2. CASE ~Spent(g, f.cause) /\ g.active \notin {NoCause, f.cause}
    <2>1. ReduceFrame(g, f) = FailBoth(g, f.cause) /\ ~Completes(g, f)
      BY <1>2 DEF ReduceFrame, Completes
    <2> QED BY <2>1, FailBothIs
  <1>3. CASE ~Spent(g, f.cause) /\ g.active \in {NoCause, f.cause} /\ f.edge \notin Edges
    <2>1. ReduceFrame(g, f) = Fail(g, f.cause)
      BY <1>3 DEF ReduceFrame
    <2>2. ~Completes(g, f)
      BY <1>3 DEF Completes, GateOK
    <2> QED BY <2>1, <2>2, FailIs
  <1>4. CASE ~Spent(g, f.cause) /\ g.active \in {NoCause, f.cause} /\ f.edge \in Edges /\ f.kind = "Dirty"
    <2>1. ReduceFrame(g, f) = ReduceDirty(g, f) /\ ~Completes(g, f)
      BY <1>4 DEF ReduceFrame, Completes
    <2>2. CASE f.edge \in g.dirty
      BY <2>1, <2>2, FailIs DEF ReduceDirty
    <2>3. CASE f.edge \notin g.dirty
      <3> DEFINE d == g.dirty \cup {f.edge}
                 r == [active |-> f.cause, dirty |-> d, data |-> g.data, failed |-> g.failed, released |-> g.released]
      <3>1. ReduceFrame(g, f) = r
        <4>1. ReduceFrame(g, f) = [g EXCEPT !.active = f.cause, !.dirty = d]
          BY <2>1, <2>3 DEF ReduceDirty
        <4> HIDE DEF d
        <4> QED BY <4>1 DEF GateOK
      <3>2. f.cause \in 1..Len(sent) /\ f.cause # NoCause
        BY <1>4 DEF FrameOK, NoCause
      <3>3. \A e \in DOMAIN g.data : g.data[e] = sent[f.cause][e]
        <4>1. CASE g.active = NoCause
          BY <4>1 DEF GateOK
        <4>2. CASE g.active # NoCause
          BY <1>4, <4>2 DEF GateOK
        <4> QED BY <4>1, <4>2
      <3>4. d \subseteq Edges /\ DOMAIN g.data \subseteq d
        BY <1>4 DEF GateOK
      <3> HIDE DEF d
      <3>5. GateOK(r, sent) /\ r.released = g.released
        BY <3>2, <3>3, <3>4 DEF GateOK
      <3> HIDE DEF r
      <3> QED BY <2>1, <3>1, <3>5
    <2> QED BY <2>2, <2>3
  <1>5. CASE ~Spent(g, f.cause) /\ g.active \in {NoCause, f.cause} /\ f.edge \in Edges /\ f.kind # "Dirty"
    <2>1. ReduceFrame(g, f) = ReduceData(g, f)
      BY <1>5 DEF ReduceFrame
    <2>2. CASE f.edge \notin g.dirty \/ f.edge \in DOMAIN g.data
      <3>1. ReduceFrame(g, f) = Fail(g, f.cause) /\ ~Completes(g, f)
        BY <2>1, <2>2 DEF ReduceData, Completes, GateOK
      <3> QED BY <3>1, FailIs
    <2>3. CASE f.edge \in g.dirty \ DOMAIN g.data
      <3>0. g.active = f.cause
        BY <1>5, <2>3 DEF GateOK
      <3>1. /\ DOMAIN Gathered(g, f) = DOMAIN g.data \cup {f.edge}
            /\ \A e \in DOMAIN Gathered(g, f) : Gathered(g, f)[e] = sent[f.cause][e]
            /\ f.cause \in 1..Len(sent) /\ g.active # NoCause
        <4>1. Adds(g, f)
          BY <1>5, <2>3, <3>0 DEF Adds
        <4> QED BY <4>1, GatheredIs
      <3>2. CASE Whole(g, f)
        <4> DEFINE b == Bury(g.released, f.cause)
                   r == [active |-> NoCause, dirty |-> {}, data |-> NoEdges, failed |-> g.failed, released |-> b]
        <4>1. ReduceFrame(g, f) = r
          <5>1. ReduceFrame(g, f) = Reset([g EXCEPT !.released = b])
            BY <2>1, <2>3, <3>2 DEF ReduceData
          <5> HIDE DEF b
          <5> QED BY <5>1 DEF Reset, GateOK
        <4>2. DOMAIN NoEdges = {}
          BY DEF NoEdges
        <4>3. GateOK(r, sent) /\ r.released = b
          <5> HIDE DEF b
          <5> QED BY <4>2 DEF GateOK
        <4>0. f.kind = "Data"
          BY <1>5 DEF FrameOK
        <4>4. Completes(g, f)
          BY <1>5, <2>3, <3>0, <3>2, <4>0 DEF Completes
        <4> HIDE DEF r
        <4> QED BY <4>1, <4>3, <4>4
      <3>3. CASE ~Whole(g, f)
        <4> DEFINE w == Gathered(g, f)
                   r == [active |-> g.active, dirty |-> g.dirty, data |-> w, failed |-> g.failed, released |-> g.released]
        <4>1. ReduceFrame(g, f) = r
          <5>1. ReduceFrame(g, f) = [g EXCEPT !.data = w]
            BY <2>1, <2>3, <3>3 DEF ReduceData
          <5> HIDE DEF w
          <5> QED BY <5>1 DEF GateOK
        <4>2. DOMAIN w \subseteq g.dirty
          BY <2>3, <3>1 DEF GateOK
        <4>3. \A e \in DOMAIN w : w[e] = sent[g.active][e]
          BY <3>0, <3>1
        <4> HIDE DEF w
        <4>4. GateOK(r, sent) /\ r.released = g.released
          BY <3>1, <4>2, <4>3 DEF GateOK
        <4>5. ~Completes(g, f)
          BY <3>3 DEF Completes
        <4> HIDE DEF r
        <4> QED BY <4>1, <4>4, <4>5
      <3> QED BY <3>2, <3>3
    <2> QED BY <2>2, <2>3
  <1> QED BY <1>1, <1>2, <1>3, <1>4, <1>5

(* The tombstones have room for a cause while each is that of a cause sent. *)
LEMMA BuryAppends ==
  ASSUME NEW n \in Nat, n <= TombstoneLimit, NEW rel \in Seq(1..n), NEW c \in 1..n, c \notin Range(rel),
         \A i, j \in 1..Len(rel) : rel[i] = rel[j] => i = j
  PROVE  Bury(rel, c) = Append(rel, c)
  <1> DEFINE all == Append(rel, c)
             L == Len(rel) + 1
  <1>1. Len(rel) \in Nat /\ Len(all) = L /\ all \in Seq(1..n) /\ DOMAIN rel = 1..Len(rel)
    OBVIOUS
  <1>2. \A i \in 1..L : all[i] = IF i = L THEN c ELSE rel[i]
    BY <1>1
  <1>3. \A i \in 1..Len(rel) : rel[i] # c
    BY <1>1 DEF Range
  <1>4. \A i, j \in 1..L : all[i] = all[j] => i = j
    <2> TAKE i, j \in 1..L
    <2>1. (i = L \/ i \in 1..Len(rel)) /\ (j = L \/ j \in 1..Len(rel))
      BY <1>1
    <2> HIDE DEF all, L
    <2> QED BY <1>2, <1>3, <2>1
  <1>5. all \in [1..L -> 1..n]
    <2> HIDE DEF all, L
    <2> QED BY <1>1
  <1> HIDE DEF all
  <1>6. all \in Injection(1..L, 1..n)
    BY <1>4, <1>5 DEF Injection, IsInjective
  <1>7. /\ IsFiniteSet(1..L) /\ Cardinality(1..L) = L /\ IsFiniteSet(1..n) /\ Cardinality(1..n) = n
    <2>1. L \in Nat /\ 1 \in Int /\ L \in Int /\ n \in Int
      BY <1>1
    <2> QED BY <2>1, FS_Interval
  <1>8. L <= n
    BY <1>6, <1>7, FS_Injection
  <1>9. ~(Len(all) > TombstoneLimit)
    BY <1>1, <1>8, EdgeAssumption
  <1>10. Bury(rel, c) = SubSeq(all, 1, Len(all))
    BY <1>9 DEF Bury, all
  <1> QED BY <1>1, <1>10 DEF all

LEMMA ArrivesKeeps ==
  ASSUME EdgeInv, NEW f \in frames, FrameArrives(f)
  PROVE  EdgeInv'
  <1>1. UNCHANGED <<source, outgoing, emitted, frames>> /\ gate' = ReduceFrame(gate, f)
    BY DEF FrameArrives
  <1>2. /\ GateOK(gate, emitted) /\ FrameOK(f, emitted) /\ emitted \in Seq([Edges -> Nat])
        /\ Len(emitted) \in Nat
    BY DEF EdgeInv, SentOK
  <1>3. /\ GateOK(gate', emitted)
        /\ ~Completes(gate, f) => gate'.released = gate.released
        /\ Completes(gate, f) => gate'.released = Bury(gate.released, f.cause)
    BY <1>1, <1>2, ReduceKeeps
  <1>4. CohortsOK(cohorts, emitted) /\ Once(gate.released, cohorts, emitted)
    BY DEF EdgeInv
  <1>5. CohortsOK(cohorts', emitted) /\ Once(gate'.released, cohorts', emitted)
    <2>1. CASE ~Completes(gate, f)
      <3>1. cohorts' = cohorts
        BY <2>1 DEF FrameArrives, Completes
      <3> QED BY <1>3, <1>4, <2>1, <3>1
    <2>2. CASE Completes(gate, f)
      <3>1. PICK w : w = Gathered(gate, f)
        OBVIOUS
      <3>2. cohorts' = Append(cohorts, [cause |-> f.cause, values |-> w])
        BY <2>2, <3>1 DEF FrameArrives, Completes
      <3>3. /\ gate.active = f.cause /\ f.kind # "Dirty" /\ f.edge \in gate.dirty
            /\ DOMAIN gate.data \cup {f.edge} = Edges /\ f.cause \notin Range(gate.released)
        BY <2>2 DEF Completes, Whole, Spent
      <3>4. /\ DOMAIN w = Edges /\ \A e \in Edges : w[e] = emitted[f.cause][e]
            /\ f.cause \in 1..Len(emitted)
        <4>1. /\ DOMAIN Gathered(gate, f) = DOMAIN gate.data \cup {f.edge}
              /\ \A e \in DOMAIN Gathered(gate, f) : Gathered(gate, f)[e] = emitted[f.cause][e]
              /\ f.cause \in 1..Len(emitted)
          <5>1. PICK g, s : g = gate /\ s = emitted
            OBVIOUS
          <5>2. GateOK(g, s) /\ FrameOK(f, s) /\ Adds(g, f)
            BY <1>2, <3>3, <5>1 DEF Adds
          <5>3. /\ DOMAIN Gathered(g, f) = DOMAIN g.data \cup {f.edge}
                /\ \A e \in DOMAIN Gathered(g, f) : Gathered(g, f)[e] = s[f.cause][e]
                /\ f.cause \in 1..Len(s) /\ g.active # NoCause
            BY <5>2, GatheredIs
          <5> QED BY <5>1, <5>3
        <4> QED BY <3>1, <3>3, <4>1
      <3>5. w = emitted[f.cause] /\ w \in [Edges -> Nat]
        <4>1. emitted[f.cause] \in [Edges -> Nat]
          BY <1>2, <3>4
        <4>2. w = [e \in Edges |-> w[e]]
          BY <3>1, <3>4 DEF Gathered
        <4> QED BY <3>4, <4>1, <4>2
      <3>6. CohortsOK(cohorts', emitted) /\ Len(cohorts') = Len(cohorts) + 1 /\ Len(cohorts) \in Nat
            /\ cohorts'[Len(cohorts) + 1].cause = f.cause
            /\ \A i \in 1..Len(cohorts) : cohorts'[i] = cohorts[i]
        <4>1. [cause |-> f.cause, values |-> w] \in [cause : Nat, values : [Edges -> Nat]]
          BY <3>4, <3>5
        <4>2. cohorts \in Seq([cause : Nat, values : [Edges -> Nat]])
          BY <1>4 DEF CohortsOK
        <4>3. PICK c : c = [cause |-> f.cause, values |-> w]
          OBVIOUS
        <4>4. c.cause = f.cause /\ c.values = w
          BY <4>3
        <4>5. /\ cohorts' \in Seq([cause : Nat, values : [Edges -> Nat]])
              /\ Len(cohorts') = Len(cohorts) + 1 /\ Len(cohorts) \in Nat
              /\ cohorts'[Len(cohorts) + 1] = c
              /\ \A i \in 1..Len(cohorts) : cohorts'[i] = cohorts[i]
          <5>1. PICK T : T = [cause : Nat, values : [Edges -> Nat]]
            OBVIOUS
          <5>2. cohorts \in Seq(T) /\ c \in T /\ cohorts' = Append(cohorts, c)
            BY <3>2, <4>1, <4>2, <4>3, <5>1
          <5> QED BY <5>1, <5>2
        <4>6. \A i \in 1..Len(cohorts') : i \in 1..Len(cohorts) \/ i = Len(cohorts) + 1
          BY <4>5
        <4>7. \A i \in 1..Len(cohorts') : /\ cohorts'[i].cause \in 1..Len(emitted)
                                          /\ cohorts'[i].values = emitted[cohorts'[i].cause]
          BY <1>4, <3>4, <3>5, <4>4, <4>5, <4>6 DEF CohortsOK
        <4> QED BY <4>4, <4>5, <4>7 DEF CohortsOK
      <3>7. ASSUME Len(emitted) <= TombstoneLimit
            PROVE  /\ gate'.released \in Seq(1..Len(emitted))
                   /\ \A i, j \in 1..Len(gate'.released) : gate'.released[i] = gate'.released[j] => i = j
                   /\ \A i \in 1..Len(cohorts') : \E k \in 1..Len(gate'.released) : gate'.released[k] = cohorts'[i].cause
                   /\ \A i, j \in 1..Len(cohorts') : cohorts'[i].cause = cohorts'[j].cause => i = j
        <4>1. PICK rel : rel = gate.released
          OBVIOUS
        <4>2. /\ rel \in Seq(1..Len(emitted)) /\ Len(rel) \in Nat
              /\ \A i, j \in 1..Len(rel) : rel[i] = rel[j] => i = j
              /\ \A i \in 1..Len(cohorts) : \E k \in 1..Len(rel) : rel[k] = cohorts[i].cause
              /\ \A i, j \in 1..Len(cohorts) : cohorts[i].cause = cohorts[j].cause => i = j
          BY <1>4, <3>7, <4>1 DEF Once
        <4>3. PICK new : new = gate'.released
          OBVIOUS
        <4>4. new = Append(rel, f.cause)
          BY <1>2, <1>3, <2>2, <3>3, <3>4, <3>7, <4>1, <4>2, <4>3, BuryAppends
        <4>5. /\ new \in Seq(1..Len(emitted)) /\ Len(new) = Len(rel) + 1 /\ new[Len(rel) + 1] = f.cause
              /\ \A k \in 1..Len(rel) : new[k] = rel[k]
          BY <3>4, <4>2, <4>4
        <4>6. \A k \in 1..Len(rel) : rel[k] # f.cause
          <5>1. DOMAIN rel = 1..Len(rel)
            BY <4>2
          <5> QED BY <3>3, <4>1, <5>1 DEF Range
        <4>7. /\ \A k \in 1..Len(new) : k \in 1..Len(rel) \/ k = Len(rel) + 1
              /\ \A k \in 1..Len(rel) : k \in 1..Len(new)
              /\ Len(rel) + 1 \in 1..Len(new)
          BY <4>2, <4>5
        <4>8. \A i, j \in 1..Len(new) : new[i] = new[j] => i = j
          BY ZenonT(30), <4>2, <4>5, <4>6, <4>7
        <4>9. \A i \in 1..Len(cohorts') : i \in 1..Len(cohorts) \/ i = Len(cohorts) + 1
          BY <3>6
        <4>10. \A i \in 1..Len(cohorts) : cohorts'[i].cause # f.cause
          <5> TAKE i \in 1..Len(cohorts)
          <5>1. PICK k \in 1..Len(rel) : rel[k] = cohorts[i].cause
            BY <4>2
          <5>2. cohorts'[i] = cohorts[i] /\ rel[k] # f.cause
            BY <3>6, <4>6
          <5> QED BY <5>1, <5>2
        <4>11. \A i \in 1..Len(cohorts') : \E k \in 1..Len(new) : new[k] = cohorts'[i].cause
          BY ZenonT(30), <3>6, <4>2, <4>5, <4>7, <4>9
        <4>12. \A i, j \in 1..Len(cohorts') : cohorts'[i].cause = cohorts'[j].cause => i = j
          BY <3>6, <4>2, <4>9, <4>10
        <4> QED BY <4>3, <4>5, <4>8, <4>11, <4>12
      <3> QED BY <3>6, <3>7 DEF Once
    <2> QED BY <2>1, <2>2
  <1> QED BY <1>1, <1>3, <1>5 DEF EdgeInv

LEMMA EdgeInvHolds == EdgeSpec => []EdgeInv
  <1>1. EdgeInit => EdgeInv
    <2> SUFFICES ASSUME EdgeInit PROVE EdgeInv
      OBVIOUS
    <2>1. source \in [Edges -> Nat] /\ emitted = <<>> /\ cohorts = <<>> /\ DOMAIN NoEdges = {}
      BY DEF EdgeInit, NoEdges
    <2>2. OutOK(outgoing, source)
      BY <2>1 DEF EdgeInit, OutOK, WaitsOK
    <2>3. SentOK(outgoing, emitted)
      <3>1. ~outgoing.once
        BY DEF EdgeInit
      <3> QED BY <2>1, <3>1 DEF SentOK
    <2>4. \A f \in frames : FrameOK(f, emitted)
      BY EdgeAssumption DEF EdgeInit, FrameOK
    <2>5. GateOK(gate, emitted) /\ gate.released = <<>>
      BY <2>1 DEF EdgeInit, GateOK
    <2>6. CohortsOK(cohorts, emitted) /\ Once(gate.released, cohorts, emitted)
      BY <2>1, <2>5 DEF CohortsOK, Once
    <2> QED BY <2>1, <2>2, <2>3, <2>4, <2>5, <2>6 DEF EdgeInv
  <1>2. EdgeInv /\ [EdgeNext]_edgeVars => EdgeInv'
    <2> SUFFICES ASSUME EdgeInv, [EdgeNext]_edgeVars PROVE EdgeInv'
      OBVIOUS
    <2>1. CASE \E counts \in [Edges -> 0..2] : NewValues(counts)
      BY <2>1, NewValuesKeep
    <2>2. CASE \E e \in Edges : Replay(e) \/ SourceInvalid(e)
      BY <2>2, ReplayKeeps, InvalidKeeps
    <2>3. CASE \E f \in frames : FrameArrives(f)
      BY <2>3, ArrivesKeeps
    <2>4. CASE BridgeEnd
      <3>1. UNCHANGED <<source, outgoing, emitted, frames, cohorts>> /\ gate' = Fail(gate, gate.active)
        BY <2>4 DEF BridgeEnd
      <3>2. GateOK(gate', emitted) /\ gate'.released = gate.released
        BY <3>1, FailIs DEF EdgeInv
      <3> QED BY <3>1, <3>2 DEF EdgeInv
    <2>5. CASE UNCHANGED edgeVars
      BY <2>5 DEF edgeVars, EdgeInv
    <2> QED BY <2>1, <2>2, <2>3, <2>4, <2>5 DEF EdgeNext
  <1> QED BY <1>1, <1>2, PTL DEF EdgeSpec

\* What was released of a cause is what was sent under it.
ReleasedIsSent ==
    \A i \in DOMAIN cohorts : cohorts[i].cause \in DOMAIN emitted /\ cohorts[i].values = emitted[cohorts[i].cause]

(* Whatever the transport loses, repeats or reorders, and at whatever      *)
(* moment the bridge ends, what a receiving edge group releases is the     *)
(* snapshot sent under its cause.  While the causes sent do not outnumber  *)
(* the tombstones, no occurrence of a source is released twice: past that  *)
(* the receiver has forgotten the oldest causes it released, and a late    *)
(* copy of one would be released again (reduce_wire_edge_group_frame,      *)
(* emit_wire_edge_group_outbound, WireEdgeGroupCauseTombstones).           *)
THEOREM CohortsAreWhole ==
  EdgeSpec => [](ReleasedIsSent /\ (Len(emitted) <= TombstoneLimit => CohortsWhole))
  <1>1. EdgeInv => ReleasedIsSent /\ (Len(emitted) <= TombstoneLimit => CohortsWhole)
    <2> SUFFICES ASSUME EdgeInv
                 PROVE  ReleasedIsSent /\ (Len(emitted) <= TombstoneLimit => CohortsWhole)
      OBVIOUS
    <2>1. /\ emitted \in Seq([Edges -> Nat]) /\ CohortsOK(cohorts, emitted)
          /\ Once(gate.released, cohorts, emitted)
          /\ \A i, j \in 1..Len(emitted) : i < j => \A e \in Edges : emitted[i][e] < emitted[j][e]
      BY DEF EdgeInv, SentOK
    <2>2. /\ DOMAIN cohorts = 1..Len(cohorts) /\ DOMAIN emitted = 1..Len(emitted) /\ Len(emitted) \in Nat
          /\ \A i \in 1..Len(cohorts) : cohorts[i].cause \in 1..Len(emitted)
          /\ \A i \in 1..Len(cohorts) : cohorts[i].values = emitted[cohorts[i].cause]
      BY <2>1 DEF CohortsOK
    <2>3. ReleasedIsSent
      BY <2>2 DEF ReleasedIsSent
    <2>4. ASSUME Len(emitted) <= TombstoneLimit, NEW i \in 1..Len(cohorts),
                 NEW j \in 1..Len(cohorts), i # j, NEW e \in Edges
          PROVE  cohorts[i].values[e] # cohorts[j].values[e]
      <3>1. PICK a, b : a = cohorts[i].cause /\ b = cohorts[j].cause
        OBVIOUS
      <3>2. a \in 1..Len(emitted) /\ b \in 1..Len(emitted) /\ a # b
        BY <2>1, <2>2, <2>4, <3>1 DEF Once
      <3>3. /\ emitted[a][e] \in Nat /\ emitted[b][e] \in Nat
            /\ cohorts[i].values = emitted[a] /\ cohorts[j].values = emitted[b]
        <4>1. cohorts[i].values = emitted[a] /\ cohorts[j].values = emitted[b]
          BY <2>2, <3>1
        <4>2. emitted[a] \in [Edges -> Nat] /\ emitted[b] \in [Edges -> Nat]
          BY <2>1, <3>2
        <4> QED BY <4>1, <4>2
      <3>4. a < b \/ b < a
        BY <3>2
      <3>5. emitted[a][e] < emitted[b][e] \/ emitted[b][e] < emitted[a][e]
        BY <2>1, <3>2, <3>4
      <3> QED BY <3>3, <3>5
    <2> QED BY <2>2, <2>3, <2>4 DEF CohortsWhole
  <1> QED BY <1>1, EdgeInvHolds, PTL

-----------------------------------------------------------------------------
(* The WebSocket session.                                                  *)

FactKinds == Final \cup {"Queued", "Sending"}
Phases == {"connecting", "open", "closing", "gone"}
StatusKinds == {"Idle", "Connecting", "Open", "Closing", "Closed", "Waiting", "Errored", "Exhausted"}

SessionFact == [fact : FactKinds, seq : Nat]
Connection == [attempt : Nat \ {0}, phase : Phases]

SessionType ==
    [active : BOOLEAN, connected : BOOLEAN, waiting : BOOLEAN, attempt : Nat, session : Nat,
     pending : Seq(Nat), live : Seq(Nat), next : Nat, timer : Nat, conns : Seq(Connection),
     outstanding : SUBSET Nat, facts : Seq(SessionFact), status : [state : StatusKinds, attempt : Nat]]

\* What is reported of a list of messages.
Told(fact, items) == [i \in 1 .. Len(items) |-> [fact |-> fact, seq |-> items[i]]]

Apart(list) == \A i, j \in DOMAIN list : list[i] = list[j] => i = j
Rising(list) == \A i, j \in DOMAIN list : i < j => list[i] < list[j]
EndsIn(facts, q) == {i \in DOMAIN facts : facts[i].fact \in Final /\ facts[i].seq = q}

SendsOrdered(f) == \A i, j \in DOMAIN f : i < j /\ f[i].fact = "Sending" /\ f[j].fact = "Sending" => f[i].seq < f[j].seq
SentBefore(f, items) == \A i \in DOMAIN f, j \in DOMAIN items : f[i].fact = "Sending" => f[i].seq < items[j]
FactsBelow(f, n) == \A i \in DOMAIN f : f[i].seq < n
Below(list, n) == \A i \in DOMAIN list : list[i] < n
\* A message is waiting, out, or has its one final fact.
OnceEnded(p, l, f, q) ==
    IF Contains(p, q) \/ Contains(l, q) THEN EndsIn(f, q) = {} ELSE \E i \in EndsIn(f, q) : EndsIn(f, q) = {i}

\* The messages: where each is, and what was said of it.
Accounted(p, l, n, f) ==
    /\ Below(p, n) /\ Below(l, n) /\ FactsBelow(f, n)
    /\ Rising(p) /\ Apart(l)
    /\ \A i \in DOMAIN p, j \in DOMAIN l : p[i] # l[j]
    /\ \A q \in 0 .. n - 1 : OnceEnded(p, l, f, q)
    /\ SendsOrdered(f) /\ SentBefore(f, p)

\* m is l and then p.
Joined(m, l, p) ==
    /\ m \in Seq(Nat) /\ Len(l) \in Nat /\ Len(p) \in Nat
    /\ DOMAIN m = 1 .. Len(l) + Len(p) /\ DOMAIN l = 1 .. Len(l) /\ DOMAIN p = 1 .. Len(p)
    /\ \A i \in DOMAIN l : m[i] = l[i]
    /\ \A i \in DOMAIN p : m[Len(l) + i] = p[i]
    /\ \A i \in DOMAIN m : i \in DOMAIN l \/ \E j \in DOMAIN p : i = Len(l) + j

LEMMA JoinIs ==
    ASSUME NEW l \in Seq(Nat), NEW p \in Seq(Nat), NEW m, m = l \o p
    PROVE  Joined(m, l, p)
<1>0. Len(l) \in Nat /\ Len(p) \in Nat
  OBVIOUS
<1>1. m \in Seq(Nat) /\ Len(m) = Len(l) + Len(p)
  BY ConcatProperties
<1>2. DOMAIN m = 1 .. Len(l) + Len(p) /\ DOMAIN l = 1 .. Len(l) /\ DOMAIN p = 1 .. Len(p)
  BY <1>1
<1>3. \A i \in DOMAIN l : m[i] = l[i]
  BY <1>0, <1>2
<1>4. \A i \in DOMAIN p : m[Len(l) + i] = p[i]
  <2> TAKE i \in DOMAIN p
  <2>1. Len(l) + i \in 1 .. Len(l) + Len(p) /\ Len(l) + i > Len(l) /\ (Len(l) + i) - Len(l) = i
    BY <1>0, <1>2
  <2> QED BY <2>1, <1>0
<1>5. \A i \in DOMAIN m : i \in DOMAIN l \/ \E j \in DOMAIN p : i = Len(l) + j
  <2> TAKE i \in DOMAIN m
  <2>1. CASE i <= Len(l)
    BY <2>1, <1>0, <1>2
  <2>2. CASE i > Len(l)
    <3>1. i - Len(l) \in 1 .. Len(p) /\ i = Len(l) + (i - Len(l))
      BY <2>2, <1>0, <1>2
    <3> QED BY <3>1, <1>2
  <2> QED BY <2>1, <2>2, <1>0, <1>2
<1> QED BY <1>0, <1>1, <1>2, <1>3, <1>4, <1>5 DEF Joined

LEMMA ToldIs ==
    ASSUME NEW items \in Seq(Nat), NEW fact \in FactKinds
    PROVE  /\ Told(fact, items) \in Seq(SessionFact)
           /\ Len(Told(fact, items)) = Len(items)
           /\ \A i \in 1 .. Len(items) : Told(fact, items)[i] = [fact |-> fact, seq |-> items[i]]
<1>1. \A i \in 1 .. Len(items) : items[i] \in Nat
  OBVIOUS
<1>2. Len(items) \in Nat
  OBVIOUS
<1> QED BY <1>1, <1>2 DEF Told, SessionFact

\* g is f and then facts of one kind about the items.
More(g, f, fact, items) ==
    /\ g \in Seq(SessionFact) /\ Len(f) \in Nat /\ Len(items) \in Nat
    /\ DOMAIN g = 1 .. Len(f) + Len(items) /\ DOMAIN f = 1 .. Len(f) /\ DOMAIN items = 1 .. Len(items)
    /\ \A i \in DOMAIN f : g[i] = f[i] /\ f[i].seq \in Nat
    /\ \A i \in DOMAIN items : g[Len(f) + i].fact = fact /\ g[Len(f) + i].seq = items[i] /\ items[i] \in Nat
    /\ \A i \in DOMAIN g : i \in DOMAIN f \/ \E j \in DOMAIN items : i = Len(f) + j

\* The facts after more of one kind.
LEMMA FactsAfter ==
    ASSUME NEW f \in Seq(SessionFact), NEW items \in Seq(Nat), NEW fact \in FactKinds,
           NEW g, g = f \o Told(fact, items)
    PROVE  More(g, f, fact, items)
<1>0. Len(f) \in Nat /\ Len(items) \in Nat
  OBVIOUS
<1> PICK t : t = Told(fact, items)
  OBVIOUS
<1>t. t \in Seq(SessionFact) /\ Len(t) = Len(items) /\ \A i \in 1 .. Len(items) : t[i] = [fact |-> fact, seq |-> items[i]]
  BY ToldIs
<1>g. g = f \o t
  OBVIOUS
<1>1. /\ g \in Seq(SessionFact) /\ Len(g) = Len(f) + Len(t)
  BY <1>t, <1>g, ConcatProperties
<1>2. DOMAIN g = 1 .. Len(f) + Len(items) /\ DOMAIN f = 1 .. Len(f) /\ DOMAIN items = 1 .. Len(items)
  BY <1>1, <1>t
<1>3. \A i \in DOMAIN f : g[i] = f[i]
  BY <1>g, <1>t, <1>0, <1>2
<1>4. \A i \in DOMAIN items : g[Len(f) + i] = t[i]
  <2> TAKE i \in DOMAIN items
  <2>1. Len(f) + i \in 1 .. Len(f) + Len(t) /\ Len(f) + i > Len(f) /\ (Len(f) + i) - Len(f) = i
    BY <1>0, <1>2, <1>t
  <2> QED BY <2>1, <1>g, <1>t, <1>0
<1>5. \A i \in DOMAIN items : g[Len(f) + i].fact = fact /\ g[Len(f) + i].seq = items[i] /\ items[i] \in Nat
  <2>1. \A i \in DOMAIN items : items[i] \in Nat
    OBVIOUS
  <2>2. \A i \in DOMAIN items : g[Len(f) + i] = [fact |-> fact, seq |-> items[i]]
    BY <1>4, <1>t, <1>2
  <2>3. ASSUME NEW i \in DOMAIN items
        PROVE  g[Len(f) + i].fact = fact /\ g[Len(f) + i].seq = items[i] /\ items[i] \in Nat
    <3>1. g[Len(f) + i] = [fact |-> fact, seq |-> items[i]]
      BY <2>2
    <3> QED BY <3>1, <2>1
  <2> QED BY <2>3
<1>6. \A i \in DOMAIN f : f[i] \in SessionFact
  OBVIOUS
<1>7. \A i \in DOMAIN f : f[i].seq \in Nat
  BY <1>6 DEF SessionFact
<1>8. \A i \in DOMAIN g : i \in DOMAIN f \/ \E j \in DOMAIN items : i = Len(f) + j
  <2> TAKE i \in DOMAIN g
  <2>1. CASE i <= Len(f)
    BY <2>1, <1>0, <1>2
  <2>2. CASE i > Len(f)
    <3>1. i - Len(f) \in 1 .. Len(items) /\ i = Len(f) + (i - Len(f))
      BY <2>2, <1>0, <1>2
    <3> QED BY <3>1, <1>2
  <2> QED BY <2>1, <2>2, <1>0, <1>2
<1> QED BY <1>0, <1>1, <1>2, <1>3, <1>5, <1>7, <1>8 DEF More

\* The final facts after more of one kind.
EndsMoved(g, f, fact, items, q) ==
    /\ fact \notin Final => EndsIn(g, q) = EndsIn(f, q)
    /\ ~Contains(items, q) => EndsIn(g, q) = EndsIn(f, q)
    /\ fact \in Final /\ Contains(items, q) /\ EndsIn(f, q) = {} => \E i \in EndsIn(g, q) : EndsIn(g, q) = {i}

LEMMA EndsAfter ==
    ASSUME NEW f, NEW items, NEW fact, NEW q, NEW g, More(g, f, fact, items), Apart(items)
    PROVE  EndsMoved(g, f, fact, items, q)
<1>1. /\ Len(f) \in Nat /\ Len(items) \in Nat
      /\ DOMAIN g = 1 .. Len(f) + Len(items) /\ DOMAIN f = 1 .. Len(f) /\ DOMAIN items = 1 .. Len(items)
      /\ \A i \in DOMAIN f : g[i] = f[i]
      /\ \A i \in DOMAIN items : g[Len(f) + i].fact = fact /\ g[Len(f) + i].seq = items[i]
      /\ \A i \in DOMAIN g : i \in DOMAIN f \/ \E j \in DOMAIN items : i = Len(f) + j
  BY DEF More
<1>4. \A i \in DOMAIN f : i \in DOMAIN g /\ (i \in EndsIn(g, q) <=> i \in EndsIn(f, q))
  BY <1>1 DEF EndsIn
<1>d. \A j \in DOMAIN items : Len(f) + j \in DOMAIN g
  BY <1>1
<1>5. \A j \in DOMAIN items : Len(f) + j \in EndsIn(g, q) <=> fact \in Final /\ items[j] = q
  BY <1>1, <1>d DEF EndsIn
<1>6. EndsIn(f, q) \subseteq DOMAIN f /\ EndsIn(g, q) \subseteq DOMAIN g
  BY DEF EndsIn
<1>7. ASSUME fact \notin Final \/ ~Contains(items, q) PROVE EndsIn(g, q) = EndsIn(f, q)
  <2>1. \A j \in DOMAIN items : Len(f) + j \notin EndsIn(g, q)
    BY <1>7, <1>5, <1>1 DEF Contains
  <2> QED BY <2>1, <1>1, <1>4, <1>6
<1>8. ASSUME fact \in Final, Contains(items, q), EndsIn(f, q) = {} PROVE \E i \in EndsIn(g, q) : EndsIn(g, q) = {i}
  <2>1. PICK k \in DOMAIN items : items[k] = q
    BY <1>8, <1>1 DEF Contains
  <2>2. \A j \in DOMAIN items : items[j] = q => j = k
    BY <2>1, <1>1 DEF Apart
  <2>3. Len(f) + k \in EndsIn(g, q)
    BY <2>1, <1>8, <1>5
  <2>4. ASSUME NEW i \in EndsIn(g, q) PROVE i = Len(f) + k
    <3>1. i \in DOMAIN g /\ i \notin DOMAIN f
      BY <1>4, <1>6, <1>8
    <3>2. PICK j \in DOMAIN items : i = Len(f) + j
      BY <3>1, <1>1
    <3> QED BY <3>2, <2>2, <1>5
  <2>5. EndsIn(g, q) = {Len(f) + k}
    BY <2>3, <2>4
  <2> QED BY <2>3, <2>5
<1> QED BY <1>7, <1>8 DEF EndsMoved

\* The order of sends after more facts of another kind.
SendsFrom(g, f, fact, items) ==
    \A i \in DOMAIN g : g[i].fact = "Sending" =>
                 \/ i \in DOMAIN f /\ g[i] = f[i]
                 \/ fact = "Sending" /\ \E j \in DOMAIN items : g[i].seq = items[j]

LEMMA OrderAfter ==
    ASSUME NEW f, NEW items, NEW fact, NEW m, NEW g, More(g, f, fact, items),
           FactsBelow(f, m), Below(items, m), SendsOrdered(f),
           fact = "Sending" => Rising(items) /\ SentBefore(f, items)
    PROVE  g \in Seq(SessionFact) /\ FactsBelow(g, m) /\ SendsOrdered(g) /\ SendsFrom(g, f, fact, items)
<1> USE DEF SendsOrdered, SentBefore, FactsBelow, Below, SendsFrom
<1>1. /\ g \in Seq(SessionFact) /\ Len(f) \in Nat /\ Len(items) \in Nat
      /\ DOMAIN g = 1 .. Len(f) + Len(items) /\ DOMAIN f = 1 .. Len(f) /\ DOMAIN items = 1 .. Len(items)
      /\ \A i \in DOMAIN f : g[i] = f[i] /\ f[i].seq \in Nat
      /\ \A i \in DOMAIN items : g[Len(f) + i].fact = fact /\ g[Len(f) + i].seq = items[i] /\ items[i] \in Nat
      /\ \A i \in DOMAIN g : i \in DOMAIN f \/ \E j \in DOMAIN items : i = Len(f) + j
  BY DEF More
<1>3. \A i \in DOMAIN g : \/ i \in DOMAIN f /\ g[i] = f[i]
                          \/ \E j \in DOMAIN items : i = Len(f) + j /\ g[i].fact = fact /\ g[i].seq = items[j]
  BY <1>1
<1>6. \A i \in DOMAIN g : g[i].seq < m
  <2> TAKE i \in DOMAIN g
  <2>1. CASE i \in DOMAIN f /\ g[i] = f[i]
    BY <2>1, <1>1
  <2>2. CASE \E j \in DOMAIN items : g[i].seq = items[j]
    BY <2>2
  <2> QED BY <2>1, <2>2, <1>3
<1>7. ASSUME NEW i \in DOMAIN g, NEW j \in DOMAIN g, i < j, g[i].fact = "Sending", g[j].fact = "Sending"
      PROVE  g[i].seq < g[j].seq
  <2>1. CASE j \in DOMAIN f /\ g[j] = f[j]
    BY <2>1, <1>7, <1>3, <1>1
  <2>2. CASE \E k \in DOMAIN items : j = Len(f) + k /\ g[j].fact = fact /\ g[j].seq = items[k]
    <3>1. PICK k \in DOMAIN items : j = Len(f) + k /\ g[j].fact = fact /\ g[j].seq = items[k]
      BY <2>2
    <3>2. CASE i \in DOMAIN f /\ g[i] = f[i]
      BY <3>1, <3>2, <1>7
    <3>3. CASE \E h \in DOMAIN items : i = Len(f) + h /\ g[i].fact = fact /\ g[i].seq = items[h]
      BY <3>1, <3>3, <1>7, <1>1 DEF Rising
    <3> QED BY <3>2, <3>3, <1>3
  <2> QED BY <2>1, <2>2, <1>3
<1> QED BY <1>1, <1>3, <1>6, <1>7

\* What a step may do to the messages: some leave the pending or live ones and get a final fact, ...
LEMMA LiveEnd ==
    ASSUME NEW p \in Seq(Nat), NEW l \in Seq(Nat), NEW n \in Nat, NEW f \in Seq(SessionFact), NEW fact \in Final,
           Accounted(p, l, n, f), NEW g, g = f \o Told(fact, l)
    PROVE  g \in Seq(SessionFact) /\ Accounted(p, <<>>, n, g)
<1>f. fact \in FactKinds /\ fact # "Sending"
  BY DEF Final, FactKinds
<1>m. More(g, f, fact, l)
  BY <1>f, FactsAfter
<1>1. Apart(l) /\ Below(l, n)
  BY DEF Accounted
<1>2. g \in Seq(SessionFact) /\ FactsBelow(g, n) /\ SendsOrdered(g)
         /\ SendsFrom(g, f, fact, l)
  <2>1. FactsBelow(f, n) /\ SendsOrdered(f)
    BY DEF Accounted
  <2> QED BY <2>1, <1>m, <1>f, <1>1, OrderAfter
<1>3. ASSUME NEW q \in 0 .. n - 1
      PROVE  OnceEnded(p, <<>>, g, q)
  <2>1. /\ ~Contains(l, q) => EndsIn(g, q) = EndsIn(f, q)
        /\ Contains(l, q) /\ EndsIn(f, q) = {} => \E i \in EndsIn(g, q) : EndsIn(g, q) = {i}
    <3>1. EndsMoved(g, f, fact, l, q)
      BY <1>m, <1>1, EndsAfter
    <3> QED BY <3>1, <1>f DEF EndsMoved
  <2>2. OnceEnded(p, l, f, q)
    BY DEF Accounted
  <2>3. Contains(p, q) => ~Contains(l, q)
    BY DEF Accounted, Contains
  <2>4. ~Contains(<<>>, q)
    BY DEF Contains
  <2> QED BY <2>1, <2>2, <2>3, <2>4 DEF OnceEnded
<1>4. SentBefore(g, p)
  BY <1>2, <1>f DEF Accounted, SendsFrom, SentBefore
<1>5. DOMAIN <<>> = {}
  OBVIOUS
<1> QED BY <1>2, <1>3, <1>4, <1>5 DEF Accounted, Apart, Below

LEMMA PendingEnd ==
    ASSUME NEW p \in Seq(Nat), NEW l \in Seq(Nat), NEW n \in Nat, NEW f \in Seq(SessionFact), NEW fact \in Final,
           Accounted(p, l, n, f), NEW g, g = f \o Told(fact, p)
    PROVE  g \in Seq(SessionFact) /\ Accounted(<<>>, l, n, g)
<1>f. fact \in FactKinds /\ fact # "Sending"
  BY DEF Final, FactKinds
<1>m. More(g, f, fact, p)
  BY <1>f, FactsAfter
<1>1. Apart(p) /\ Below(p, n)
  <2>1. \A i \in DOMAIN p : p[i] \in Nat /\ i \in Int
    OBVIOUS
  <2>2. Rising(p) /\ Below(p, n)
    BY DEF Accounted
  <2>3. ASSUME NEW i \in DOMAIN p, NEW j \in DOMAIN p, p[i] = p[j] PROVE i = j
    <3>1. i < j \/ j < i \/ i = j
      BY <2>1
    <3> QED BY <3>1, <2>1, <2>2, <2>3 DEF Rising
  <2> QED BY <2>2, <2>3 DEF Apart
<1>2. g \in Seq(SessionFact) /\ FactsBelow(g, n) /\ SendsOrdered(g)
  <2>1. FactsBelow(f, n) /\ SendsOrdered(f)
    BY DEF Accounted
  <2> QED BY <2>1, <1>m, <1>f, <1>1, OrderAfter
<1>3. ASSUME NEW q \in 0 .. n - 1
      PROVE  OnceEnded(<<>>, l, g, q)
  <2>1. /\ ~Contains(p, q) => EndsIn(g, q) = EndsIn(f, q)
        /\ Contains(p, q) /\ EndsIn(f, q) = {} => \E i \in EndsIn(g, q) : EndsIn(g, q) = {i}
    <3>1. EndsMoved(g, f, fact, p, q)
      BY <1>m, <1>1, EndsAfter
    <3> QED BY <3>1, <1>f DEF EndsMoved
  <2>2. OnceEnded(p, l, f, q)
    BY DEF Accounted
  <2>3. Contains(p, q) => ~Contains(l, q)
    BY DEF Accounted, Contains
  <2>4. ~Contains(<<>>, q)
    BY DEF Contains
  <2> QED BY <2>1, <2>2, <2>3, <2>4 DEF OnceEnded
<1>5. DOMAIN <<>> = {}
  OBVIOUS
<1> QED BY <1>2, <1>3, <1>5 DEF Accounted, Rising, Below, SentBefore

\* ... the pending ones go out, ...
LEMMA PendingSent ==
    ASSUME NEW p \in Seq(Nat), NEW l \in Seq(Nat), NEW n \in Nat, NEW f \in Seq(SessionFact),
           Accounted(p, l, n, f), NEW g, g = f \o Told("Sending", p)
    PROVE  g \in Seq(SessionFact) /\ l \o p \in Seq(Nat) /\ Accounted(<<>>, l \o p, n, g)
<1>0. \A i \in DOMAIN p : p[i] \in Nat /\ i \in Int
  OBVIOUS
<1>r. Rising(p) /\ Below(p, n) /\ Below(l, n)
  BY DEF Accounted
<1>m. More(g, f, "Sending", p)
  <2>1. "Sending" \in FactKinds
    BY DEF FactKinds
  <2> QED BY <2>1, FactsAfter
<1>1. Apart(p)
  <2>3. ASSUME NEW i \in DOMAIN p, NEW j \in DOMAIN p, p[i] = p[j] PROVE i = j
    <3>1. i < j \/ j < i \/ i = j
      BY <1>0
    <3> QED BY <3>1, <1>0, <1>r, <2>3 DEF Rising
  <2> QED BY <2>3 DEF Apart
<1>2. g \in Seq(SessionFact) /\ FactsBelow(g, n) /\ SendsOrdered(g)
  <2>1. SentBefore(f, p) /\ FactsBelow(f, n) /\ SendsOrdered(f)
    BY DEF Accounted
  <2> QED BY <1>m, <1>r, <2>1, OrderAfter
<1> PICK m : m = l \o p
  OBVIOUS
<1>3. /\ m \in Seq(Nat) /\ Len(l) \in Nat /\ Len(p) \in Nat
      /\ DOMAIN m = 1 .. Len(l) + Len(p) /\ DOMAIN l = 1 .. Len(l) /\ DOMAIN p = 1 .. Len(p)
      /\ \A i \in DOMAIN l : m[i] = l[i]
      /\ \A i \in DOMAIN p : m[Len(l) + i] = p[i]
      /\ \A i \in DOMAIN m : i \in DOMAIN l \/ \E j \in DOMAIN p : i = Len(l) + j
  <2>1. Joined(m, l, p)
    BY JoinIs
  <2> QED BY <2>1 DEF Joined
<1>4. Below(m, n)
  BY <1>3, <1>r DEF Below
<1>5. ASSUME NEW i \in DOMAIN m, NEW j \in DOMAIN m, m[i] = m[j] PROVE i = j
  <2>1. \A a \in DOMAIN p, b \in DOMAIN l : p[a] # l[b]
    BY DEF Accounted
  <2>2. Apart(l)
    BY DEF Accounted
  <2>3. CASE i \in DOMAIN l /\ j \in DOMAIN l
    BY <2>3, <2>2, <1>3, <1>5 DEF Apart
  <2>4. CASE i \notin DOMAIN l /\ j \notin DOMAIN l
    <3>1. PICK a \in DOMAIN p : i = Len(l) + a
      BY <2>4, <1>3
    <3>2. PICK b \in DOMAIN p : j = Len(l) + b
      BY <2>4, <1>3
    <3> QED BY SMTT(30), <3>1, <3>2, <1>1, <1>3, <1>5 DEF Apart
  <2>5. CASE i \in DOMAIN l /\ j \notin DOMAIN l
    BY SMTT(30), <2>5, <2>1, <1>3, <1>5
  <2>6. CASE i \notin DOMAIN l /\ j \in DOMAIN l
    BY SMTT(30), <2>6, <2>1, <1>3, <1>5
  <2> QED BY <2>3, <2>4, <2>5, <2>6
<1>6. ASSUME NEW q \in 0 .. n - 1
      PROVE  OnceEnded(<<>>, m, g, q)
  <2>1. EndsIn(g, q) = EndsIn(f, q)
    <3>1. "Sending" \notin Final
      BY DEF Final
    <3>2. EndsMoved(g, f, "Sending", p, q)
      BY <1>m, <1>1, EndsAfter
    <3> QED BY <3>1, <3>2 DEF EndsMoved
  <2>2. OnceEnded(p, l, f, q)
    BY DEF Accounted
  <2>3. Contains(m, q) <=> Contains(p, q) \/ Contains(l, q)
    <3>1. Len(m) = Len(l) + Len(p)
      BY <1>3
    <3>2. (\A i \in DOMAIN l : i \in DOMAIN m) /\ (\A i \in DOMAIN p : Len(l) + i \in DOMAIN m)
      BY <1>3
    <3>3. Contains(m, q) => Contains(p, q) \/ Contains(l, q)
      <4> SUFFICES ASSUME NEW i \in DOMAIN m, m[i] = q PROVE Contains(p, q) \/ Contains(l, q)
        BY <3>1, <1>3 DEF Contains
      <4>1. CASE i \in DOMAIN l
        BY <4>1, <1>3 DEF Contains
      <4>2. CASE \E j \in DOMAIN p : i = Len(l) + j
        BY <4>2, <1>3 DEF Contains
      <4> QED BY <4>1, <4>2, <1>3
    <3>4. Contains(l, q) => Contains(m, q)
      BY <3>1, <3>2, <1>3 DEF Contains
    <3>5. ASSUME Contains(p, q) PROVE Contains(m, q)
      <4>1. PICK i \in DOMAIN p : p[i] = q
        BY <3>5, <1>3 DEF Contains
      <4>2. Len(l) + i \in 1 .. Len(m) /\ m[Len(l) + i] = q
        BY <4>1, <3>1, <3>2, <1>3
      <4> QED BY <4>2 DEF Contains
    <3> QED BY <3>3, <3>4, <3>5
  <2>4. ~Contains(<<>>, q)
    BY DEF Contains
  <2> QED BY <2>1, <2>2, <2>3, <2>4 DEF OnceEnded
<1>7. DOMAIN <<>> = {}
  OBVIOUS
<1> QED BY <1>2, <1>3, <1>4, <1>5, <1>6, <1>7 DEF Accounted, Rising, Apart, Below, SentBefore

\* ... a new one is refused, queued or sent, ...
FactNew(g, f, p, l, n, fact) ==
    /\ g \in Seq(SessionFact) /\ FactsBelow(g, n + 1) /\ SendsOrdered(g) /\ SendsFrom(g, f, fact, <<n>>)
    /\ \A q \in 0 .. n - 1 : EndsIn(g, q) = EndsIn(f, q)
    /\ fact \notin Final => EndsIn(g, n) = {}
    /\ fact \in Final => \E i \in EndsIn(g, n) : EndsIn(g, n) = {i}
    /\ Below(p, n + 1) /\ Below(l, n + 1) /\ ~Contains(p, n) /\ ~Contains(l, n)
    /\ fact # "Sending" => SentBefore(g, p)

LEMMA NewFact ==
    ASSUME NEW p \in Seq(Nat), NEW l \in Seq(Nat), NEW n \in Nat, NEW f \in Seq(SessionFact), NEW fact \in FactKinds,
           Accounted(p, l, n, f), NEW g, g = f \o Told(fact, <<n>>),
           fact = "Sending" => p = <<>>
    PROVE  FactNew(g, f, p, l, n, fact)
<1> PICK items : items = <<n>>
  OBVIOUS
<1>i. items \in Seq(Nat) /\ Len(items) = 1 /\ DOMAIN items = {1} /\ items[1] = n
  OBVIOUS
<1>m. More(g, f, fact, items)
  BY <1>i, FactsAfter
<1>1. Apart(items) /\ Below(items, n + 1) /\ Rising(items)
  BY <1>i DEF Apart, Below, Rising
<1>2. \A i \in DOMAIN f : f[i].seq \in Nat
  BY <1>m DEF More
<1>3. FactsBelow(f, n) /\ SendsOrdered(f) /\ Below(p, n) /\ Below(l, n) /\ SentBefore(f, p)
  BY DEF Accounted
<1>4. FactsBelow(f, n + 1) /\ SentBefore(f, items)
  BY <1>2, <1>3, <1>i DEF FactsBelow, SentBefore
<1>5. g \in Seq(SessionFact) /\ FactsBelow(g, n + 1) /\ SendsOrdered(g) /\ SendsFrom(g, f, fact, items)
  BY <1>m, <1>1, <1>3, <1>4, OrderAfter
<1>6. (\A i \in DOMAIN p : p[i] \in Nat) /\ (\A i \in DOMAIN l : l[i] \in Nat)
  OBVIOUS
<1>7. Below(p, n + 1) /\ Below(l, n + 1) /\ ~Contains(p, n) /\ ~Contains(l, n)
  BY <1>3, <1>6 DEF Below, Contains
<1>8. \A q \in Nat : Contains(items, q) <=> q = n
  BY <1>i DEF Contains
<1>9. ASSUME NEW q \in 0 .. n - 1 PROVE EndsIn(g, q) = EndsIn(f, q)
  <2>1. q \in Nat /\ q # n
    OBVIOUS
  <2>2. EndsMoved(g, f, fact, items, q)
    BY <1>m, <1>1, EndsAfter
  <2> QED BY <2>1, <2>2, <1>8 DEF EndsMoved
<1>10. EndsIn(f, n) = {}
  BY <1>2, <1>3 DEF EndsIn, FactsBelow
<1>11. (fact \notin Final => EndsIn(g, n) = {}) /\ (fact \in Final => \E i \in EndsIn(g, n) : EndsIn(g, n) = {i})
  <2>2. EndsMoved(g, f, fact, items, n)
    BY <1>m, <1>1, EndsAfter
  <2> QED BY <2>2, <1>8, <1>10 DEF EndsMoved
<1>12. fact # "Sending" => SentBefore(g, p)
  BY <1>5, <1>3 DEF SendsFrom, SentBefore
<1> QED BY <1>5, <1>7, <1>9, <1>11, <1>12 DEF FactNew

LEMMA NewRefused ==
    ASSUME NEW p \in Seq(Nat), NEW l \in Seq(Nat), NEW n \in Nat, NEW f \in Seq(SessionFact),
           Accounted(p, l, n, f), NEW g, g = f \o Told("Rejected", <<n>>)
    PROVE  g \in Seq(SessionFact) /\ Accounted(p, l, n + 1, g)
<1>f. "Rejected" \in FactKinds /\ "Rejected" \in Final
  BY DEF FactKinds, Final
<1>1. /\ g \in Seq(SessionFact) /\ FactsBelow(g, n + 1) /\ SendsOrdered(g)
      /\ \A q \in 0 .. n - 1 : EndsIn(g, q) = EndsIn(f, q)
      /\ \E i \in EndsIn(g, n) : EndsIn(g, n) = {i}
      /\ Below(p, n + 1) /\ Below(l, n + 1) /\ ~Contains(p, n) /\ ~Contains(l, n)
      /\ SentBefore(g, p)
  <2>1. FactNew(g, f, p, l, n, "Rejected")
    BY <1>f, NewFact
  <2> QED BY <2>1, <1>f DEF FactNew
<1>2. ASSUME NEW q \in 0 .. n PROVE OnceEnded(p, l, g, q)
  <2>1. CASE q = n
    BY <2>1, <1>1 DEF OnceEnded
  <2>2. CASE q \in 0 .. n - 1
    <3>1. OnceEnded(p, l, f, q)
      BY <2>2 DEF Accounted
    <3> QED BY <3>1, <2>2, <1>1 DEF OnceEnded
  <2> QED BY <2>1, <2>2
<1>3. (n + 1) - 1 = n
  OBVIOUS
<1>4. Rising(p) /\ Apart(l) /\ \A i \in DOMAIN p, j \in DOMAIN l : p[i] # l[j]
  BY DEF Accounted
<1> QED BY <1>1, <1>2, <1>3, <1>4 DEF Accounted

LEMMA NewQueued ==
    ASSUME NEW p \in Seq(Nat), NEW l \in Seq(Nat), NEW n \in Nat, NEW f \in Seq(SessionFact),
           Accounted(p, l, n, f), NEW g, g = f \o Told("Queued", <<n>>)
    PROVE  g \in Seq(SessionFact) /\ Append(p, n) \in Seq(Nat) /\ Accounted(Append(p, n), l, n + 1, g)
<1>f. "Queued" \in FactKinds /\ "Queued" \notin Final
  BY DEF FactKinds, Final
<1>1. /\ g \in Seq(SessionFact) /\ FactsBelow(g, n + 1) /\ SendsOrdered(g) /\ SendsFrom(g, f, "Queued", <<n>>)
      /\ \A q \in 0 .. n - 1 : EndsIn(g, q) = EndsIn(f, q)
      /\ EndsIn(g, n) = {}
      /\ Below(p, n + 1) /\ Below(l, n + 1) /\ ~Contains(p, n) /\ ~Contains(l, n)
      /\ SentBefore(g, p)
  <2>1. FactNew(g, f, p, l, n, "Queued")
    BY <1>f, NewFact
  <2> QED BY <2>1, <1>f DEF FactNew
<1>o. Below(p, n) /\ Below(l, n) /\ FactsBelow(f, n) /\ Rising(p) /\ Apart(l)
        /\ \A i \in DOMAIN p, j \in DOMAIN l : p[i] # l[j]
  BY DEF Accounted
<1> PICK m : m = Append(p, n)
  OBVIOUS
<1>2. /\ m \in Seq(Nat) /\ Len(p) \in Nat /\ DOMAIN m = 1 .. Len(p) + 1 /\ DOMAIN p = 1 .. Len(p)
      /\ Len(m) = Len(p) + 1
      /\ m[Len(p) + 1] = n /\ \A i \in DOMAIN p : m[i] = p[i] /\ p[i] \in Nat
  OBVIOUS
<1>3. \A i \in DOMAIN m : i = Len(p) + 1 \/ i \in DOMAIN p
  BY <1>2
<1>4. Below(m, n + 1)
  BY <1>2, <1>3, <1>1 DEF Below
<1>5. Rising(m)
  <2> SUFFICES ASSUME NEW i \in DOMAIN m, NEW j \in DOMAIN m, i < j PROVE m[i] < m[j]
    BY DEF Rising
  <2>1. i \in DOMAIN p
    BY <1>2
  <2> QED BY <2>1, <1>2, <1>3, <1>o DEF Rising, Below
<1>6. \A i \in DOMAIN m, j \in DOMAIN l : m[i] # l[j]
  <2>1. \A j \in DOMAIN l : l[j] # n
    BY <1>1 DEF Contains
  <2> QED BY <2>1, <1>2, <1>3, <1>o
<1>7. ASSUME NEW q \in 0 .. n PROVE OnceEnded(m, l, g, q)
  <2>1. CASE q = n
    <3>1. Contains(m, q)
      <4>1. Len(p) + 1 \in 1 .. Len(m) /\ m[Len(p) + 1] = q
        BY <2>1, <1>2
      <4> QED BY <4>1 DEF Contains
    <3> QED BY <3>1, <2>1, <1>1 DEF OnceEnded
  <2>2. CASE q \in 0 .. n - 1
    <3>1. OnceEnded(p, l, f, q)
      BY <2>2 DEF Accounted
    <3>2. Contains(m, q) <=> Contains(p, q)
      <4>1. Contains(m, q) => Contains(p, q)
        <5> SUFFICES ASSUME NEW i \in DOMAIN m, m[i] = q PROVE Contains(p, q)
          BY <1>2 DEF Contains
        <5>1. i \in DOMAIN p
          BY <2>2, <1>2, <1>3
        <5> QED BY <5>1, <1>2 DEF Contains
      <4>2. Contains(p, q) => Contains(m, q)
        BY <2>2, <1>2, <1>3 DEF Contains
      <4> QED BY <4>1, <4>2
    <3> QED BY <3>1, <3>2, <2>2, <1>1 DEF OnceEnded
  <2> QED BY <2>1, <2>2
<1>8. SentBefore(g, m)
  <2> SUFFICES ASSUME NEW i \in DOMAIN g, NEW j \in DOMAIN m, g[i].fact = "Sending" PROVE g[i].seq < m[j]
    BY DEF SentBefore
  <2>1. CASE j \in DOMAIN p
    BY <2>1, <1>1, <1>2 DEF SentBefore
  <2>2. CASE j = Len(p) + 1
    <3>1. i \in DOMAIN f /\ g[i] = f[i]
      BY <1>1 DEF SendsFrom
    <3> QED BY <3>1, <2>2, <1>2, <1>o DEF FactsBelow
  <2> QED BY <2>1, <2>2, <1>3
<1>9. (n + 1) - 1 = n
  OBVIOUS
<1> QED BY <1>1, <1>2, <1>4, <1>5, <1>6, <1>7, <1>8, <1>9, <1>o DEF Accounted

LEMMA NewSent ==
    ASSUME NEW l \in Seq(Nat), NEW n \in Nat, NEW f \in Seq(SessionFact),
           Accounted(<<>>, l, n, f), NEW g, g = f \o Told("Sending", <<n>>)
    PROVE  g \in Seq(SessionFact) /\ l \o <<n>> \in Seq(Nat) /\ Accounted(<<>>, l \o <<n>>, n + 1, g)
<1>f. "Sending" \in FactKinds /\ "Sending" \notin Final
  BY DEF FactKinds, Final
<1> PICK p : p = <<>>
  OBVIOUS
<1>p. p \in Seq(Nat) /\ DOMAIN p = {} /\ \A q : ~Contains(p, q)
  BY DEF Contains
<1>1. /\ g \in Seq(SessionFact) /\ FactsBelow(g, n + 1) /\ SendsOrdered(g)
      /\ \A q \in 0 .. n - 1 : EndsIn(g, q) = EndsIn(f, q)
      /\ EndsIn(g, n) = {}
      /\ Below(l, n + 1) /\ ~Contains(l, n)
  <2>1. FactNew(g, f, p, l, n, "Sending")
    BY <1>f, <1>p, NewFact
  <2> QED BY <2>1, <1>f DEF FactNew
<1>o. Apart(l)
  BY DEF Accounted
<1> PICK m : m = l \o <<n>>
  OBVIOUS
<1>2. /\ m \in Seq(Nat) /\ Len(l) \in Nat /\ DOMAIN m = 1 .. Len(l) + 1 /\ DOMAIN l = 1 .. Len(l)
      /\ Len(m) = Len(l) + 1
      /\ m[Len(l) + 1] = n /\ \A i \in DOMAIN l : m[i] = l[i] /\ l[i] \in Nat
  OBVIOUS
<1>3. \A i \in DOMAIN m : i = Len(l) + 1 \/ i \in DOMAIN l
  BY <1>2
<1>4. Below(m, n + 1)
  BY <1>2, <1>3, <1>1 DEF Below
<1>5. \A j \in DOMAIN l : l[j] # n
  BY <1>1, <1>2 DEF Contains
<1>6. Apart(m)
  BY <1>2, <1>3, <1>5, <1>o DEF Apart
<1>7. ASSUME NEW q \in 0 .. n PROVE OnceEnded(p, m, g, q)
  <2>1. CASE q = n
    <3>1. Contains(m, q)
      <4>1. Len(l) + 1 \in 1 .. Len(m) /\ m[Len(l) + 1] = q
        BY <2>1, <1>2
      <4> QED BY <4>1 DEF Contains
    <3> QED BY <3>1, <2>1, <1>1 DEF OnceEnded
  <2>2. CASE q \in 0 .. n - 1
    <3>1. OnceEnded(p, l, f, q)
      BY <2>2 DEF Accounted
    <3>2. Contains(m, q) <=> Contains(l, q)
      <4>1. Contains(m, q) => Contains(l, q)
        BY <2>2, <1>2, <1>3 DEF Contains
      <4>2. Contains(l, q) => Contains(m, q)
        BY <2>2, <1>2, <1>3 DEF Contains
      <4> QED BY <4>1, <4>2
    <3> QED BY <3>1, <3>2, <2>2, <1>1 DEF OnceEnded
  <2> QED BY <2>1, <2>2
<1>8. SentBefore(g, p) /\ Below(p, n + 1) /\ Rising(p) /\ \A i \in DOMAIN p, j \in DOMAIN m : p[i] # m[j]
  BY <1>p DEF SentBefore, Below, Rising
<1>9. (n + 1) - 1 = n
  OBVIOUS
<1> QED BY <1>1, <1>2, <1>4, <1>6, <1>7, <1>8, <1>9 DEF Accounted

\* ... or a live one is answered.
LEMMA RemovedIs ==
    ASSUME NEW l \in Seq(Nat), NEW q \in Nat, Apart(l), Contains(l, q), NEW m, m = Removed(l, q)
    PROVE  /\ m \in Seq(Nat) /\ Apart(m)
           /\ \A x : Contains(m, x) <=> Contains(l, x) /\ x # q
<1>0. Len(l) \in Nat /\ DOMAIN l = 1 .. Len(l) /\ \A i \in DOMAIN l : l[i] \in Nat
  OBVIOUS
<1>1. PICK k : k = CHOOSE i \in DOMAIN l : l[i] = q
  OBVIOUS
<1>2. k \in DOMAIN l /\ l[k] = q
  <2>1. \E i \in DOMAIN l : l[i] = q
    BY <1>0 DEF Contains
  <2> QED BY <1>1, <2>1
<1>3. m = [i \in 1 .. Len(l) - 1 |-> l[IF i < k THEN i ELSE i + 1]]
  BY <1>1 DEF Removed
<1>4. \A i \in 1 .. Len(l) - 1 : (IF i < k THEN i ELSE i + 1) \in DOMAIN l \ {k}
  BY <1>0, <1>2
<1>5. Len(l) - 1 \in Nat
  BY <1>0, <1>2
<1>6. m \in Seq(Nat) /\ Len(m) = Len(l) - 1 /\ DOMAIN m = 1 .. Len(l) - 1
  BY <1>0, <1>3, <1>4, <1>5
<1>7. \A i \in DOMAIN m : m[i] = l[IF i < k THEN i ELSE i + 1]
  BY <1>3, <1>6
<1>8. Apart(m)
  <2> SUFFICES ASSUME NEW i \in DOMAIN m, NEW j \in DOMAIN m, m[i] = m[j] PROVE i = j
    BY DEF Apart
  <2>1. (IF i < k THEN i ELSE i + 1) = (IF j < k THEN j ELSE j + 1)
    BY ZenonT(30), <1>4, <1>6, <1>7 DEF Apart
  <2>2. i \in Int /\ j \in Int /\ k \in Int
    BY <1>6, <1>0, <1>2
  <2> QED BY <2>1, <2>2
<1>9. \A x : (Contains(m, x) <=> \E i \in DOMAIN m : m[i] = x) /\ (Contains(l, x) <=> \E i \in DOMAIN l : l[i] = x)
  BY <1>0, <1>6 DEF Contains
<1>10. ASSUME NEW x, Contains(m, x) PROVE Contains(l, x) /\ x # q
  <2>1. PICK i \in DOMAIN m : m[i] = x
    BY <1>10, <1>9
  <2>2. PICK j \in DOMAIN l \ {k} : l[j] = x
    BY <2>1, <1>4, <1>6, <1>7
  <2>3. x # q
    BY <2>2, <1>2 DEF Apart
  <2> QED BY <2>2, <2>3, <1>9
<1>11. ASSUME NEW x, Contains(l, x), x # q PROVE Contains(m, x)
  <2>1. PICK i \in DOMAIN l : l[i] = x
    BY <1>11, <1>9
  <2>2. i # k
    BY <2>1, <1>2, <1>11
  <2>3. CASE i < k
    <3>1. i \in DOMAIN m /\ m[i] = x
      BY <2>1, <2>3, <1>0, <1>2, <1>6, <1>7
    <3> QED BY <3>1, <1>9
  <2>4. CASE i > k
    <3>1. i - 1 \in DOMAIN m /\ ~(i - 1 < k) /\ (i - 1) + 1 = i
      <4>1. i \in Int /\ k \in Int /\ i <= Len(l) /\ k >= 1
        BY <2>1, <1>0, <1>2
      <4>2. i - 1 \in 1 .. Len(l) - 1
        BY <4>1, <2>4, <1>0
      <4> QED BY SMTT(30), <4>1, <4>2, <2>4, <1>6
    <3>2. m[i - 1] = x
      BY <3>1, <2>1, <1>7
    <3> QED BY <3>1, <3>2, <1>9
  <2> QED BY <2>2, <2>3, <2>4, <1>0, <1>2
<1> QED BY <1>6, <1>8, <1>10, <1>11

LEMMA RemovedTyped ==
    ASSUME NEW l \in Seq(Nat), NEW q \in Nat, Contains(l, q)
    PROVE  Removed(l, q) \in Seq(Nat)
<1>0. Len(l) \in Nat /\ DOMAIN l = 1 .. Len(l) /\ \A i \in DOMAIN l : l[i] \in Nat
  OBVIOUS
<1>1. PICK k : k = CHOOSE i \in DOMAIN l : l[i] = q
  OBVIOUS
<1>2. k \in DOMAIN l
  <2>1. \E i \in DOMAIN l : l[i] = q
    BY <1>0 DEF Contains
  <2> QED BY <1>1, <2>1
<1>3. Removed(l, q) = [i \in 1 .. Len(l) - 1 |-> l[IF i < k THEN i ELSE i + 1]]
  BY <1>1 DEF Removed
<1>4. \A i \in 1 .. Len(l) - 1 : l[IF i < k THEN i ELSE i + 1] \in Nat
  BY <1>0, <1>2
<1>5. Len(l) - 1 \in Nat
  BY <1>0, <1>2
<1> QED BY <1>3, <1>4, <1>5

LEMMA LiveAnswered ==
    ASSUME NEW p \in Seq(Nat), NEW l \in Seq(Nat), NEW n \in Nat, NEW f \in Seq(SessionFact), NEW fact \in Final,
           Accounted(p, l, n, f), NEW a \in Nat, Contains(l, a), NEW g, g = f \o Told(fact, <<a>>)
    PROVE  g \in Seq(SessionFact) /\ Removed(l, a) \in Seq(Nat) /\ Accounted(p, Removed(l, a), n, g)
<1>f. fact \in FactKinds /\ fact # "Sending"
  BY DEF Final, FactKinds
<1>o. Below(p, n) /\ Below(l, n) /\ FactsBelow(f, n) /\ Rising(p) /\ Apart(l) /\ SendsOrdered(f) /\ SentBefore(f, p)
        /\ \A i \in DOMAIN p, j \in DOMAIN l : p[i] # l[j]
  BY DEF Accounted
<1> PICK items : items = <<a>>
  OBVIOUS
<1>i. items \in Seq(Nat) /\ Len(items) = 1 /\ DOMAIN items = {1} /\ items[1] = a
  OBVIOUS
<1>m. More(g, f, fact, items)
  BY <1>f, <1>i, FactsAfter
<1>a. a < n
  BY <1>o DEF Contains, Below
<1>1. Apart(items) /\ Below(items, n)
  BY <1>i, <1>a DEF Apart, Below
<1>2. g \in Seq(SessionFact) /\ FactsBelow(g, n) /\ SendsOrdered(g) /\ SendsFrom(g, f, fact, items)
  BY <1>m, <1>f, <1>1, <1>o, OrderAfter
<1>3. SentBefore(g, p)
  BY <1>2, <1>f, <1>o DEF SendsFrom, SentBefore
<1> PICK r : r = Removed(l, a)
  OBVIOUS
<1>4. r \in Seq(Nat) /\ Apart(r) /\ \A x : Contains(r, x) <=> Contains(l, x) /\ x # a
  BY <1>o, RemovedIs
<1>5. (\A i \in DOMAIN r : Contains(r, r[i])) /\ \A x : Contains(l, x) => \E i \in DOMAIN l : l[i] = x
  BY <1>4 DEF Contains
<1>6. Below(r, n) /\ \A i \in DOMAIN p, j \in DOMAIN r : p[i] # r[j]
  BY <1>4, <1>5, <1>o DEF Below
<1>7. ASSUME NEW q \in 0 .. n - 1 PROVE OnceEnded(p, r, g, q)
  <2>1. EndsMoved(g, f, fact, items, q)
    BY <1>m, <1>1, EndsAfter
  <2>2. Contains(items, q) <=> q = a
    BY <1>i DEF Contains
  <2>3. OnceEnded(p, l, f, q)
    BY DEF Accounted
  <2>4. ~Contains(p, a)
    BY <1>o, <1>5 DEF Contains
  <2> QED BY <2>1, <2>2, <2>3, <2>4, <1>4 DEF OnceEnded, EndsMoved
<1> QED BY <1>2, <1>3, <1>4, <1>6, <1>7, <1>o DEF Accounted

-----------------------------------------------------------------------------
(* The steps of a session, one operator at a time.                         *)

\* A session between two steps, but for what the status node says of it.
Messages(w) == w \in SessionType /\ w.active /\ Accounted(w.pending, w.live, w.next, w.facts)

Kept(w) ==
    /\ Messages(w)
    /\ w.connected => w.pending = <<>>
    /\ w.waiting => ~w.connected /\ w.attempt = 0
    /\ w.waiting <=> w.timer # 0

StatusOK(w) ==
    /\ w.status.state = "Open" => w.connected
    /\ w.status.state = "Connecting" => w.attempt # 0 /\ ~w.connected
    /\ w.status.state = "Waiting" => w.waiting

\* v differs from w in the messages and the status at most.
SameLink(v, w) ==
    /\ v.connected = w.connected /\ v.waiting = w.waiting /\ v.timer = w.timer /\ v.attempt = w.attempt
    /\ v.session = w.session /\ v.conns = w.conns

Events == {"Attempt", "Open", "Closing", "Closed", "Retry", "Error", "Exhausted"}

Closed(w, c) == [w EXCEPT !.connected = FALSE, !.attempt = 0, !.session = NoConnection, !.live = <<>>, !.conns = c]

LEMMA LinkDownTyped ==
    ASSUME NEW w \in SessionType, NEW u, u = [w EXCEPT !.connected = FALSE, !.attempt = 0, !.session = 0]
    PROVE  u \in SessionType
  BY DEF SessionType

LEMMA EmptiedTyped ==
    ASSUME NEW u \in SessionType, NEW c \in Seq(Connection), NEW e \in Seq(Nat), NEW v, v = [u EXCEPT !.live = e, !.conns = c]
    PROVE  v \in SessionType
  BY DEF SessionType

LEMMA ClosedTyped ==
    ASSUME NEW w \in SessionType, NEW c \in Seq(Connection), NEW v, v = Closed(w, c)
    PROVE  v \in SessionType
<1> PICK u : u = [w EXCEPT !.connected = FALSE, !.attempt = 0, !.session = 0]
  OBVIOUS
<1>1. u \in SessionType
  BY LinkDownTyped
<1>2. <<>> \in Seq(Nat)
  OBVIOUS
<1>3. v = [u EXCEPT !.live = <<>>, !.conns = c]
  BY DEF Closed, NoConnection, SessionType
<1> QED BY <1>1, <1>2, <1>3, EmptiedTyped

LEMMA TimersTyped ==
    ASSUME NEW w \in SessionType, NEW v, v = CancelTimers(w)
    PROVE  v \in SessionType
  BY DEF CancelTimers, SessionType

LEMMA StateIs ==
    /\ StateAfter["Attempt"] = "Connecting" /\ StateAfter["Open"] = "Open" /\ StateAfter["Closing"] = "Closing"
    /\ StateAfter["Closed"] = "Closed" /\ StateAfter["Retry"] = "Waiting" /\ StateAfter["Error"] = "Errored"
    /\ StateAfter["Exhausted"] = "Exhausted"
  BY DEF StateAfter

\* v is w with another status.
Notified(v, w, event) ==
    /\ v \in SessionType /\ SameLink(v, w) /\ v.status.state = StateAfter[event] /\ v.active = w.active
    /\ v.pending = w.pending /\ v.live = w.live /\ v.facts = w.facts /\ v.next = w.next

LEMMA NotifyIs ==
    ASSUME NEW w \in SessionType, NEW event \in Events, NEW attempt \in Nat, NEW v, v = Notify(w, event, attempt)
    PROVE  Notified(v, w, event)
<1>1. w \in SessionType
  OBVIOUS
<1> DEFINE st == [state |-> StateAfter[event], attempt |-> IF attempt = 0 THEN w.status.attempt ELSE attempt]
<1>2. v = [w EXCEPT !.status = st]
  BY DEF Notify
<1>3. StateAfter[event] \in StatusKinds
  BY StateIs DEF Events, StatusKinds
<1>4. w.status.attempt \in Nat
  BY <1>1 DEF SessionType
<1>5. st \in [state : StatusKinds, attempt : Nat] /\ st.state = StateAfter[event]
  BY <1>3, <1>4
<1> HIDE DEF st
<1>6. v \in SessionType /\ v.status = st
  BY <1>1, <1>2, <1>5 DEF SessionType
<1>7. SameLink(v, w) /\ v.active = w.active /\ v.pending = w.pending /\ v.live = w.live /\ v.facts = w.facts /\ v.next = w.next
  BY <1>1, <1>2 DEF SessionType, SameLink
<1> QED BY <1>5, <1>6, <1>7 DEF Notified

LEMMA NotifyKeeps ==
    ASSUME NEW w, Kept(w), NEW event \in Events, NEW attempt \in Nat, NEW v, v = Notify(w, event, attempt)
    PROVE  Kept(v) /\ Notified(v, w, event)
<1>1. Notified(v, w, event)
  BY NotifyIs DEF Kept, Messages
<1> QED BY <1>1 DEF Kept, Messages, Notified, SameLink

\* v is w with these facts.
Reported(v, w, facts) ==
    /\ v \in SessionType /\ SameLink(v, w) /\ v.facts = facts /\ v.status = w.status
    /\ v.active = w.active /\ v.pending = w.pending /\ v.live = w.live /\ v.next = w.next

LEMMA OutboundIs ==
    ASSUME NEW w \in SessionType, NEW fact, NEW items, NEW v, v = Outbound(w, fact, items),
           w.facts \o Told(fact, items) \in Seq(SessionFact)
    PROVE  Reported(v, w, w.facts \o Told(fact, items))
<1> DEFINE f == w.facts \o Told(fact, items)
<1>1. v = [w EXCEPT !.facts = f]
  BY DEF Outbound, Told
<1>2. f \in Seq(SessionFact)
  OBVIOUS
<1> HIDE DEF f
<1>3. v \in SessionType /\ v.facts = f
  BY <1>1, <1>2 DEF SessionType
<1>4. SameLink(v, w) /\ v.status = w.status /\ v.active = w.active /\ v.pending = w.pending /\ v.live = w.live /\ v.next = w.next
  BY <1>1 DEF SessionType, SameLink
<1>5. Reported(v, w, f)
  BY <1>3, <1>4 DEF Reported
<1> QED BY <1>5 DEF f

LEMMA CloseConnectionIs ==
    ASSUME NEW w \in SessionType, NEW ending \in Phases, NEW v, v = CloseConnection(w, ending)
    PROVE  /\ v \in SessionType /\ ~v.connected /\ v.attempt = 0 /\ v.session = 0 /\ v.live = <<>>
           /\ v.active = w.active /\ v.pending = w.pending /\ v.facts = w.facts /\ v.next = w.next
           /\ v.waiting = w.waiting /\ v.timer = w.timer /\ v.status = w.status
<1> DEFINE conns == IF w.session = NoConnection THEN w.conns ELSE [w.conns EXCEPT ![w.session].phase = ending]
<1>1. v = [w EXCEPT !.connected = FALSE, !.attempt = 0, !.session = NoConnection, !.live = <<>>, !.conns = conns]
  BY DEF CloseConnection
<1>2. w.conns \in Seq(Connection)
  BY DEF SessionType
<1>3. conns \in Seq(Connection)
  <2>1. CASE w.session = NoConnection
    BY <2>1, <1>2
  <2>2. CASE w.session # NoConnection
    <3>1. \A i \in DOMAIN w.conns : w.conns[i] \in Connection
      BY <1>2
    <3>2. \A i \in DOMAIN w.conns : [w.conns[i] EXCEPT !.phase = ending] \in Connection
      BY <3>1 DEF Connection
    <3>3. Len(w.conns) \in Nat /\ DOMAIN w.conns = 1 .. Len(w.conns)
      BY <1>2
    <3>4. conns = [i \in 1 .. Len(w.conns) |-> IF i = w.session THEN [w.conns[i] EXCEPT !.phase = ending] ELSE w.conns[i]]
      BY <2>2, <3>3, <1>2
    <3>5. PICK c : c = conns
      OBVIOUS
    <3> HIDE DEF conns
    <3>6. c = [i \in 1 .. Len(w.conns) |-> IF i = w.session THEN [w.conns[i] EXCEPT !.phase = ending] ELSE w.conns[i]]
      BY <3>4, <3>5
    <3>7. \A i \in 1 .. Len(w.conns) :
              (IF i = w.session THEN [w.conns[i] EXCEPT !.phase = ending] ELSE w.conns[i]) \in Connection
      BY <3>1, <3>2, <3>3
    <3>8. c \in Seq(Connection)
      BY <3>3, <3>6, <3>7
    <3> QED BY <3>5, <3>8
  <2> QED BY <2>1, <2>2
<1>4. <<>> \in Seq(Nat) /\ NoConnection = 0
  BY DEF NoConnection
<1> HIDE DEF conns
<1>5. v \in SessionType
  <2>1. v = Closed(w, conns)
    BY <1>1 DEF Closed
  <2> QED BY <2>1, <1>3, ClosedTyped
<1>6. ~v.connected /\ v.attempt = 0 /\ v.session = 0 /\ v.live = <<>>
  BY <1>1, <1>4 DEF SessionType
<1> QED BY <1>1, <1>5, <1>6 DEF SessionType

\* v is w without its connection.
LinkCut(v, w) == ~v.connected /\ v.attempt = 0 /\ v.waiting = w.waiting /\ v.timer = w.timer

LEMMA CancelLiveKeeps ==
    ASSUME NEW w, Kept(w), NEW ending \in Phases, NEW v, v = CancelLive(w, ending)
    PROVE  Kept(v) /\ LinkCut(v, w)
<1>1. w \in SessionType
  BY DEF Kept, Messages
<1> PICK u : u = CloseConnection(w, ending)
  OBVIOUS
<1>2. /\ u \in SessionType /\ ~u.connected /\ u.attempt = 0 /\ u.session = 0 /\ u.live = <<>>
      /\ u.active = w.active /\ u.pending = w.pending /\ u.facts = w.facts /\ u.next = w.next
      /\ u.waiting = w.waiting /\ u.timer = w.timer /\ u.status = w.status
  BY <1>1, CloseConnectionIs
<1>3. w.pending \in Seq(Nat) /\ w.live \in Seq(Nat) /\ w.next \in Nat /\ w.facts \in Seq(SessionFact)
  BY <1>1 DEF SessionType
<1> PICK g : g = w.facts \o Told("Canceled", w.live)
  OBVIOUS
<1>4. g \in Seq(SessionFact) /\ Accounted(w.pending, <<>>, w.next, g)
  <2>1. "Canceled" \in Final /\ Accounted(w.pending, w.live, w.next, w.facts)
    BY DEF Final, Kept, Messages
  <2> QED BY <2>1, <1>3, LiveEnd
<1>5. v = Outbound(u, "Canceled", w.live) /\ u.facts \o Told("Canceled", w.live) \in Seq(SessionFact)
  BY <1>2, <1>4 DEF CancelLive
<1>6. /\ v \in SessionType /\ SameLink(v, u) /\ v.facts = u.facts \o Told("Canceled", w.live) /\ v.status = u.status
      /\ v.active = u.active /\ v.pending = u.pending /\ v.live = u.live /\ v.next = u.next
  <2>1. Reported(v, u, u.facts \o Told("Canceled", w.live))
    BY <1>2, <1>5, OutboundIs
  <2> QED BY <2>1 DEF Reported
<1>7. v.facts = g
  BY <1>6, <1>2
<1> QED BY <1>2, <1>4, <1>6, <1>7 DEF Kept, Messages, SameLink, LinkCut

\* v is w without pending messages.
DrainedOf(v, w) == Messages(v) /\ SameLink(v, w) /\ v.status = w.status /\ v.pending = <<>>

LEMMA DrainPendingIs ==
    ASSUME NEW w, Messages(w), NEW fact \in Final, NEW v, v = DrainPending(w, fact)
    PROVE  DrainedOf(v, w)
<1>1. w \in SessionType
  BY DEF Messages
<1>2. w.pending \in Seq(Nat) /\ w.live \in Seq(Nat) /\ w.next \in Nat /\ w.facts \in Seq(SessionFact)
  BY <1>1 DEF SessionType
<1> PICK u : u = [w EXCEPT !.pending = <<>>]
  OBVIOUS
<1>3. <<>> \in Seq(Nat)
  OBVIOUS
<1>4. u \in SessionType /\ u.pending = <<>>
  BY <1>1, <1>3 DEF SessionType
<1>5. SameLink(u, w) /\ u.facts = w.facts /\ u.status = w.status /\ u.active = w.active /\ u.live = w.live /\ u.next = w.next
  BY <1>1 DEF SessionType, SameLink
<1> PICK g : g = w.facts \o Told(fact, w.pending)
  OBVIOUS
<1>6. g \in Seq(SessionFact) /\ Accounted(<<>>, w.live, w.next, g)
  <2>1. Accounted(w.pending, w.live, w.next, w.facts)
    BY DEF Messages
  <2> QED BY <2>1, <1>2, PendingEnd
<1>7. v = Outbound(u, fact, w.pending) /\ u.facts \o Told(fact, w.pending) \in Seq(SessionFact)
  BY <1>5, <1>6 DEF DrainPending
<1>8. /\ v \in SessionType /\ SameLink(v, u) /\ v.facts = u.facts \o Told(fact, w.pending) /\ v.status = u.status
      /\ v.active = u.active /\ v.pending = u.pending /\ v.live = u.live /\ v.next = u.next
  <2>1. Reported(v, u, u.facts \o Told(fact, w.pending))
    BY <1>4, <1>7, OutboundIs
  <2> QED BY <2>1 DEF Reported
<1>9. v.facts = g
  BY <1>8, <1>5
<1> QED BY <1>4, <1>5, <1>6, <1>8, <1>9 DEF Messages, SameLink, DrainedOf

LEMMA DrainPendingKeeps ==
    ASSUME NEW w, Kept(w), NEW fact \in Final, NEW v, v = DrainPending(w, fact)
    PROVE  Kept(v) /\ DrainedOf(v, w)
<1>1. DrainedOf(v, w)
  BY DrainPendingIs DEF Kept
<1> QED BY <1>1 DEF Kept, DrainedOf, SameLink

LEMMA ExhaustKeeps ==
    ASSUME NEW w, Kept(w), NEW attempt \in Nat, NEW v, v = Exhaust(w, attempt)
    PROVE  Kept(v) /\ StatusOK(v)
<1>f. "gone" \in Phases /\ "Rejected" \in Final /\ "Exhausted" \in Events
  BY DEF Phases, Final, Events
<1> PICK u : u = CancelLive(w, "gone")
  OBVIOUS
<1>1. Kept(u)
  BY <1>f, CancelLiveKeeps
<1> PICK x : x = DrainPending(u, "Rejected")
  OBVIOUS
<1>2. Kept(x)
  BY <1>f, <1>1, DrainPendingKeeps
<1>3. v = Notify(x, "Exhausted", attempt)
  BY DEF Exhaust
<1>4. Kept(v) /\ v.status.state = "Exhausted"
  BY <1>f, <1>2, <1>3, NotifyKeeps, StateIs DEF Notified
<1> QED BY <1>4 DEF StatusOK

LEMMA CancelTimersKeeps ==
    ASSUME NEW w, Kept(w), NEW v, v = CancelTimers(w)
    PROVE  Kept(v) /\ ~v.waiting /\ v.attempt = w.attempt /\ v.connected = w.connected
<1>1. w \in SessionType
  BY DEF Kept, Messages
<1>2. v = [w EXCEPT !.waiting = FALSE, !.timer = 0]
  BY DEF CancelTimers
<1>3. v \in SessionType
  BY <1>1, TimersTyped
<1>5. v.waiting = FALSE /\ v.timer = 0
  BY <1>1, <1>2 DEF SessionType
<1>4. /\ v.attempt = w.attempt /\ v.connected = w.connected /\ v.session = w.session /\ v.status = w.status
      /\ v.active = w.active /\ v.pending = w.pending /\ v.live = w.live /\ v.facts = w.facts /\ v.next = w.next
  BY <1>1, <1>2 DEF SessionType
<1> QED BY <1>3, <1>4, <1>5 DEF Kept, Messages

LEMMA LiveTyped ==
    ASSUME NEW w \in SessionType, NEW e \in Seq(Nat), NEW o \in SUBSET Nat, NEW v,
           v = [w EXCEPT !.live = e, !.outstanding = o]
    PROVE  v \in SessionType
  BY DEF SessionType

\* v is w with the items out.
AllSent(v, w, items) ==
    /\ v \in SessionType /\ SameLink(v, w) /\ v.status = w.status /\ v.active = w.active
    /\ v.facts = w.facts \o Told("Sending", items) /\ v.live = w.live \o items
    /\ v.pending = w.pending /\ v.next = w.next

LEMMA SendAllIs ==
    ASSUME NEW w \in SessionType, NEW items \in Seq(Nat), NEW v, v = SendAll(w, items),
           w.live \o items \in Seq(Nat), w.facts \o Told("Sending", items) \in Seq(SessionFact)
    PROVE  AllSent(v, w, items)
<1> DEFINE e == w.live \o items
           o == w.outstanding \cup Range(items)
<1>1. e \in Seq(Nat) /\ o \in SUBSET Nat
  <2>1. w.outstanding \in SUBSET Nat
    BY DEF SessionType
  <2>2. Range(items) \subseteq Nat
    BY DEF Range
  <2> QED BY <2>1, <2>2
<1> PICK u : u = [w EXCEPT !.live = e, !.outstanding = o]
  OBVIOUS
<1>2. v = Outbound(u, "Sending", items)
  BY DEF SendAll
<1> HIDE DEF e, o
<1>3. u \in SessionType
  BY <1>1, LiveTyped
<1>4. /\ SameLink(u, w) /\ u.status = w.status /\ u.active = w.active /\ u.facts = w.facts /\ u.live = e
      /\ u.pending = w.pending /\ u.next = w.next
  BY DEF SessionType, SameLink
<1>5. u.facts \o Told("Sending", items) \in Seq(SessionFact)
  BY <1>4
<1>6. Reported(v, u, u.facts \o Told("Sending", items))
  BY <1>2, <1>3, <1>5, OutboundIs
<1> QED BY <1>4, <1>6 DEF Reported, SameLink, AllSent, e

LEMMA NextTyped ==
    ASSUME NEW w \in SessionType, NEW n \in Nat, NEW v, v = [w EXCEPT !.next = n]
    PROVE  v \in SessionType
  BY DEF SessionType

LEMMA PendingTyped ==
    ASSUME NEW w \in SessionType, NEW e \in Seq(Nat), NEW v, v = [w EXCEPT !.pending = e]
    PROVE  v \in SessionType
  BY DEF SessionType

\* A refusal: of a new message, or of a live one that the driver could not send.
LEMMA RefusedKeeps ==
    ASSUME NEW w \in SessionType, NEW q \in Nat, NEW attempt \in Nat, NEW v, v = SendRefused(w, q, attempt),
           NEW g \in Seq(SessionFact), g = w.facts \o Told("Rejected", <<q>>), w.active,
           Accounted(w.pending, w.live, w.next, g),
           w.connected => w.pending = <<>>, w.waiting => ~w.connected /\ w.attempt = 0, w.waiting <=> w.timer # 0
    PROVE  Kept(v) /\ StatusOK(v)
<1> PICK u : u = Outbound(w, "Rejected", <<q>>)
  OBVIOUS
<1>1. Reported(u, w, w.facts \o Told("Rejected", <<q>>))
  BY OutboundIs
<1>2. Kept(u)
  BY <1>1 DEF Reported, Kept, Messages, SameLink
<1>3. "Error" \in Events
  BY DEF Events
<1>4. v = Notify(u, "Error", attempt)
  BY DEF SendRefused
<1>5. Kept(v) /\ Notified(v, u, "Error")
  BY <1>2, <1>3, <1>4, NotifyKeeps
<1> QED BY <1>5, StateIs DEF Notified, StatusOK

LEMMA SendMessageKeeps ==
    ASSUME NEW w, Kept(w), StatusOK(w), NEW v, v = SendMessage(w)
    PROVE  Kept(v) /\ StatusOK(v)
<1>1. w \in SessionType /\ w.active /\ Accounted(w.pending, w.live, w.next, w.facts)
  BY DEF Kept, Messages
<1>2. /\ w.pending \in Seq(Nat) /\ w.live \in Seq(Nat) /\ w.next \in Nat /\ w.facts \in Seq(SessionFact)
      /\ w.attempt \in Nat
  BY <1>1 DEF SessionType
<1> PICK q \in Nat : q = w.next
  BY <1>2
<1> PICK u : u = [w EXCEPT !.next = q + 1]
  OBVIOUS
<1>3. u \in SessionType /\ u.next = q + 1
  <2>1. u \in SessionType
    BY <1>1, NextTyped
  <2> QED BY <2>1, <1>1 DEF SessionType
<1>4. /\ SameLink(u, w) /\ u.status = w.status /\ u.active = w.active /\ u.facts = w.facts /\ u.live = w.live
      /\ u.pending = w.pending
  BY <1>1 DEF SessionType, SameLink
<1>5. u.connected = w.connected /\ u.session = w.session /\ u.attempt = w.attempt
  BY <1>4 DEF SameLink
<1>6. ASSUME NEW attempt \in Nat, v = SendRefused(u, q, attempt) PROVE Kept(v) /\ StatusOK(v)
  <2> PICK g : g = w.facts \o Told("Rejected", <<q>>)
    OBVIOUS
  <2>1. g \in Seq(SessionFact) /\ Accounted(w.pending, w.live, q + 1, g)
    BY <1>1, <1>2, NewRefused
  <2>2. g = u.facts \o Told("Rejected", <<q>>) /\ u.active /\ Accounted(u.pending, u.live, u.next, g)
    BY <2>1, <1>1, <1>3, <1>4
  <2>3. /\ u.connected => u.pending = <<>>
        /\ u.waiting => ~u.connected /\ u.attempt = 0
        /\ u.waiting <=> u.timer # 0
    BY <1>4 DEF Kept, SameLink
  <2> QED BY <2>1, <2>2, <2>3, <1>3, <1>6, RefusedKeeps
<1>7. CASE w.connected /\ w.session = NoConnection
  <2>1. v = SendRefused(u, q, 0)
    BY <1>5, <1>7 DEF SendMessage, SendItem
  <2> QED BY <2>1, <1>6
<1>8. CASE w.connected /\ w.session # NoConnection
  <2>1. v = SendAll(u, <<q>>)
    BY <1>5, <1>8 DEF SendMessage, SendItem
  <2>2. w.pending = <<>>
    BY <1>8 DEF Kept
  <2> PICK g : g = w.facts \o Told("Sending", <<q>>)
    OBVIOUS
  <2>3. g \in Seq(SessionFact) /\ w.live \o <<q>> \in Seq(Nat) /\ Accounted(<<>>, w.live \o <<q>>, q + 1, g)
    BY <2>2, <1>1, <1>2, NewSent
  <2>4. <<q>> \in Seq(Nat) /\ u.live \o <<q>> \in Seq(Nat) /\ u.facts \o Told("Sending", <<q>>) \in Seq(SessionFact)
    BY <2>3, <1>4
  <2>5. /\ v \in SessionType /\ SameLink(v, u) /\ v.status = u.status /\ v.active = u.active
        /\ v.facts = u.facts \o Told("Sending", <<q>>) /\ v.live = u.live \o <<q>>
        /\ v.pending = u.pending /\ v.next = u.next
    <3>1. AllSent(v, u, <<q>>)
      BY <2>1, <2>4, <1>3, SendAllIs
    <3> QED BY <3>1 DEF AllSent
  <2>6. Messages(v)
    BY <2>2, <2>3, <2>5, <1>1, <1>3, <1>4 DEF Messages
  <2> QED BY <2>5, <2>6, <1>4 DEF Kept, SameLink, StatusOK
<1>9. CASE ~w.connected /\ Len(w.pending) < WsBuffer
  <2> PICK x : x = [u EXCEPT !.pending = Append(u.pending, q)]
    OBVIOUS
  <2>1. v = Outbound(x, "Queued", <<q>>)
    BY <1>4, <1>5, <1>9 DEF SendMessage
  <2> PICK g : g = w.facts \o Told("Queued", <<q>>)
    OBVIOUS
  <2> PICK e : e = Append(w.pending, q)
    OBVIOUS
  <2>2. g \in Seq(SessionFact) /\ e \in Seq(Nat) /\ Accounted(e, w.live, q + 1, g)
    BY <1>1, <1>2, NewQueued
  <2>3. x \in SessionType
    BY <2>2, <1>3, PendingTyped
  <2>4. /\ SameLink(x, u) /\ x.status = u.status /\ x.active = u.active /\ x.facts = u.facts /\ x.live = u.live
        /\ x.pending = e /\ x.next = u.next
    BY <1>3 DEF SessionType, SameLink
  <2>5. g = x.facts \o Told("Queued", <<q>>)
    BY <2>4, <1>4
  <2>6. Reported(v, x, x.facts \o Told("Queued", <<q>>))
    BY <2>1, <2>2, <2>3, <2>5, OutboundIs
  <2>7. Messages(v)
    BY <2>2, <2>4, <2>5, <2>6, <1>1, <1>3, <1>4 DEF Messages, Reported
  <2> QED BY <2>4, <2>6, <2>7, <1>4, <1>9 DEF Kept, Reported, SameLink, StatusOK
<1>10. CASE ~w.connected /\ ~(Len(w.pending) < WsBuffer)
  <2>1. v = SendRefused(u, q, w.attempt)
    BY <1>4, <1>5, <1>10 DEF SendMessage
  <2> QED BY <2>1, <1>2, <1>6
<1> QED BY <1>7, <1>8, <1>9, <1>10

LEMMA FlushPendingIs ==
    ASSUME NEW w, Messages(w), NEW v, v = FlushPending(w)
    PROVE  DrainedOf(v, w)
<1>1. w \in SessionType /\ w.active /\ Accounted(w.pending, w.live, w.next, w.facts)
  BY DEF Messages
<1>2. w.pending \in Seq(Nat) /\ w.live \in Seq(Nat) /\ w.next \in Nat /\ w.facts \in Seq(SessionFact)
  BY <1>1 DEF SessionType
<1>3. CASE w.session = NoConnection
  <2>1. v = DrainPending(w, "Canceled") /\ "Canceled" \in Final
    BY <1>3 DEF FlushPending, Final
  <2> QED BY <2>1, DrainPendingIs
<1>4. CASE w.session # NoConnection
  <2> PICK u : u = [w EXCEPT !.pending = <<>>]
    OBVIOUS
  <2>1. v = SendAll(u, w.pending)
    BY <1>4 DEF FlushPending
  <2>2. <<>> \in Seq(Nat)
    OBVIOUS
  <2>3. u \in SessionType
    BY <2>2, <1>1, PendingTyped
  <2>4. SameLink(u, w) /\ u.facts = w.facts /\ u.status = w.status /\ u.active = w.active /\ u.live = w.live /\ u.next = w.next
          /\ u.pending = <<>>
    BY <1>1 DEF SessionType, SameLink
  <2> PICK g : g = w.facts \o Told("Sending", w.pending)
    OBVIOUS
  <2>5. g \in Seq(SessionFact) /\ w.live \o w.pending \in Seq(Nat) /\ Accounted(<<>>, w.live \o w.pending, w.next, g)
    BY <1>1, <1>2, PendingSent
  <2>6. u.live \o w.pending \in Seq(Nat) /\ u.facts \o Told("Sending", w.pending) \in Seq(SessionFact)
    BY <2>4, <2>5
  <2>7. AllSent(v, u, w.pending)
    BY <2>1, <2>3, <2>6, <1>2, SendAllIs
  <2>8. Messages(v)
    BY <2>4, <2>5, <2>7, <1>1 DEF Messages, AllSent
  <2> QED BY <2>4, <2>7, <2>8 DEF DrainedOf, AllSent, SameLink
<1> QED BY <1>3, <1>4

LEMMA ConnectedTyped ==
    ASSUME NEW w \in SessionType, NEW v, v = [w EXCEPT !.connected = TRUE]
    PROVE  v \in SessionType
  BY DEF SessionType

LEMMA SessionOpenedKeeps ==
    ASSUME NEW w, Kept(w), ~w.waiting, NEW attempt \in Nat, NEW v, v = SessionOpened(w, attempt)
    PROVE  Kept(v) /\ StatusOK(v) /\ v.connected /\ ~v.waiting /\ v.status.state = "Open"
<1>1. Messages(w) /\ w \in SessionType /\ (w.waiting <=> w.timer # 0)
  BY DEF Kept, Messages
<1> PICK u : u = [w EXCEPT !.connected = TRUE]
  OBVIOUS
<1>2. u \in SessionType
  BY <1>1, ConnectedTyped
<1>3. /\ u.connected = TRUE /\ u.waiting = w.waiting /\ u.timer = w.timer /\ u.active = w.active
      /\ u.pending = w.pending /\ u.live = w.live /\ u.next = w.next /\ u.facts = w.facts
  BY <1>1 DEF SessionType
<1> PICK x : x = Notify(u, "Open", attempt)
  OBVIOUS
<1>4. Notified(x, u, "Open")
  <2>1. "Open" \in Events
    BY DEF Events
  <2> QED BY <2>1, <1>2, NotifyIs
<1>5. Messages(x)
  BY <1>1, <1>3, <1>4 DEF Messages, Notified
<1>6. v = FlushPending(x)
  BY DEF SessionOpened
<1>7. DrainedOf(v, x)
  BY <1>5, <1>6, FlushPendingIs
<1>8. v.status.state = "Open" /\ v.connected = TRUE /\ v.waiting = w.waiting /\ v.timer = w.timer
  BY <1>3, <1>4, <1>7, StateIs DEF DrainedOf, Notified, SameLink
<1> QED BY <1>1, <1>7, <1>8 DEF Kept, StatusOK, DrainedOf

LEMMA WaitingTyped ==
    ASSUME NEW w \in SessionType, NEW n \in Nat, NEW v, v = [w EXCEPT !.waiting = TRUE, !.timer = n]
    PROVE  v \in SessionType
  BY DEF SessionType

LEMMA AttemptTyped ==
    ASSUME NEW w \in SessionType, NEW n \in Nat, NEW v, v = [w EXCEPT !.attempt = n]
    PROVE  v \in SessionType
  BY DEF SessionType

LEMMA JoinedTyped ==
    ASSUME NEW w \in SessionType, NEW n \in Nat, NEW c \in Seq(Connection), NEW v, v = [w EXCEPT !.conns = c, !.session = n]
    PROVE  v \in SessionType
  BY DEF SessionType

Hows == {"none", "inside", "later"}

LEMMA StartAttemptKeeps ==
    ASSUME NEW w, Kept(w), NEW attempt \in Nat \ {0}, NEW how \in Hows, NEW v, v = StartAttempt(w, attempt, how),
           w.connected \/ w.attempt # 0 \/ w.waiting => StatusOK(w)
    PROVE  Kept(v) /\ StatusOK(v)
<1>1. Messages(w) /\ w \in SessionType /\ w.active /\ (w.waiting <=> w.timer # 0)
  BY DEF Kept, Messages
<1>2. CASE w.connected \/ w.attempt # 0 \/ w.waiting
  <2>1. v = w
    BY <1>2 DEF StartAttempt
  <2> QED BY <2>1, <1>2
<1>3. CASE ~(w.connected \/ w.attempt # 0 \/ w.waiting)
  <2> PICK u : u = [w EXCEPT !.attempt = attempt]
    OBVIOUS
  <2>1. u \in SessionType
    BY <1>1, AttemptTyped
  <2>2. /\ u.connected = w.connected /\ u.waiting = w.waiting /\ u.timer = w.timer /\ u.active = w.active
        /\ u.pending = w.pending /\ u.live = w.live /\ u.next = w.next /\ u.facts = w.facts /\ u.attempt = attempt
    BY <1>1 DEF SessionType
  <2>3. Kept(u)
    BY <2>1, <2>2, <1>1, <1>3 DEF Kept, Messages
  <2> PICK a : a = Notify(u, "Attempt", attempt)
    OBVIOUS
  <2>4. Kept(a) /\ Notified(a, u, "Attempt")
    <3>1. "Attempt" \in Events
      BY DEF Events
    <3> QED BY <3>1, <2>3, NotifyKeeps
  <2>5. a.status.state = "Connecting" /\ a.attempt = attempt /\ ~a.connected /\ ~a.waiting
    BY <2>2, <2>4, <1>3, StateIs DEF Notified, SameLink
  <2>6. CASE how = "none"
    <3>1. v = Exhaust(a, attempt)
      BY <2>6, <1>1, <1>3 DEF StartAttempt
    <3> QED BY <3>1, <2>4, ExhaustKeeps
  <2>7. CASE how # "none"
    <3> PICK o : o = IF how = "inside" THEN SessionOpened(a, attempt) ELSE a
      OBVIOUS
    <3>1. Kept(o) /\ StatusOK(o)
      <4>1. CASE how = "inside"
        BY <4>1, <2>4, <2>5, SessionOpenedKeeps
      <4>2. CASE how # "inside"
        BY <4>2, <2>4, <2>5 DEF StatusOK
      <4> QED BY <4>1, <4>2
    <3> PICK c : c = Append(o.conns, [attempt |-> attempt, phase |-> IF how = "inside" THEN "open" ELSE "connecting"])
      OBVIOUS
    <3> PICK n : n = Len(w.conns) + 1
      OBVIOUS
    <3>2. c \in Seq(Connection) /\ n \in Nat
      <4>1. o.conns \in Seq(Connection) /\ w.conns \in Seq(Connection)
        BY <3>1, <1>1 DEF Kept, Messages, SessionType
      <4>2. [attempt |-> attempt, phase |-> IF how = "inside" THEN "open" ELSE "connecting"] \in Connection
        BY DEF Connection, Phases
      <4> QED BY <4>1, <4>2
    <3>3. v = [o EXCEPT !.conns = c, !.session = n]
      BY <2>7, <1>1, <1>3 DEF StartAttempt
    <3>4. o \in SessionType
      BY <3>1 DEF Kept, Messages
    <3>5. v \in SessionType
      BY <3>2, <3>3, <3>4, JoinedTyped
    <3>6. /\ v.connected = o.connected /\ v.waiting = o.waiting /\ v.timer = o.timer /\ v.active = o.active
          /\ v.pending = o.pending /\ v.live = o.live /\ v.next = o.next /\ v.facts = o.facts
          /\ v.attempt = o.attempt /\ v.status = o.status
      BY <3>3, <3>4 DEF SessionType
    <3> QED BY <3>1, <3>5, <3>6 DEF Kept, Messages, StatusOK
  <2> QED BY <2>6, <2>7
<1> QED BY <1>2, <1>3

LEMMA SessionRetryKeeps ==
    ASSUME NEW w, Kept(w), NEW attempt \in Nat, NEW how \in Hows, NEW v, v = RetryOrExhaust(w, attempt, how)
    PROVE  Kept(v) /\ StatusOK(v)
<1>f. "gone" \in Phases /\ "Retry" \in Events
  BY DEF Phases, Events
<1> PICK u : u = CancelLive(w, "gone")
  OBVIOUS
<1>1. Kept(u) /\ LinkCut(u, w)
  BY <1>f, CancelLiveKeeps
<1> PICK x : x = Notify(u, "Retry", attempt)
  OBVIOUS
<1>2. Kept(x) /\ Notified(x, u, "Retry")
  BY <1>f, <1>1, NotifyKeeps
<1>3. x.status.state = "Waiting" /\ ~x.connected /\ x.attempt = 0
  BY <1>1, <1>2, StateIs DEF Notified, SameLink, LinkCut
<1>4. CASE attempt >= WsAttempts
  <2>1. v = Exhaust(u, attempt)
    BY <1>4, WsAssumption DEF RetryOrExhaust
  <2> QED BY <2>1, <1>1, ExhaustKeeps
<1>5. CASE attempt < WsAttempts /\ WsDelays[attempt + 1] = 0
  <2>1. v = StartAttempt(x, attempt + 1, how)
    BY <1>5, WsAssumption DEF RetryOrExhaust
  <2>2. x.connected \/ x.attempt # 0 \/ x.waiting => StatusOK(x)
    BY <1>3 DEF StatusOK
  <2>3. attempt + 1 \in Nat \ {0}
    OBVIOUS
  <2> QED BY <2>1, <2>2, <2>3, <1>2, StartAttemptKeeps
<1>6. CASE ~(attempt >= WsAttempts) /\ ~(attempt < WsAttempts /\ WsDelays[attempt + 1] = 0)
  <2>1. v = [x EXCEPT !.waiting = TRUE, !.timer = attempt + 1]
    BY <1>6 DEF RetryOrExhaust
  <2>2. x \in SessionType
    BY <1>2 DEF Kept, Messages
  <2>3. v \in SessionType
    <3>1. attempt + 1 \in Nat
      OBVIOUS
    <3> QED BY <3>1, <2>1, <2>2, WaitingTyped
  <2>4. /\ v.connected = x.connected /\ v.waiting = TRUE /\ v.timer = attempt + 1 /\ v.active = x.active
        /\ v.pending = x.pending /\ v.live = x.live /\ v.next = x.next /\ v.facts = x.facts
        /\ v.attempt = x.attempt /\ v.status = x.status
    BY <2>1, <2>2 DEF SessionType
  <2> QED BY <2>3, <2>4, <1>2, <1>3 DEF Kept, Messages, StatusOK
<1> QED BY <1>4, <1>5, <1>6

-----------------------------------------------------------------------------
(* The session as a whole.                                                 *)

\* While the node is active its messages are accounted for, nothing is pending on an open connection, a retry
\* waits only without a connection, and the status is right; then nothing is claimed but the types.
SessionInv == web \in SessionType /\ (web.active => Kept(web) /\ StatusOK(web))

LEMMA SessionStarts == WebInit => SessionInv
<1> SUFFICES ASSUME WebInit PROVE SessionInv
  OBVIOUS
<1>1. <<>> \in Seq(Nat) /\ <<>> \in Seq(Connection) /\ <<>> \in Seq(SessionFact) /\ "Idle" \in StatusKinds
  BY DEF StatusKinds
<1>2. web \in SessionType
  BY <1>1 DEF WebInit, NewSession, SessionType, NoConnection
<1>3. /\ web.active /\ web.pending = <<>> /\ web.live = <<>> /\ web.next = 0 /\ web.facts = <<>> /\ ~web.connected
      /\ ~web.waiting /\ web.timer = 0 /\ web.status.state = "Idle"
  BY DEF WebInit, NewSession
<1>4. Accounted(<<>>, <<>>, 0, <<>>)
  BY DEF Accounted, Below, FactsBelow, Rising, Apart, SendsOrdered, SentBefore
<1> QED BY <1>2, <1>3, <1>4 DEF SessionInv, Kept, Messages, StatusOK

LEMMA StartSessionInv ==
    ASSUME SessionInv, NEW how \in Hows, StartSession(how)
    PROVE  SessionInv'
<1>1. web.active /\ web' = StartAttempt(web, 1, how)
  BY DEF StartSession
<1>2. Kept(web) /\ StatusOK(web)
  BY <1>1 DEF SessionInv
<1> PICK v : v = StartAttempt(web, 1, how)
  OBVIOUS
<1>3. Kept(v) /\ StatusOK(v)
  BY <1>2, StartAttemptKeeps
<1> QED BY <1>1, <1>3 DEF SessionInv, Kept, Messages

LEMMA RetryWakesInv ==
    ASSUME SessionInv, NEW how \in Hows, RetryWakes(how)
    PROVE  SessionInv'
<1>1. web.timer # 0 /\ web' = StartAttempt(CancelTimers(web), web.timer, how)
  BY DEF RetryWakes
<1>2. web \in SessionType /\ web.timer \in Nat
  BY DEF SessionInv, SessionType
<1> PICK u : u = CancelTimers(web)
  OBVIOUS
<1>3. u \in SessionType
  BY <1>2, TimersTyped
<1>4. CASE ~web.active
  <2>1. u.active = FALSE
    BY <1>2, <1>4 DEF CancelTimers, SessionType
  <2>2. web' = u
    BY <2>1, <1>1 DEF StartAttempt
  <2> QED BY <2>1, <2>2, <1>3 DEF SessionInv
<1>5. CASE web.active
  <2>1. Kept(web)
    BY <1>5 DEF SessionInv
  <2>2. ~web.connected /\ web.attempt = 0
    BY <2>1, <1>1 DEF Kept
  <2>3. Kept(u) /\ ~u.waiting /\ u.attempt = web.attempt /\ u.connected = web.connected
    BY <2>1, CancelTimersKeeps
  <2> PICK v : v = StartAttempt(u, web.timer, how)
    OBVIOUS
  <2>4. Kept(v) /\ StatusOK(v)
    BY <2>2, <2>3, <1>1, <1>2, StartAttemptKeeps
  <2> QED BY <2>4, <1>1 DEF SessionInv, Kept, Messages
<1> QED BY <1>4, <1>5

LEMMA SendCommandInv ==
    ASSUME SessionInv, SendCommand
    PROVE  SessionInv'
<1>1. web.active /\ web' = SendMessage(web)
  BY DEF SendCommand
<1> PICK v : v = SendMessage(web)
  OBVIOUS
<1>2. Kept(v) /\ StatusOK(v)
  BY <1>1, SendMessageKeeps DEF SessionInv
<1> QED BY <1>1, <1>2 DEF SessionInv, Kept, Messages

LEMMA CloseCommandInv ==
    ASSUME SessionInv, CloseCommand
    PROVE  SessionInv'
<1>f. "closing" \in Phases /\ "Canceled" \in Final /\ "Closing" \in Events /\ "Closed" \in Events
  BY DEF Phases, Final, Events
<1>1. Kept(web)
  BY DEF CloseCommand, SessionInv
<1> PICK t : t = CancelTimers(web)
  OBVIOUS
<1>2. Kept(t)
  BY <1>1, CancelTimersKeeps
<1> PICK c : c = Notify(t, "Closing", 0)
  OBVIOUS
<1>3. Kept(c)
  BY <1>f, <1>2, NotifyKeeps
<1> PICK x : x = CancelLive(c, "closing")
  OBVIOUS
<1>4. Kept(x)
  BY <1>f, <1>3, CancelLiveKeeps
<1> PICK y : y = DrainPending(x, "Canceled")
  OBVIOUS
<1>5. Kept(y)
  BY <1>f, <1>4, DrainPendingKeeps
<1> PICK v : v = Notify(y, "Closed", 0)
  OBVIOUS
<1>6. Kept(v) /\ Notified(v, y, "Closed")
  BY <1>f, <1>5, NotifyKeeps
<1>7. StatusOK(v)
  BY <1>6, StateIs DEF Notified, StatusOK
<1>8. web' = v
  BY DEF CloseCommand
<1> QED BY <1>6, <1>7, <1>8 DEF SessionInv, Kept, Messages

LEMMA InactiveTyped ==
    ASSUME NEW w \in SessionType, NEW v, v = [w EXCEPT !.active = FALSE]
    PROVE  v \in SessionType
  BY DEF SessionType

LEMMA DeactivateInv ==
    ASSUME SessionInv, Deactivate
    PROVE  SessionInv'
<1>1. web \in SessionType
  BY DEF SessionInv
<1> PICK a : a = [web EXCEPT !.active = FALSE]
  OBVIOUS
<1>2. a \in SessionType
  BY <1>1, InactiveTyped
<1>3. a.active = FALSE
  BY <1>1 DEF SessionType
<1> PICK t : t = CancelTimers(a)
  OBVIOUS
<1>4. t \in SessionType
  BY <1>2, TimersTyped
<1>5. t.active = FALSE
  BY <1>2, <1>3 DEF CancelTimers, SessionType
<1> PICK v : v = CloseConnection(t, "gone")
  OBVIOUS
<1>6. v \in SessionType /\ v.active = t.active
  <2>1. "gone" \in Phases
    BY DEF Phases
  <2> QED BY <2>1, <1>4, CloseConnectionIs
<1>7. web' = v
  BY DEF Deactivate
<1> QED BY <1>5, <1>6, <1>7 DEF SessionInv

LEMMA ConnsTyped ==
    ASSUME NEW w \in SessionType, NEW d \in Seq(Connection), NEW v, v = [w EXCEPT !.conns = d]
    PROVE  v \in SessionType
  BY DEF SessionType

\* A function on 1 .. n into a set is a sequence of its elements.
LEMMA OfElements ==
    ASSUME NEW C, NEW n \in Nat, NEW d, d = [i \in 1 .. n |-> d[i]], \A i \in 1 .. n : d[i] \in C
    PROVE  d \in Seq(C)
  OBVIOUS

LEMMA PhasedKeeps ==
    ASSUME SessionInv, NEW c \in DOMAIN web.conns, NEW phase \in Phases, NEW w, w = Phased(c, phase)
    PROVE  /\ w \in SessionType /\ w.active = web.active /\ w.waiting = web.waiting
           /\ web.active => Kept(w) /\ StatusOK(w)
           /\ web.conns[c].attempt \in Nat \ {0}
<1>1. web \in SessionType
  BY DEF SessionInv
<1>2. web.conns \in Seq(Connection)
  BY <1>1 DEF SessionType
<1>3. \A i \in DOMAIN web.conns : web.conns[i] \in Connection
  BY <1>2
<1>4. \A i \in DOMAIN web.conns : [web.conns[i] EXCEPT !.phase = phase] \in Connection
  BY <1>3 DEF Connection
<1>5. Len(web.conns) \in Nat /\ DOMAIN web.conns = 1 .. Len(web.conns)
  BY <1>2
<1> PICK d : d = [web.conns EXCEPT ![c].phase = phase]
  OBVIOUS
<1>6. d = [i \in 1 .. Len(web.conns) |-> IF i = c THEN [web.conns[i] EXCEPT !.phase = phase] ELSE web.conns[i]]
  BY <1>2, <1>5
<1>7. \A i \in 1 .. Len(web.conns) : (IF i = c THEN [web.conns[i] EXCEPT !.phase = phase] ELSE web.conns[i]) \in Connection
  BY <1>3, <1>4, <1>5
<1>8. d \in Seq(Connection)
  <2>1. \A i \in 1 .. Len(web.conns) : d[i] \in Connection
    BY <1>6, <1>7
  <2>2. d = [i \in 1 .. Len(web.conns) |-> d[i]]
    BY <1>6
  <2> QED BY <1>5, <2>1, <2>2, OfElements
<1>9. w = [web EXCEPT !.conns = d]
  BY DEF Phased
<1>10. w \in SessionType
  BY <1>1, <1>8, <1>9, ConnsTyped
<1>11. /\ w.connected = web.connected /\ w.waiting = web.waiting /\ w.timer = web.timer /\ w.active = web.active
       /\ w.pending = web.pending /\ w.live = web.live /\ w.next = web.next /\ w.facts = web.facts
       /\ w.attempt = web.attempt /\ w.status = web.status
  BY <1>1, <1>9 DEF SessionType
<1>12. web.conns[c].attempt \in Nat \ {0}
  BY <1>3 DEF Connection
<1> QED BY <1>10, <1>11, <1>12 DEF SessionInv, Kept, Messages, StatusOK

LEMMA NotCurrent ==
    ASSUME SessionInv, NEW c \in DOMAIN web.conns, NEW phase \in Phases, web' = Phased(c, phase)
    PROVE  SessionInv'
<1> PICK w : w = Phased(c, phase)
  OBVIOUS
<1>1. w \in SessionType /\ w.active = web.active /\ (web.active => Kept(w) /\ StatusOK(w))
  BY PhasedKeeps
<1> QED BY <1>1 DEF SessionInv

LEMMA ConnectionOpensInv ==
    ASSUME SessionInv, NEW c \in DOMAIN web.conns, ConnectionOpens(c)
    PROVE  SessionInv'
<1>f. "open" \in Phases
  BY DEF Phases
<1> PICK w : w = Phased(c, "open")
  OBVIOUS
<1> PICK attempt : attempt = web.conns[c].attempt
  OBVIOUS
<1>1. web' = IF IsCurrent(web, c) THEN SessionOpened(w, attempt) ELSE w
  BY DEF ConnectionOpens, CallBack, Phased
<1>2. CASE ~IsCurrent(web, c)
  BY <1>1, <1>2, <1>f, NotCurrent
<1>3. CASE IsCurrent(web, c)
  <2>1. web.active /\ web.attempt = attempt
    BY <1>3 DEF IsCurrent
  <2>2. Kept(w) /\ attempt \in Nat \ {0} /\ w.waiting = web.waiting
    BY <2>1, <1>f, PhasedKeeps
  <2>3. ~web.waiting
    BY <2>1, <2>2 DEF SessionInv, Kept
  <2> PICK v : v = SessionOpened(w, attempt)
    OBVIOUS
  <2>4. Kept(v) /\ StatusOK(v)
    BY <2>2, <2>3, SessionOpenedKeeps
  <2> QED BY <2>4, <1>1, <1>3 DEF SessionInv, Kept, Messages
<1> QED BY <1>2, <1>3

LEMMA ConnectionDeliversInv ==
    ASSUME SessionInv, NEW c \in DOMAIN web.conns, ConnectionDelivers(c)
    PROVE  SessionInv'
<1>1. web' = web
  BY DEF ConnectionDelivers, CallBack
<1> QED BY <1>1 DEF SessionInv

LEMMA ConnectionFailsInv ==
    ASSUME SessionInv, NEW c \in DOMAIN web.conns, NEW how \in Hows, ConnectionFails(c, how)
    PROVE  SessionInv'
<1>f. "gone" \in Phases
  BY DEF Phases
<1> PICK w : w = Phased(c, "gone")
  OBVIOUS
<1> PICK attempt : attempt = web.conns[c].attempt
  OBVIOUS
<1>1. web' = IF IsCurrent(web, c) THEN RetryOrExhaust(w, attempt, how) ELSE w
  BY DEF ConnectionFails, CallBack, Phased
<1>2. CASE ~IsCurrent(web, c)
  BY <1>1, <1>2, <1>f, NotCurrent
<1>3. CASE IsCurrent(web, c)
  <2>1. Kept(w) /\ attempt \in Nat
    BY <1>3, <1>f, PhasedKeeps DEF IsCurrent
  <2> PICK v : v = RetryOrExhaust(w, attempt, how)
    OBVIOUS
  <2>2. Kept(v) /\ StatusOK(v)
    BY <2>1, SessionRetryKeeps
  <2> QED BY <2>2, <1>1, <1>3 DEF SessionInv, Kept, Messages
<1> QED BY <1>2, <1>3

LEMMA ConnectionClosesInv ==
    ASSUME SessionInv, NEW c \in DOMAIN web.conns, NEW normal \in BOOLEAN, NEW how \in Hows,
           ConnectionCloses(c, normal, how)
    PROVE  SessionInv'
<1>f. "gone" \in Phases /\ "Closed" \in Events /\ "Canceled" \in Final
  BY DEF Phases, Events, Final
<1> PICK w : w = Phased(c, "gone")
  OBVIOUS
<1> PICK attempt : attempt = web.conns[c].attempt
  OBVIOUS
<1> PICK u : u = CancelLive(w, "gone")
  OBVIOUS
<1> PICK x : x = Notify(u, "Closed", 0)
  OBVIOUS
<1>1. web' = IF IsCurrent(web, c)
             THEN IF normal THEN DrainPending(x, "Canceled") ELSE RetryOrExhaust(x, attempt, how)
             ELSE w
  BY DEF ConnectionCloses, CallBack, Phased
<1>2. CASE ~IsCurrent(web, c)
  BY <1>1, <1>2, <1>f, NotCurrent
<1>3. CASE IsCurrent(web, c)
  <2>1. Kept(w) /\ attempt \in Nat
    BY <1>3, <1>f, PhasedKeeps DEF IsCurrent
  <2>2. Kept(u)
    BY <2>1, <1>f, CancelLiveKeeps
  <2>3. Kept(x) /\ Notified(x, u, "Closed")
    BY <2>2, <1>f, NotifyKeeps
  <2> PICK y : y = DrainPending(x, "Canceled")
    OBVIOUS
  <2>4. Kept(y) /\ DrainedOf(y, x)
    BY <2>3, <1>f, DrainPendingKeeps
  <2>5. y.status.state = "Closed"
    BY <2>3, <2>4, StateIs DEF Notified, DrainedOf
  <2>6. StatusOK(y)
    BY <2>5 DEF StatusOK
  <2> PICK v : v = RetryOrExhaust(x, attempt, how)
    OBVIOUS
  <2>7. Kept(v) /\ StatusOK(v)
    BY <2>1, <2>3, SessionRetryKeeps
  <2>8. web' = y \/ web' = v
    BY <1>1, <1>3
  <2> QED BY <2>4, <2>6, <2>7, <2>8 DEF SessionInv, Kept, Messages
<1> QED BY <1>2, <1>3

LEMMA AnswerTyped ==
    ASSUME NEW w \in SessionType, NEW e \in Seq(Nat), NEW o \in SUBSET Nat, NEW v,
           v = [w EXCEPT !.outstanding = o, !.live = e]
    PROVE  v \in SessionType
  BY DEF SessionType

LEMMA SendAnsweredInv ==
    ASSUME SessionInv, NEW q \in web.outstanding, NEW ok \in BOOLEAN, SendAnswered(q, ok)
    PROVE  SessionInv'
<1>1. web \in SessionType
  BY DEF SessionInv
<1>2. /\ web.pending \in Seq(Nat) /\ web.live \in Seq(Nat) /\ web.next \in Nat /\ web.facts \in Seq(SessionFact)
      /\ web.outstanding \in SUBSET Nat /\ web.attempt \in Nat
  BY <1>1 DEF SessionType
<1>3. q \in Nat
  BY <1>2
<1> PICK e : e = Removed(web.live, q)
  OBVIOUS
<1> PICK o : o = web.outstanding \ {q}
  OBVIOUS
<1> PICK w : w = [web EXCEPT !.outstanding = o, !.live = e]
  OBVIOUS
<1>o. o \in SUBSET Nat
  BY <1>2
<1>4. web' = CASE ~web.active \/ ~Contains(web.live, q) -> w
               [] web.active /\ Contains(web.live, q) /\ ok -> Outbound(w, "Sent", <<q>>)
               [] OTHER -> SendRefused(w, q, w.attempt)
  BY DEF SendAnswered
<1>5. /\ w.connected = web.connected /\ w.waiting = web.waiting /\ w.timer = web.timer /\ w.active = web.active
      /\ w.pending = web.pending /\ w.live = e /\ w.next = web.next /\ w.facts = web.facts
      /\ w.attempt = web.attempt /\ w.status = web.status
  BY <1>1 DEF SessionType
<1>6. CASE ~Contains(web.live, q)
  <2>1. e = web.live
    BY <1>6 DEF Removed
  <2>2. w \in SessionType
    BY <2>1, <1>o, <1>1, <1>2, AnswerTyped
  <2>3. web' = w
    BY <1>4, <1>6
  <2> QED BY <2>1, <2>2, <2>3, <1>5 DEF SessionInv, Kept, Messages, StatusOK
<1>7. CASE Contains(web.live, q) /\ ~web.active
  <2>1. e \in Seq(Nat)
    BY <1>2, <1>3, <1>7, RemovedTyped
  <2>2. w \in SessionType
    BY <2>1, <1>o, <1>1, AnswerTyped
  <2>3. web' = w
    BY <1>4, <1>7
  <2> QED BY <2>2, <2>3, <1>5, <1>7 DEF SessionInv
<1>8. CASE Contains(web.live, q) /\ web.active
  <2>1. Accounted(web.pending, web.live, web.next, web.facts) /\ Kept(web) /\ StatusOK(web)
    BY <1>8 DEF SessionInv, Kept, Messages
  <2>2. /\ w.connected => w.pending = <<>>
        /\ w.waiting => ~w.connected /\ w.attempt = 0
        /\ w.waiting <=> w.timer # 0
    BY <2>1, <1>5 DEF Kept
  <2>3. "Sent" \in Final /\ "Rejected" \in Final
    BY DEF Final
  <2> PICK g : g = web.facts \o Told("Sent", <<q>>)
    OBVIOUS
  <2> PICK h : h = web.facts \o Told("Rejected", <<q>>)
    OBVIOUS
  <2>4. g \in Seq(SessionFact) /\ e \in Seq(Nat) /\ Accounted(web.pending, e, web.next, g)
    BY <2>1, <2>3, <1>2, <1>3, <1>8, LiveAnswered
  <2>5. h \in Seq(SessionFact) /\ Accounted(web.pending, e, web.next, h)
    BY <2>1, <2>3, <1>2, <1>3, <1>8, LiveAnswered
  <2>6. w \in SessionType
    BY <2>4, <1>o, <1>1, AnswerTyped
  <2>7. CASE ok
    <3> PICK v : v = Outbound(w, "Sent", <<q>>)
      OBVIOUS
    <3>1. web' = v
      BY <2>7, <1>4, <1>8
    <3>2. g = w.facts \o Told("Sent", <<q>>)
      BY <1>5
    <3>3. Reported(v, w, w.facts \o Told("Sent", <<q>>))
      BY <2>4, <2>6, <3>2, OutboundIs
    <3>4. Messages(v)
      BY ZenonT(30), <2>4, <3>2, <3>3, <1>5, <1>8 DEF Messages, Reported
    <3>5. Kept(v) /\ StatusOK(v)
      BY <2>1, <2>2, <3>3, <3>4, <1>5 DEF Kept, Reported, SameLink, StatusOK
    <3> QED BY <3>1, <3>5 DEF SessionInv, Kept, Messages
  <2>8. CASE ~ok
    <3> PICK v : v = SendRefused(w, q, w.attempt)
      OBVIOUS
    <3>1. web' = v
      BY <2>8, <1>4, <1>8
    <3>2. h = w.facts \o Told("Rejected", <<q>>) /\ w.active /\ Accounted(w.pending, w.live, w.next, h) /\ w.attempt \in Nat
      BY <2>5, <1>2, <1>5, <1>8
    <3>3. Kept(v) /\ StatusOK(v)
      BY <2>2, <2>5, <2>6, <3>2, <1>3, RefusedKeeps
    <3> QED BY <3>1, <3>3 DEF SessionInv, Kept, Messages
  <2> QED BY <2>7, <2>8
<1> QED BY <1>6, <1>7, <1>8

LEMMA SessionInductive == SessionInv /\ [WebNext]_web => SessionInv'
<1> SUFFICES ASSUME SessionInv, [WebNext]_web PROVE SessionInv'
  OBVIOUS
<1>1. CASE UNCHANGED web
  BY <1>1 DEF SessionInv
<1>2. ASSUME NEW how \in Hows, StartSession(how) \/ RetryWakes(how) PROVE SessionInv'
  BY <1>2, StartSessionInv, RetryWakesInv
<1>3. CASE SendCommand \/ CloseCommand \/ Deactivate
  BY <1>3, SendCommandInv, CloseCommandInv, DeactivateInv
<1>4. ASSUME NEW c \in DOMAIN web.conns, ConnectionOpens(c) \/ ConnectionDelivers(c) PROVE SessionInv'
  BY <1>4, ConnectionOpensInv, ConnectionDeliversInv
<1>5. ASSUME NEW c \in DOMAIN web.conns, NEW how \in Hows, ConnectionFails(c, how) PROVE SessionInv'
  BY <1>5, ConnectionFailsInv
<1>6. ASSUME NEW c \in DOMAIN web.conns, NEW how \in Hows, NEW normal \in BOOLEAN, ConnectionCloses(c, normal, how)
      PROVE  SessionInv'
  BY <1>6, ConnectionClosesInv
<1>7. ASSUME NEW q \in web.outstanding, NEW ok \in BOOLEAN, SendAnswered(q, ok) PROVE SessionInv'
  BY <1>7, SendAnsweredInv
<1> QED BY <1>1, <1>2, <1>3, <1>4, <1>5, <1>6, <1>7 DEF WebNext, Hows

(* For any retry policy, buffer, delays and number of messages and         *)
(* connections: every message handed to an active session has one final    *)
(* fact, or none and is still pending or live; messages go out in order;   *)
(* and the status node is right (websocket_session_with_options and the    *)
(* driver's callbacks).                                                    *)
THEOREM SessionIsAccounted == WebSpec => []SessionAccounted
<1>1. SessionInv => SessionAccounted
  <2> SUFFICES ASSUME SessionInv, web.active PROVE SessionAccounted
    BY DEF SessionAccounted
  <2>1. Kept(web) /\ StatusOK(web) /\ Accounted(web.pending, web.live, web.next, web.facts)
    BY DEF SessionInv, Kept, Messages
  <2>2. \A q : EndsOf(q) = EndsIn(web.facts, q)
    BY DEF EndsOf, EndsIn
  <2>3. \A q \in 0 .. web.next - 1 : OnceEnded(web.pending, web.live, web.facts, q)
    BY <2>1 DEF Accounted
  <2>4. SendsOrdered(web.facts)
    BY <2>1 DEF Accounted
  <2> QED BY <2>1, <2>2, <2>3, <2>4 DEF SessionAccounted, OnceEnded, SendsOrdered, StatusOK, Kept
<1> QED BY <1>1, SessionStarts, SessionInductive, PTL DEF WebSpec
=============================================================================
