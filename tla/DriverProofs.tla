---------------------------- MODULE DriverProofs ----------------------------
(***************************************************************************)
(* Work that leaves the graph and comes back: a worker's results, however  *)
(* many jobs are in flight and in whatever order they end, the work a      *)
(* source has started in a driver of the environment, and what the time    *)
(* operators send of the values and timers that come to them.              *)
(***************************************************************************)
EXTENDS WorkerDerived, DriverSources, TimeOperators, SequenceTheorems, TLAPS

-----------------------------------------------------------------------------
(* Workers                                                                 *)

Outcome == {"resolved", "value", "error"}
Sent == [by : Nat, what : Outcome]
WorkerNode == [latest : Nat, jobs : SUBSET Nat, cancel : Nat, active : BOOLEAN, ran : BOOLEAN,
               out : Seq(Sent), ended : BOOLEAN]

\* What was sent is about ever newer invocations, none newer than the latest.
OutInOrder ==
    /\ \A i, j \in 1..Len(wk.out) : i < j => wk.out[i].by < wk.out[j].by
    /\ \A i \in 1..Len(wk.out) : wk.out[i].by <= wk.latest

\* The latest job has not answered while it is in flight, and it is the one
\* deactivation cancels.
LatestInFlight ==
    wk.latest \in wk.jobs =>
        wk.active /\ wk.cancel = wk.latest /\ \A i \in 1..Len(wk.out) : wk.out[i].by < wk.latest

\* Once the latest job is not in flight any more, its answer is the last one.
LatestAnswered ==
    wk.ran /\ ~wk.ended /\ wk.latest \notin wk.jobs =>
        wk.out # <<>> /\ wk.out[Len(wk.out)].by = wk.latest

WorkerInv ==
    /\ wk \in WorkerNode /\ (\A g \in wk.jobs : g <= wk.latest)
    /\ OutInOrder /\ LatestInFlight /\ LatestAnswered

(* What was sent, one by one.                                              *)
LEMMA SentOnes ==
    ASSUME NEW q \in Seq(Sent)
    PROVE  Len(q) \in Nat /\ \A i \in 1..Len(q) : q[i] \in Sent /\ q[i].by \in Nat
<1>1. Len(q) \in Nat /\ \A i \in 1..Len(q) : q[i] \in Sent
  OBVIOUS
<1>2. \A x \in Sent : x.by \in Nat
  BY DEF Sent
<1>3. QED
  BY <1>1, <1>2

(* Sending appends to what was sent; an error ends the node.               *)
LEMMA SaysSends ==
    ASSUME NEW w \in WorkerNode, NEW g \in Nat, NEW what \in Outcome
    PROVE  /\ Says(w, g, what) \in WorkerNode
           /\ Says(w, g, what).latest = w.latest /\ Says(w, g, what).jobs = w.jobs
           /\ Says(w, g, what).cancel = w.cancel /\ Says(w, g, what).active = w.active
           /\ Says(w, g, what).ran = w.ran
           /\ Says(w, g, what).out = Append(w.out, [by |-> g, what |-> what])
           /\ Says(w, g, what).ended = (w.ended \/ what = "error")
<1>1. w.out \in Seq(Sent) /\ [by |-> g, what |-> what] \in Sent /\ w.ended \in BOOLEAN
  BY DEF WorkerNode, Sent
<1> DEFINE o == Append(w.out, [by |-> g, what |-> what])
           e == (w.ended \/ what = "error")
<1>2. o \in Seq(Sent) /\ e \in BOOLEAN
  BY <1>1
<1>3. Says(w, g, what) = [w EXCEPT !.out = o, !.ended = e]
  BY DEF Says, WorkerNode
<1> HIDE DEF o, e
<1>4. /\ [w EXCEPT !.out = o, !.ended = e] \in WorkerNode
      /\ [w EXCEPT !.out = o, !.ended = e].latest = w.latest /\ [w EXCEPT !.out = o, !.ended = e].jobs = w.jobs
      /\ [w EXCEPT !.out = o, !.ended = e].cancel = w.cancel /\ [w EXCEPT !.out = o, !.ended = e].active = w.active
      /\ [w EXCEPT !.out = o, !.ended = e].ran = w.ran
      /\ [w EXCEPT !.out = o, !.ended = e].out = o /\ [w EXCEPT !.out = o, !.ended = e].ended = e
  BY <1>2 DEF WorkerNode
<1>5. QED
  BY <1>3, <1>4 DEF o, e

(* What the node has sent after one more answer.                           *)
LEMMA OneMoreSent ==
    ASSUME NEW q \in Seq(Sent), NEW g \in Nat, NEW what \in Outcome,
           \A i, j \in 1..Len(q) : i < j => q[i].by < q[j].by, \A i \in 1..Len(q) : q[i].by < g,
           NEW p, p = Append(q, [by |-> g, what |-> what])
    PROVE  /\ \A i, j \in 1..Len(p) : i < j => p[i].by < p[j].by
           /\ \A i \in 1..Len(p) : p[i].by <= g
           /\ p # <<>> /\ p[Len(p)].by = g
<1> DEFINE s == [by |-> g, what |-> what]
<1>0. s \in Sent
  BY DEF Sent
<1>1. /\ Len(q) \in Nat /\ Len(p) = Len(q) + 1 /\ p[Len(p)] = s
      /\ \A i \in 1..Len(q) : p[i] = q[i] /\ q[i].by \in Nat
  <2> HIDE DEF s
  <2>1. p = Append(q, s)
    BY DEF s
  <2>2. Len(q) \in Nat /\ Len(p) = Len(q) + 1 /\ p[Len(p)] = s /\ \A i \in 1..Len(q) : p[i] = q[i]
    BY <2>1, <1>0
  <2>3. QED
    BY <2>2, SentOnes
<1>2. s.by = g
  OBVIOUS
<1> HIDE DEF s
<1>3. \A i \in 1..Len(p) : i \in 1..Len(q) \/ i = Len(p)
  BY <1>1
<1>4. \A i, j \in 1..Len(p) : i < j => i \in 1..Len(q)
  BY <1>1
<1>5. \A i, j \in 1..Len(p) : i < j => p[i].by < p[j].by
  BY <1>1, <1>2, <1>3, <1>4
<1>6. \A i \in 1..Len(p) : p[i].by <= g
  BY <1>1, <1>2, <1>3
<1>7. p # <<>>
  BY <1>1
<1>8. QED
  BY <1>1, <1>2, <1>5, <1>6, <1>7

(* A run of the node: the number is new, and the cleanup of the run before *)
(* is gone.                                                                *)
LEMMA InvokedNode ==
    ASSUME WorkerInv
    PROVE  /\ Invoked \in WorkerNode /\ wk.latest + 1 \in Nat
           /\ Invoked.latest = wk.latest + 1 /\ Invoked.cancel = NoJob /\ Invoked.ran = TRUE
           /\ Invoked.jobs = wk.jobs /\ Invoked.active = wk.active /\ Invoked.out = wk.out
           /\ Invoked.ended = wk.ended
           /\ wk.latest + 1 \notin wk.jobs /\ (\A g \in wk.jobs : g <= wk.latest + 1)
           /\ \A i \in 1..Len(wk.out) : wk.out[i].by < wk.latest + 1
<1>1. wk.latest \in Nat /\ wk.jobs \in SUBSET Nat /\ wk.out \in Seq(Sent)
  BY DEF WorkerInv, WorkerNode
<1> DEFINE n == wk.latest + 1
<1>2. n \in Nat /\ NoJob \in Nat
  BY <1>1 DEF NoJob
<1>3. Invoked = [wk EXCEPT !.latest = n, !.cancel = NoJob, !.ran = TRUE]
  BY DEF Invoked, WorkerInv, WorkerNode
<1>4. n \notin wk.jobs /\ (\A g \in wk.jobs : g <= n)
  BY <1>1 DEF WorkerInv
<1>5. \A i \in 1..Len(wk.out) : wk.out[i].by < n
  <2>1. \A i \in 1..Len(wk.out) : wk.out[i].by \in Nat
    BY <1>1, SentOnes
  <2>2. QED
    BY <2>1, <1>1 DEF WorkerInv, OutInOrder
<1> HIDE DEF n
<1>6. QED
  BY <1>2, <1>3, <1>4, <1>5 DEF WorkerInv, WorkerNode, n

(* The node settles at once: without a value, or with an error.            *)
LEMMA SettledAtOnce ==
    ASSUME WorkerInv, NEW what \in {"resolved", "error"}, wk' = Says(Invoked, wk.latest + 1, what)
    PROVE  WorkerInv'
<1> DEFINE n == wk.latest + 1
<1>1. Invoked \in WorkerNode /\ n \in Nat /\ n \notin wk.jobs /\ (\A g \in wk.jobs : g <= n)
      /\ \A i \in 1..Len(wk.out) : wk.out[i].by < n
  BY InvokedNode
<1>2. /\ wk' \in WorkerNode /\ wk'.latest = n /\ wk'.jobs = wk.jobs
      /\ wk'.out = Append(wk.out, [by |-> n, what |-> what])
  <2>1. what \in Outcome
    BY DEF Outcome
  <2>2. /\ wk' \in WorkerNode /\ wk'.latest = Invoked.latest /\ wk'.jobs = Invoked.jobs
        /\ wk'.out = Append(Invoked.out, [by |-> n, what |-> what])
    BY <2>1, <1>1, SaysSends
  <2>3. QED
    BY <2>2, InvokedNode
<1> HIDE DEF n
<1>3. wk.out \in Seq(Sent) /\ \A i, j \in 1..Len(wk.out) : i < j => wk.out[i].by < wk.out[j].by
  BY DEF WorkerInv, WorkerNode, OutInOrder
<1>4. /\ \A i, j \in 1..Len(wk'.out) : i < j => wk'.out[i].by < wk'.out[j].by
      /\ \A i \in 1..Len(wk'.out) : wk'.out[i].by <= n
      /\ wk'.out # <<>> /\ wk'.out[Len(wk'.out)].by = n
  <2>1. what \in Outcome
    BY DEF Outcome
  <2> DEFINE p == wk'.out
             q == wk.out
  <2>2. q \in Seq(Sent) /\ p = Append(q, [by |-> n, what |-> what])
    BY <1>2, <1>3
  <2>3. (\A i, j \in 1..Len(q) : i < j => q[i].by < q[j].by) /\ \A i \in 1..Len(q) : q[i].by < n
    BY <1>1, <1>3
  <2> HIDE DEF p, q
  <2>4. /\ \A i, j \in 1..Len(p) : i < j => p[i].by < p[j].by
        /\ \A i \in 1..Len(p) : p[i].by <= n
        /\ p # <<>> /\ p[Len(p)].by = n
    <3>1. n \in Nat
      BY <1>1
    <3>2. QED
      BY SMTT(30), <2>1, <2>2, <2>3, <3>1, OneMoreSent
  <2>5. QED
    BY <2>4 DEF p
<1>5. OutInOrder' /\ LatestInFlight' /\ LatestAnswered'
  BY <1>1, <1>2, <1>4 DEF OutInOrder, LatestInFlight, LatestAnswered
<1>6. QED
  BY <1>1, <1>2, <1>5 DEF WorkerInv

(* The input is handed to a worker.                                        *)
LEMMA InvokeWorkerInv == ASSUME WorkerInv, InvokeWorker PROVE WorkerInv'
<1> DEFINE n == wk.latest + 1
           jobs == wk.jobs \cup {n}
<1>1. /\ Invoked \in WorkerNode /\ n \in Nat /\ (\A g \in wk.jobs : g <= n)
      /\ Invoked.latest = n /\ Invoked.jobs = wk.jobs /\ Invoked.active = wk.active /\ Invoked.out = wk.out
      /\ \A i \in 1..Len(wk.out) : wk.out[i].by < n
  BY InvokedNode
<1>2. wk' = [Invoked EXCEPT !.jobs = jobs, !.cancel = n] /\ wk.active
  BY <1>1 DEF InvokeWorker, CanInvoke, WorkerNode
<1>3. jobs \in SUBSET Nat /\ n \in jobs /\ (\A g \in jobs : g <= n)
  BY <1>1 DEF WorkerInv, WorkerNode
<1>o. wk.out \in Seq(Sent) /\ \A i \in 1..Len(wk.out) : wk.out[i].by \in Nat
  <2>1. wk.out \in Seq(Sent)
    BY DEF WorkerInv, WorkerNode
  <2>2. QED
    BY <2>1, SentOnes
<1> HIDE DEF n, jobs
<1>4. /\ wk' \in WorkerNode /\ wk'.latest = n /\ wk'.jobs = jobs /\ wk'.cancel = n /\ wk'.active = wk.active
      /\ wk'.out = wk.out
  BY <1>1, <1>2, <1>3 DEF WorkerNode
<1>5. OutInOrder'
  BY <1>1, <1>4, <1>o DEF WorkerInv, OutInOrder
<1>6. LatestInFlight' /\ LatestAnswered'
  BY <1>1, <1>2, <1>3, <1>4 DEF LatestInFlight, LatestAnswered
<1>7. QED
  BY <1>3, <1>4, <1>5, <1>6 DEF WorkerInv

(* A job ends; only the latest one is heard.                               *)
LEMMA FinishInv ==
    ASSUME WorkerInv, NEW g \in wk.jobs, NEW what \in {"value", "error"}, Finish(g, what)
    PROVE  WorkerInv'
<1> DEFINE jobs == wk.jobs \ {g}
           w == [wk EXCEPT !.jobs = jobs]
<1>1. wk.jobs \in SUBSET Nat /\ wk.latest \in Nat /\ g \in Nat /\ wk \in WorkerNode
  BY DEF WorkerInv, WorkerNode
<1>2. jobs \in SUBSET Nat /\ g \notin jobs /\ (\A h \in jobs : h <= wk.latest)
  BY <1>1 DEF WorkerInv
<1>3. wk' = IF Current(g) /\ ~wk.ended THEN Says(w, g, what) ELSE w
  BY DEF Finish
<1>n. wk.latest # g => (wk.latest \in jobs <=> wk.latest \in wk.jobs)
  OBVIOUS
<1> HIDE DEF jobs
<1>4. /\ w \in WorkerNode /\ w.latest = wk.latest /\ w.jobs = jobs /\ w.cancel = wk.cancel
      /\ w.active = wk.active /\ w.ran = wk.ran /\ w.out = wk.out /\ w.ended = wk.ended
  BY <1>1, <1>2 DEF WorkerNode
<1> HIDE DEF w
<1>5. CASE Current(g) /\ ~wk.ended
  <2>1. wk.latest = g /\ wk' = Says(w, g, what)
    BY <1>3, <1>5 DEF Current
  <2>2. wk' \in WorkerNode /\ wk'.latest = g /\ wk'.jobs = jobs /\ wk'.out = Append(wk.out, [by |-> g, what |-> what])
    <3>1. what \in Outcome
      BY DEF Outcome
    <3>2. /\ wk' \in WorkerNode /\ wk'.latest = w.latest /\ wk'.jobs = w.jobs
          /\ wk'.out = Append(w.out, [by |-> g, what |-> what])
      BY <3>1, <2>1, <1>1, <1>4, SaysSends
    <3>3. QED
      BY <3>2, <2>1, <1>4
  <2>3. wk.out \in Seq(Sent) /\ \A i, j \in 1..Len(wk.out) : i < j => wk.out[i].by < wk.out[j].by
    BY DEF WorkerInv, WorkerNode, OutInOrder
  <2>4. \A i \in 1..Len(wk.out) : wk.out[i].by < g
    BY <2>1 DEF WorkerInv, LatestInFlight
  <2>5. /\ \A i, j \in 1..Len(wk'.out) : i < j => wk'.out[i].by < wk'.out[j].by
        /\ \A i \in 1..Len(wk'.out) : wk'.out[i].by <= g
        /\ wk'.out # <<>> /\ wk'.out[Len(wk'.out)].by = g
    <3>1. what \in Outcome
      BY DEF Outcome
    <3> DEFINE p == wk'.out
               q == wk.out
    <3>2. q \in Seq(Sent) /\ p = Append(q, [by |-> g, what |-> what])
      BY <2>2, <2>3
    <3>3. (\A i, j \in 1..Len(q) : i < j => q[i].by < q[j].by) /\ \A i \in 1..Len(q) : q[i].by < g
      BY <2>3, <2>4
    <3> HIDE DEF p, q
    <3>4. /\ \A i, j \in 1..Len(p) : i < j => p[i].by < p[j].by
          /\ \A i \in 1..Len(p) : p[i].by <= g
          /\ p # <<>> /\ p[Len(p)].by = g
      BY <3>1, <3>2, <3>3, <1>1, OneMoreSent
    <3>5. QED
      BY <3>4 DEF p
  <2>6. OutInOrder' /\ LatestInFlight' /\ LatestAnswered'
    BY <1>2, <2>2, <2>5 DEF OutInOrder, LatestInFlight, LatestAnswered
  <2>7. QED
    BY <1>2, <2>1, <2>2, <2>6 DEF WorkerInv
<1>6. CASE ~(Current(g) /\ ~wk.ended)
  <2>1. wk' = w /\ (wk.latest # g \/ wk.ended)
    BY <1>3, <1>6 DEF Current
  <2>2. OutInOrder' /\ LatestInFlight' /\ LatestAnswered'
    BY <2>1, <1>2, <1>4, <1>n DEF WorkerInv, OutInOrder, LatestInFlight, LatestAnswered
  <2>3. QED
    BY <2>1, <2>2, <1>2, <1>4 DEF WorkerInv
<1>7. QED
  BY <1>5, <1>6

(* The last sink leaves, or a first one comes.                             *)
LEMMA WatchedInv == ASSUME WorkerInv, Deactivate \/ Activate PROVE WorkerInv'
<1>1. wk \in WorkerNode /\ NoJob \in Nat
  BY DEF WorkerInv, NoJob
<1>2. CASE Deactivate
  <2> DEFINE jobs == wk.jobs \ {wk.cancel}
  <2>1. jobs \in SUBSET Nat /\ (\A g \in jobs : g <= wk.latest) /\ wk.latest \notin jobs
    BY <1>1 DEF WorkerInv, WorkerNode, LatestInFlight
  <2>2. wk' = [wk EXCEPT !.active = FALSE, !.ran = FALSE, !.jobs = jobs, !.cancel = NoJob]
    BY <1>1, <1>2 DEF Deactivate, WorkerNode
  <2> HIDE DEF jobs
  <2>3. /\ wk' \in WorkerNode /\ wk'.latest = wk.latest /\ wk'.jobs = jobs /\ wk'.ran = FALSE /\ wk'.out = wk.out
    BY <1>1, <2>1, <2>2 DEF WorkerNode
  <2>4. OutInOrder' /\ LatestInFlight' /\ LatestAnswered'
    BY <2>1, <2>3 DEF WorkerInv, OutInOrder, LatestInFlight, LatestAnswered
  <2>5. QED
    BY <2>1, <2>3, <2>4 DEF WorkerInv
<1>3. CASE Activate
  <2>1. /\ wk' \in WorkerNode /\ wk'.latest = wk.latest /\ wk'.jobs = wk.jobs /\ wk'.ran = wk.ran /\ wk'.out = wk.out
        /\ wk'.active = TRUE /\ wk'.cancel = wk.cancel /\ wk'.ended = wk.ended
    BY <1>1, <1>3 DEF Activate, WorkerNode
  <2>2. OutInOrder' /\ LatestInFlight' /\ LatestAnswered'
    BY <2>1 DEF WorkerInv, OutInOrder, LatestInFlight, LatestAnswered
  <2>3. QED
    BY <2>1, <2>2 DEF WorkerInv
<1>4. QED
  BY <1>2, <1>3

(* The results a worker node sends are in order and up to date for any     *)
(* number of invocations, however the jobs overtake each other             *)
(* (worker_derived's check of latest_invocation and its cleanup).          *)
THEOREM ResultsAlwaysCurrent == WorkerSpec => []ResultsCurrent
<1>1. WorkerInit => WorkerInv
  <2> SUFFICES ASSUME WorkerInit PROVE WorkerInv
    OBVIOUS
  <2>1. <<>> \in Seq(Sent) /\ 0 \in Nat /\ {} \in SUBSET Nat
    OBVIOUS
  <2>2. wk \in WorkerNode /\ wk.jobs = {} /\ wk.out = <<>> /\ wk.ran = FALSE
    BY <2>1 DEF WorkerInit, WorkerNode, NoJob
  <2>3. QED
    BY <2>2 DEF WorkerInv, OutInOrder, LatestInFlight, LatestAnswered
<1>2. WorkerInv /\ [WorkerNext]_wk => WorkerInv'
  <2> SUFFICES ASSUME WorkerInv, [WorkerNext]_wk PROVE WorkerInv'
    OBVIOUS
  <2>1. CASE InvokeWithoutInput \/ SubmitFails
    BY <2>1, SettledAtOnce DEF InvokeWithoutInput, SubmitFails
  <2>2. CASE UNCHANGED wk
    BY <2>2 DEF WorkerInv, OutInOrder, LatestInFlight, LatestAnswered
  <2>3. QED
    BY <2>1, <2>2, InvokeWorkerInv, FinishInv, WatchedInv DEF WorkerNext
<1>3. WorkerInv => ResultsCurrent
  <2> SUFFICES ASSUME WorkerInv PROVE ResultsCurrent
    OBVIOUS
  <2>1. wk.out \in Seq(Sent)
    BY DEF WorkerInv, WorkerNode
  <2>2. DOMAIN wk.out = 1..Len(wk.out)
    BY <2>1
  <2>3. \A i, j \in DOMAIN wk.out : i < j => wk.out[i].by < wk.out[j].by
    BY <2>2 DEF WorkerInv, OutInOrder
  <2>4. QED
    BY <2>3 DEF WorkerInv, LatestInFlight, LatestAnswered, ResultsCurrent
<1>4. QED
  BY <1>1, <1>2, <1>3, PTL DEF WorkerSpec
-----------------------------------------------------------------------------
(* Sources                                                                 *)

Kinds == Guarded \cup Polled \cup Bare
Wave == {Data, End}
Activation == [flag : BOOLEAN, slot : BOOLEAN, hook : BOOLEAN, cancels : Nat, spent : BOOLEAN,
               head : BOOLEAN, minute : Nat, baseline : BOOLEAN, errors : Nat]
FnCall == [do : {"install", "look"}, i : Nat, sink : {FALSE}]
SendCall == [do : {"send"}, i : Nat, waves : Seq(Wave), checked : BOOLEAN, sink : BOOLEAN]
Call == FnCall \cup SendCall

Source == [kind : Kinds, yields : BOOLEAN, active : BOOLEAN, terminal : BOOLEAN, acts : Seq(Activation),
           calls : Seq(Call), callbacks : Nat, stale : BOOLEAN]

SourcesTypeOK == so \in Source

\* The work of an activation goes on: what tells it depends on the kind of source.
Live(k, a) ==
    \/ k \in Guarded /\ a.flag
    \/ k \in Polled /\ a.slot
    \/ k \in Bare /\ a.hook

\* The driver has not returned the cancel function of an activation yet.
Installing(i) == \E c \in 1..Len(so.calls) : so.calls[c].do = "install" /\ so.calls[c].i = i

\* Work that is over has been cancelled once, unless there is nothing to cancel it with yet.
ActivationOK(k, a, installing) ==
    /\ Live(k, a) => a.hook
    /\ k \in Polled => (a.flag => a.slot)
    /\ IF installing THEN k \in Guarded /\ ~a.slot /\ a.cancels = 0
       ELSE /\ a.cancels = IF Live(k, a) THEN 0 ELSE 1
            /\ k \in Guarded => (a.slot <=> a.flag)

ActivationsOK == \A i \in 1..LastAct : ActivationOK(so.kind, so.acts[i], Installing(i))

\* Only the current activation still has its cleanup.
OneCurrent == \A i \in 1..LastAct : so.acts[i].hook => i = LastAct /\ so.active

\* A source that ended has no work going on.
EndedIsOver == so.terminal /\ so.kind \notin Bare => \A i \in 1..LastAct : ~Live(so.kind, so.acts[i])

\* A source of which every callback sends one wave at most.
Single == so.kind \notin Guarded /\ (so.kind \in Bare => so.yields)

\* What has just been started is on top, and of the current activation; after
\* its first wave a call has no further waves, or asks the flag.
CallOK(c) ==
    LET call == so.calls[c] IN
        /\ call.i \in 1..LastAct
        /\ call.do = "install" => call.i = LastAct
        /\ call.do = "look" => c = Len(so.calls) /\ so.acts[call.i].hook
        /\ call.do = "send" =>
               IF call.checked THEN Single => call.waves = <<>>
               ELSE c = Len(so.calls) /\ so.acts[call.i].hook /\ ~call.sink /\ (Single => Len(call.waves) <= 1)

CallsOK ==
    /\ \A c \in 1..Len(so.calls) : CallOK(c)
    /\ \A c, d \in 1..Len(so.calls) :
           so.calls[c].do \in {"install", "look"} /\ so.calls[d].do \in {"install", "look"} => c = d

SourcesInv ==
    SourcesTypeOK /\ ActivationsOK /\ OneCurrent /\ EndedIsOver /\ CallsOK /\ (so.stale => ~so.yields)
(* The kinds of source are different ones.                                 *)
LEMMA KindsDisjoint ==
    ASSUME NEW k \in Kinds
    PROVE  /\ k \in Guarded => k \notin Polled /\ k \notin Bare
           /\ k \in Polled => k \notin Guarded /\ k \notin Bare
           /\ k \in Bare => k \notin Guarded /\ k \notin Polled
           /\ k \in Guarded \/ k \in Polled \/ k \in Bare
BY DEF Kinds, Guarded, Polled, Bare

\* The fields a callback leaves alone.
Same(s, t) ==
    t.kind = s.kind /\ t.yields = s.yields /\ t.active = s.active /\ t.terminal = s.terminal /\ t.stale = s.stale

(* The values a source is made of.                                         *)
LEMMA SourceTypes ==
    ASSUME NEW s \in Source
    PROVE  /\ s.kind \in Kinds /\ s.acts \in Seq(Activation) /\ s.calls \in Seq(Call) /\ s.callbacks \in Nat
           /\ s.active \in BOOLEAN /\ s.terminal \in BOOLEAN /\ s.stale \in BOOLEAN /\ s.yields \in BOOLEAN
           /\ Len(s.acts) \in Nat /\ \A i \in 1..Len(s.acts) : s.acts[i] \in Activation
           /\ Len(s.calls) \in Nat /\ \A c \in 1..Len(s.calls) : s.calls[c] \in Call
<1>1. /\ s.kind \in Kinds /\ s.acts \in Seq(Activation) /\ s.calls \in Seq(Call) /\ s.callbacks \in Nat
      /\ s.active \in BOOLEAN /\ s.terminal \in BOOLEAN /\ s.stale \in BOOLEAN /\ s.yields \in BOOLEAN
  BY DEF Source
<1>2. /\ Len(s.acts) \in Nat /\ \A i \in 1..Len(s.acts) : s.acts[i] \in Activation
      /\ Len(s.calls) \in Nat /\ \A c \in 1..Len(s.calls) : s.calls[c] \in Call
  BY <1>1
<1>3. QED
  BY <1>1, <1>2

(* Calls of a fn, and calls that send.                                     *)
LEMMA CallTypes ==
    ASSUME NEW call \in Call
    PROVE  /\ call.do \in {"install", "look", "send"} /\ call.i \in Nat /\ call.sink \in BOOLEAN
           /\ call.do # "send" => ~call.sink
           /\ call.do = "send" => call \in SendCall /\ call.waves \in Seq(Wave) /\ call.checked \in BOOLEAN
<1>1. CASE call \in FnCall
  BY <1>1 DEF FnCall
<1>2. CASE call \in SendCall
  BY <1>2 DEF SendCall
<1>3. QED
  BY <1>1, <1>2 DEF Call

(* One activation is replaced.                                             *)
LEMMA SetFields ==
    ASSUME NEW s \in Source, NEW i \in 1..Len(s.acts), NEW a \in Activation
    PROVE  /\ SetActivation(s, i, a) \in Source /\ Same(s, SetActivation(s, i, a))
           /\ SetActivation(s, i, a).calls = s.calls
           /\ SetActivation(s, i, a).acts \in Seq(Activation) /\ Len(SetActivation(s, i, a).acts) = Len(s.acts)
           /\ SetActivation(s, i, a).acts[i] = a
           /\ \A j \in 1..Len(s.acts) : j # i => SetActivation(s, i, a).acts[j] = s.acts[j]
<1> DEFINE q == [s.acts EXCEPT ![i] = a]
<1>0. s.acts \in Seq(Activation)
  BY SourceTypes
<1>1. /\ q \in Seq(Activation) /\ Len(q) = Len(s.acts) /\ q[i] = a
      /\ \A j \in 1..Len(s.acts) : j # i => q[j] = s.acts[j]
  BY <1>0
<1>2. SetActivation(s, i, a) = [s EXCEPT !.acts = q]
  BY DEF SetActivation
<1> HIDE DEF q
<1>3. [s EXCEPT !.acts = q] \in Source /\ Same(s, [s EXCEPT !.acts = q])
      /\ [s EXCEPT !.acts = q].calls = s.calls /\ [s EXCEPT !.acts = q].acts = q
  BY <1>1 DEF Source, Same
<1>4. QED
  BY <1>1, <1>2, <1>3

(* A call begins.                                                          *)
LEMMA PushFields ==
    ASSUME NEW s \in Source, NEW call \in Call
    PROVE  /\ Push(s, call) \in Source /\ Same(s, Push(s, call))
           /\ Push(s, call).acts = s.acts /\ Push(s, call).calls = Append(s.calls, call)
<1> DEFINE q == Append(s.calls, call)
<1>1. q \in Seq(Call)
  BY SourceTypes
<1>2. Push(s, call) = [s EXCEPT !.calls = q]
  BY DEF Push
<1> HIDE DEF q
<1>3. [s EXCEPT !.calls = q] \in Source /\ Same(s, [s EXCEPT !.calls = q])
      /\ [s EXCEPT !.calls = q].acts = s.acts /\ [s EXCEPT !.calls = q].calls = q
  BY <1>1 DEF Source, Same
<1>4. QED
  BY <1>2, <1>3 DEF q

(* The innermost call returns.                                             *)
LEMMA PopFields ==
    ASSUME NEW s \in Source, s.calls # <<>>
    PROVE  /\ Pop(s) \in Source /\ Same(s, Pop(s)) /\ Pop(s).acts = s.acts
           /\ Len(Pop(s).calls) = Len(s.calls) - 1 /\ Pop(s).calls \in Seq(Call)
           /\ \A c \in 1..Len(Pop(s).calls) : Pop(s).calls[c] = s.calls[c] /\ c \in 1..Len(s.calls) /\ c # Len(s.calls)
           /\ \A c \in 1..Len(s.calls) : c \in 1..Len(Pop(s).calls) \/ c = Len(s.calls)
<1> DEFINE q == Front(s.calls)
<1>1. /\ q \in Seq(Call) /\ Len(q) = Len(s.calls) - 1
      /\ \A c \in 1..Len(q) : q[c] = s.calls[c] /\ c \in 1..Len(s.calls) /\ c # Len(s.calls)
      /\ \A c \in 1..Len(s.calls) : c \in 1..Len(q) \/ c = Len(s.calls)
  <2>1. s.calls \in Seq(Call) /\ Len(s.calls) \in Nat /\ Len(s.calls) > 0
    <3>1. s.calls \in Seq(Call)
      BY SourceTypes
    <3>2. QED
      BY <3>1
  <2>2. q = SubSeq(s.calls, 1, Len(s.calls) - 1)
    BY DEF Front
  <2> HIDE DEF q
  <2>3. QED
    BY <2>1, <2>2
<1>2. Pop(s) = [s EXCEPT !.calls = q]
  BY DEF Pop
<1> HIDE DEF q
<1>3. [s EXCEPT !.calls = q] \in Source /\ Same(s, [s EXCEPT !.calls = q])
      /\ [s EXCEPT !.calls = q].acts = s.acts /\ [s EXCEPT !.calls = q].calls = q
  BY <1>1 DEF Source, Same
<1>4. QED
  BY <1>1, <1>2, <1>3
\* A callback changes nothing of an activation that matters here, except that
\* a polled source may fall silent.
Keeps(k, a, b) ==
    /\ b \in Activation /\ b.slot = a.slot /\ b.hook = a.hook /\ b.cancels = a.cancels
    /\ b.flag = a.flag \/ (k \in Polled /\ b.flag = FALSE)

\* An answer that is allowed at an activation.
Sound(a, answer) ==
    Keeps(so.kind, a, answer.act) /\ answer.waves \in Seq(Wave) /\ (Single => Len(answer.waves) <= 1)

(* The waves of an answer.                                                 *)
LEMMA WavesOf ==
    /\ <<>> \in Seq(Wave) /\ Len(<<>>) <= 1
    /\ <<Data>> \in Seq(Wave) /\ Len(<<Data>>) <= 1
    /\ <<End>> \in Seq(Wave) /\ Len(<<End>>) <= 1
    /\ \A n \in Nat : Datas(n) \in Seq(Wave) /\ Len(Datas(n)) = n /\ Append(Datas(n), End) \in Seq(Wave)
<1>1. Data \in Wave /\ End \in Wave
  BY DEF Wave
<1>2. ASSUME NEW n \in Nat PROVE Datas(n) \in Seq(Wave) /\ Len(Datas(n)) = n
  <2>1. Datas(n) \in [1..n -> Wave] /\ Datas(n) = [j \in 1..n |-> Data]
    BY <1>1 DEF Datas
  <2>2. QED
    BY <2>1
<1>3. \A n \in Nat : Append(Datas(n), End) \in Seq(Wave)
  BY <1>1, <1>2
<1>4. QED
  BY <1>1, <1>2, <1>3

(* Fields of an activation that do not matter.                             *)
LEMMA KeepsSelf ==
    ASSUME NEW a \in Activation, NEW k
    PROVE  /\ Keeps(k, a, a)
           /\ \A x \in BOOLEAN : Keeps(k, a, [a EXCEPT !.spent = x]) /\ Keeps(k, a, [a EXCEPT !.head = x])
           /\ \A m \in Nat : Keeps(k, a, [a EXCEPT !.minute = m]) /\ Keeps(k, a, [a EXCEPT !.errors = m])
           /\ \A m \in Nat, x \in BOOLEAN : Keeps(k, a, [a EXCEPT !.errors = m, !.baseline = x])
           /\ k \in Polled => Keeps(k, a, [a EXCEPT !.flag = FALSE])
BY DEF Activation, Keeps

(* Keeping twice is keeping.                                               *)
LEMMA KeepsTwice ==
    ASSUME NEW k, NEW a, NEW b, NEW c, Keeps(k, a, b), Keeps(k, b, c)
    PROVE  Keeps(k, a, c)
BY DEF Keeps

(* What a callback may answer leaves the activation's bookkeeping alone.   *)
LEMMA AnswersSound ==
    ASSUME SourcesTypeOK, NEW a \in Activation, NEW answer \in Answers(a)
    PROVE  Sound(a, answer)
<1>k. so.kind \in Kinds /\ so.yields \in BOOLEAN
  BY SourceTypes DEF SourcesTypeOK
<1>w. ASSUME NEW b, NEW w, answer = Answer(b, w), Keeps(so.kind, a, b), w \in Seq(Wave), Single => Len(w) <= 1
      PROVE  Sound(a, answer)
  <2>1. answer.act = b /\ answer.waves = w
    BY <1>w DEF Answer
  <2>2. QED
    BY <2>1, <1>w DEF Sound
<1>g. so.kind \in Guarded => ~Single
  BY DEF Single
<1>a. a.errors \in Nat /\ a.errors + 1 \in Nat
  BY DEF Activation
<1>1. CASE so.kind = "request"
  BY <1>1, <1>w, WavesOf, KeepsSelf DEF Answers, OneAnswer
<1>2. CASE so.kind = "socket"
  BY <1>2, <1>w, WavesOf, KeepsSelf DEF Answers, Socket
<1>3. CASE so.kind = "http_stream"
  <2>1. so.kind \in Guarded
    BY <1>3 DEF Guarded
  <2>2. answer \in HttpStream(a)
    BY <1>3 DEF Answers
  <2>3. 0..2 \subseteq Nat /\ TRUE \in BOOLEAN
    OBVIOUS
  <2>4. Keeps(so.kind, a, a) /\ Keeps(so.kind, a, [a EXCEPT !.head = TRUE])
    BY <2>3, KeepsSelf
  <2>5. QED
    BY <2>1, <2>2, <2>3, <2>4, <1>w, <1>g, WavesOf DEF HttpStream
<1>4. CASE so.kind = "cron"
  <2>1. PICK m \in Minutes : answer = Answer([a EXCEPT !.minute = m], IF m = a.minute THEN <<>> ELSE <<Data>>)
    BY <1>4 DEF Answers, CronTick
  <2>2. m \in Nat
    BY DEF Minutes
  <2>3. Keeps(so.kind, a, [a EXCEPT !.minute = m])
    BY <2>2, KeepsSelf
  <2>4. QED
    BY <2>1, <2>3, <1>w, WavesOf
<1>5. CASE so.kind = "git"
  <2>1. answer \in PollGitHook(a)
    BY <1>5 DEF Answers
  <2>2. /\ Keeps(so.kind, a, [a EXCEPT !.errors = 0]) /\ Keeps(so.kind, a, [a EXCEPT !.errors = 0, !.baseline = TRUE])
        /\ Keeps(so.kind, a, [a EXCEPT !.errors = a.errors + 1])
    BY <1>a, KeepsSelf
  <2>3. \/ answer = Answer([a EXCEPT !.errors = 0], <<>>)
        \/ answer = Answer([a EXCEPT !.errors = 0, !.baseline = TRUE], IF a.baseline THEN <<Data>> ELSE <<>>)
        \/ answer = Answer([a EXCEPT !.errors = a.errors + 1], IF a.errors + 1 >= MaxConsecutiveErrors THEN <<End>> ELSE <<>>)
    BY <2>1 DEF PollGitHook
  <2>4. QED
    BY <2>2, <2>3, <1>w, WavesOf
<1>6. CASE so.kind = "fs_watch"
  <2>1. answer \in FsWatch(a)
    BY <1>6 DEF Answers
  <2>2. so.kind \in Polled
    BY <1>6 DEF Polled
  <2>3. Keeps(so.kind, a, a) /\ Keeps(so.kind, a, [a EXCEPT !.flag = FALSE])
    BY <2>2, KeepsSelf
  <2>4. \A n \in 0..1 : Datas(n) \in Seq(Wave) /\ Len(Datas(n)) <= 1
    BY WavesOf
  <2>5. QED
    BY <2>1, <2>3, <2>4, <1>w, WavesOf DEF FsWatch
<1>7. CASE so.kind = "interval"
  BY <1>7, <1>w, WavesOf, KeepsSelf DEF Answers, Interval
<1>8. CASE so.kind = "stream"
  <2>1. answer \in StreamLocal(a)
    BY <1>8 DEF Answers
  <2>2. so.kind \in Bare
    BY <1>8 DEF Bare
  <2>3. Keeps(so.kind, a, a) /\ Keeps(so.kind, a, [a EXCEPT !.spent = TRUE])
    BY KeepsSelf
  <2>4. CASE so.yields
    BY <2>1, <2>3, <2>4, <1>w, WavesOf DEF StreamLocal
  <2>5. CASE ~so.yields
    <3>1. ~Single
      BY <2>2, <2>5 DEF Single
    <3>2. PICK n \in 0..2 : answer = Answer([a EXCEPT !.spent = TRUE], Append(Datas(n), End))
      BY <2>1, <2>5 DEF StreamLocal
    <3>3. n \in Nat /\ Append(Datas(n), End) \in Seq(Wave)
      BY WavesOf
    <3>4. QED
      BY <3>1, <3>2, <3>3, <2>3, <1>w
  <2>6. QED
    BY <2>4, <2>5, <1>k
<1>9. CASE so.kind \in {"timer", "future"}
  BY <1>9, <1>w, WavesOf, KeepsSelf DEF Answers, TimerOrFuture
<1>10. QED
  BY <1>1, <1>2, <1>3, <1>4, <1>5, <1>6, <1>7, <1>8, <1>9, <1>k DEF Kinds, Guarded, Polled, Bare

(* The same for the first look of a polled source.                         *)
LEMMA FirstLookSound ==
    ASSUME SourcesTypeOK, NEW a \in Activation, NEW answer \in FirstLook(a)
    PROVE  Sound(a, answer)
<1>1. CASE so.kind = "fs_watch"
  <2>1. \/ answer = Answer(a, <<>>) \/ answer = Answer(a, <<Data>>)
    BY <1>1 DEF FirstLook
  <2>2. Keeps(so.kind, a, a)
    BY KeepsSelf
  <2>3. QED
    BY <2>1, <2>2, WavesOf DEF Sound, Answer
<1>2. CASE so.kind # "fs_watch"
  BY <1>2, AnswersSound DEF FirstLook
<1>3. QED
  BY <1>1, <1>2

(* An answer leaves the promise about the activation as it is.             *)
LEMMA KeptOK ==
    ASSUME NEW k \in Kinds, NEW a \in Activation, NEW b, Keeps(k, a, b), NEW installing \in BOOLEAN
    PROVE  (ActivationOK(k, a, installing) => ActivationOK(k, b, installing)) /\ (Live(k, b) => Live(k, a))
<1>1. Live(k, b) => Live(k, a)
  BY KindsDisjoint DEF Live, Keeps
<1>2. Live(k, a) => Live(k, b)
  BY KindsDisjoint DEF Live, Keeps
<1>3. QED
  BY <1>1, <1>2, KindsDisjoint DEF ActivationOK, Keeps
\* A call that is not one just started.
Aside(call) == call.do # "look" /\ (call.do = "send" => call.checked)

(* What was just started is on top, so what is below has been there.       *)
LEMMA BelowAside ==
    ASSUME SourcesInv, NEW c \in 1..Len(so.calls), c # Len(so.calls) \/ so.calls[c].do = "install" \/ so.calls[c].sink
    PROVE  Aside(so.calls[c])
<1>1. CallOK(c) /\ so.calls[c] \in Call
  BY SourceTypes DEF SourcesInv, CallsOK, SourcesTypeOK
<1>2. QED
  BY <1>1, CallTypes DEF CallOK, Aside

(* When a sink runs, or nothing, no call is just started.                  *)
LEMMA InSinkAside ==
    ASSUME SourcesInv, InSink
    PROVE  \A c \in 1..Len(so.calls) : Aside(so.calls[c])
<1>1. ASSUME NEW c \in 1..Len(so.calls) PROVE Aside(so.calls[c])
  <2>1. CASE c # Len(so.calls)
    BY <2>1, BelowAside
  <2>2. CASE c = Len(so.calls)
    <3>1. so.calls # <<>>
      <4>1. so.calls \in Seq(Call)
        BY SourceTypes DEF SourcesInv, SourcesTypeOK
      <4>2. QED
        BY <4>1
    <3>2. so.calls[c].sink
      BY <3>1, <2>2 DEF InSink, Last
    <3>3. QED
      BY <3>2, BelowAside
  <2>3. QED
    BY <2>1, <2>2
<1>2. QED
  BY <1>1

(* A call that was there before stays sound.                               *)
LEMMA AsideStays ==
    ASSUME NEW c, CallOK(c), Aside(so.calls[c]), so'.calls[c] = so.calls[c],
           LastAct \in Nat, LastAct' \in Nat, LastAct <= LastAct',
           so.calls[c].do = "install" => LastAct' = LastAct,
           so'.kind = so.kind, so'.yields = so.yields
    PROVE  CallOK(c)'
<1>1. Single' = Single
  BY DEF Single
<1>2. so.calls[c].i \in 1..LastAct'
  BY DEF CallOK
<1>3. QED
  BY <1>1, <1>2 DEF CallOK, Aside

(* One more at the end.                                                    *)
LEMMA AppendOne ==
    ASSUME NEW S, NEW q \in Seq(S), NEW x \in S
    PROVE  /\ Append(q, x) \in Seq(S) /\ Len(Append(q, x)) = Len(q) + 1 /\ Append(q, x)[Len(q) + 1] = x
           /\ \A c \in 1..Len(q) : Append(q, x)[c] = q[c]
OBVIOUS

(* The parts of a source after an answer.                                  *)
LEMMA SayFields ==
    ASSUME so \in Source, NEW s \in Source, Same(so, s), s.acts = so.acts, NEW i \in 1..Len(so.acts),
           NEW answer, Keeps(so.kind, so.acts[i], answer.act), answer.waves \in Seq(Wave)
    PROVE  /\ Say(s, i, answer) \in Source /\ Same(so, Say(s, i, answer))
           /\ Len(Say(s, i, answer).acts) = Len(so.acts) /\ Say(s, i, answer).acts[i] = answer.act
           /\ \A j \in 1..Len(so.acts) : j # i => Say(s, i, answer).acts[j] = so.acts[j]
           /\ Say(s, i, answer).calls
                = IF answer.waves = <<>> THEN s.calls ELSE Append(s.calls, Sending(i, answer.waves))
<1> DEFINE told == SetActivation(s, i, answer.act)
           call == Sending(i, answer.waves)
<1>1. answer.act \in Activation /\ i \in Nat
  BY SourceTypes DEF Keeps
<1>2. /\ told \in Source /\ Same(s, told) /\ told.calls = s.calls /\ Len(told.acts) = Len(so.acts)
      /\ told.acts[i] = answer.act /\ \A j \in 1..Len(so.acts) : j # i => told.acts[j] = so.acts[j]
  BY <1>1, SetFields
<1>3. call \in Call
  BY <1>1 DEF Sending, Call, SendCall
<1>4. /\ Push(told, call) \in Source /\ Same(told, Push(told, call)) /\ Push(told, call).acts = told.acts
      /\ Push(told, call).calls = Append(told.calls, call)
  BY <1>2, <1>3, PushFields
<1>5. Say(s, i, answer) = IF answer.waves = <<>> THEN told ELSE Push(told, call)
  BY DEF Say
<1> HIDE DEF told, call
<1>6. Same(so, told) /\ Same(so, Push(told, call))
  BY <1>2, <1>4 DEF Same
<1>7. CASE answer.waves = <<>>
  BY <1>2, <1>5, <1>6, <1>7
<1>8. CASE answer.waves # <<>>
  BY <1>2, <1>4, <1>5, <1>6, <1>8 DEF call
<1>9. QED
  BY <1>7, <1>8

(* An answer of the driver, or of a first look: the waves are yet to send. *)
LEMMA SayInv ==
    ASSUME SourcesInv, so' \in Source, Same(so, so'),
           NEW i \in 1..LastAct, so.acts[i].hook, NEW b, Keeps(so.kind, so.acts[i], b),
           Len(so'.acts) = LastAct, so'.acts[i] = b, \A j \in 1..LastAct : j # i => so'.acts[j] = so.acts[j],
           NEW base \in Seq(Call), Len(base) <= Len(so.calls),
           \A c \in 1..Len(base) : base[c] = so.calls[c] /\ Aside(base[c]),
           \A c \in 1..Len(so.calls) : so.calls[c].do = "install" => c \in 1..Len(base),
           NEW waves \in Seq(Wave), Single => Len(waves) <= 1,
           so'.calls = IF waves = <<>> THEN base ELSE Append(base, Sending(i, waves))
    PROVE  SourcesInv'
<1>t. /\ so \in Source /\ LastAct \in Nat /\ LastAct' = LastAct /\ so.kind \in Kinds
      /\ Len(so.calls) \in Nat /\ Len(base) \in Nat /\ \A j \in 1..LastAct : so.acts[j] \in Activation
  BY SourceTypes DEF SourcesInv, SourcesTypeOK, LastAct
<1>s. so'.kind = so.kind /\ so'.yields = so.yields /\ so'.active = so.active /\ so'.terminal = so.terminal
      /\ so'.stale = so.stale /\ Single' = Single
  BY DEF Same, Single
<1> DEFINE top == Sending(i, waves)
<1>p. /\ top \in Call /\ top.do = "send" /\ top.i = i /\ top.waves = waves /\ top.checked = FALSE /\ top.sink = FALSE
  <2>1. top \in SendCall
    BY <1>t DEF Sending, SendCall
  <2>2. QED
    BY <2>1 DEF Sending, Call
<1>c. /\ Len(so'.calls) \in Nat /\ Len(base) <= Len(so'.calls)
      /\ \A c \in 1..Len(base) : c \in 1..Len(so'.calls) /\ so'.calls[c] = so.calls[c] /\ c \in 1..Len(so.calls)
      /\ \A c \in 1..Len(so'.calls) : c \in 1..Len(base) \/ (so'.calls[c] = top /\ c = Len(so'.calls))
  <2> HIDE DEF top
  <2>1. CASE waves = <<>>
    BY <2>1, <1>t
  <2>2. CASE waves # <<>>
    <3>1. so'.calls = Append(base, top)
      BY <2>2 DEF top
    <3>2. /\ Len(so'.calls) = Len(base) + 1 /\ so'.calls[Len(base) + 1] = top
          /\ \A c \in 1..Len(base) : so'.calls[c] = base[c]
      <4>1. /\ Len(Append(base, top)) = Len(base) + 1 /\ Append(base, top)[Len(base) + 1] = top
            /\ \A c \in 1..Len(base) : Append(base, top)[c] = base[c]
        BY <1>p, AppendOne
      <4>2. QED
        BY <3>1, <4>1
    <3>3. QED
      BY <3>2, <1>t
  <2>3. QED
    BY <2>1, <2>2
<1> HIDE DEF top
<1>n. \A j \in 1..LastAct : Installing(j)' = Installing(j)
  <2>1. ASSUME NEW j \in 1..LastAct, Installing(j) PROVE Installing(j)'
    <3>1. PICK c \in 1..Len(so.calls) : so.calls[c].do = "install" /\ so.calls[c].i = j
      BY <2>1 DEF Installing
    <3>2. QED
      BY <3>1, <1>c DEF Installing
  <2>2. ASSUME NEW j \in 1..LastAct, Installing(j)' PROVE Installing(j)
    <3>1. PICK c \in 1..Len(so'.calls) : so'.calls[c].do = "install" /\ so'.calls[c].i = j
      BY <2>2 DEF Installing
    <3>2. c \in 1..Len(base)
      BY <3>1, <1>c, <1>p
    <3>3. QED
      BY <3>1, <3>2, <1>c DEF Installing
  <2>3. QED
    BY <2>1, <2>2 DEF Installing
<1>a. Keeps(so.kind, so.acts[i], so'.acts[i]) /\ so'.acts[i].hook = so.acts[i].hook
  BY DEF Keeps
<1>1. ActivationsOK'
  <2>1. ASSUME NEW j \in 1..LastAct PROVE ActivationOK(so.kind, so'.acts[j], Installing(j))
    <3>1. ActivationOK(so.kind, so.acts[j], Installing(j)) /\ Installing(j) \in BOOLEAN
      BY DEF SourcesInv, ActivationsOK, Installing
    <3>2. CASE j = i
      BY <3>1, <3>2, <1>a, <1>t, KeptOK
    <3>3. CASE j # i
      BY <3>1, <3>3
    <3>4. QED
      BY <3>2, <3>3
  <2>2. QED
    BY <2>1, <1>n, <1>s, <1>t DEF ActivationsOK
<1>2. OneCurrent'
  BY <1>a, <1>s, <1>t DEF SourcesInv, OneCurrent
<1>3. EndedIsOver'
  <2>1. ASSUME NEW j \in 1..LastAct, Live(so.kind, so'.acts[j]) PROVE Live(so.kind, so.acts[j])
    <3>1. CASE j = i
      <4>1. FALSE \in BOOLEAN
        OBVIOUS
      <4>2. QED
        BY <2>1, <3>1, <4>1, <1>a, <1>t, KeptOK
    <3>2. CASE j # i
      BY <2>1, <3>2
    <3>3. QED
      BY <3>1, <3>2
  <2>2. QED
    BY <2>1, <1>s, <1>t DEF SourcesInv, EndedIsOver
<1>4. CallsOK'
  <2>1. ASSUME NEW c \in 1..Len(so'.calls) PROVE CallOK(c)'
    <3>1. CASE c \in 1..Len(base)
      <4>1. CallOK(c) /\ Aside(so.calls[c]) /\ so'.calls[c] = so.calls[c]
        BY <3>1, <1>c DEF SourcesInv, CallsOK
      <4>2. LastAct' \in Nat /\ LastAct <= LastAct'
        BY <1>t
      <4>3. QED
        BY <4>1, <4>2, <1>t, <1>s, AsideStays
    <3>2. CASE so'.calls[c] = top /\ c = Len(so'.calls)
      BY <3>2, <1>p, <1>a, <1>s, <1>t DEF CallOK
    <3>3. QED
      BY <3>1, <3>2, <1>c
  <2>2. ASSUME NEW c \in 1..Len(so'.calls), NEW d \in 1..Len(so'.calls),
               so'.calls[c].do \in {"install", "look"}, so'.calls[d].do \in {"install", "look"}
        PROVE  c = d
    <3>1. c \in 1..Len(base) /\ d \in 1..Len(base)
      BY <2>2, <1>c, <1>p
    <3>2. QED
      BY <3>1, <2>2, <1>c DEF SourcesInv, CallsOK
  <2>3. QED
    BY <2>1, <2>2 DEF CallsOK
<1>5. QED
  BY <1>1, <1>2, <1>3, <1>4, <1>s DEF SourcesInv, SourcesTypeOK
(* The driver calls back.                                                  *)
LEMMA CallbackInv == ASSUME SourcesInv, NEW i \in DOMAIN so.acts, Callback(i) PROVE SourcesInv'
<1> DEFINE a == so.acts[i]
           s == [so EXCEPT !.callbacks = so.callbacks + 1]
<1>t. /\ so \in Source /\ LastAct \in Nat /\ so.kind \in Kinds /\ i \in 1..LastAct /\ a \in Activation
      /\ so.calls \in Seq(Call) /\ Len(so.calls) \in Nat /\ so.callbacks + 1 \in Nat
  <2>1. so \in Source /\ so.acts \in Seq(Activation)
    BY SourceTypes DEF SourcesInv, SourcesTypeOK
  <2>2. DOMAIN so.acts = 1..LastAct
    BY <2>1 DEF LastAct
  <2>3. QED
    BY <2>1, <2>2, SourceTypes DEF LastAct
<1>1. PICK answer \in Answers(Spent(a)) : so' = Say(s, i, answer)
  BY DEF Callback
<1>2. Keeps(so.kind, a, Spent(a)) /\ Spent(a) \in Activation
  <2>1. (a.spent \/ so.kind \in Once) \in BOOLEAN
    OBVIOUS
  <2> DEFINE x == (a.spent \/ so.kind \in Once)
  <2>2. Spent(a) = [a EXCEPT !.spent = x]
    BY <1>t DEF Spent, Activation
  <2> HIDE DEF x
  <2>3. Keeps(so.kind, a, Spent(a))
    BY ZenonT(30), <2>1, <2>2, <1>t, KeepsSelf DEF x
  <2>4. QED
    BY <2>3 DEF Keeps
<1>3. Sound(Spent(a), answer)
  BY <1>2, AnswersSound DEF SourcesInv
<1>4. Keeps(so.kind, a, answer.act) /\ answer.waves \in Seq(Wave) /\ (Single => Len(answer.waves) <= 1)
  BY <1>2, <1>3, KeepsTwice DEF Sound
<1>5. a.hook
  <2>1. ActivationOK(so.kind, a, Installing(i))
    BY <1>t DEF SourcesInv, ActivationsOK
  <2>2. so.kind \in Bare => a.cancels = 0
    BY DEF Callback
  <2>3. so.kind \in Bare \/ a.flag
    BY DEF Callback, Hears
  <2>4. QED
    BY <2>1, <2>2, <2>3, <1>t, KindsDisjoint DEF ActivationOK, Live
<1>6. s \in Source /\ Same(so, s) /\ s.acts = so.acts /\ s.calls = so.calls
  <2> DEFINE n == so.callbacks + 1
  <2>1. n \in Nat
    BY <1>t
  <2> HIDE DEF n
  <2>2. QED
    BY <2>1, <1>t DEF Source, Same, n
<1>7. \A c \in 1..Len(so.calls) : Aside(so.calls[c])
  <2>1. CASE so.calls = <<>>
    BY <2>1
  <2>2. CASE so.calls # <<>> /\ Last(so.calls).do = "install"
    BY <2>2, BelowAside DEF Last
  <2>3. QED
    BY <2>1, <2>2 DEF Callback
<1> HIDE DEF s, a
<1>8. /\ so' \in Source /\ Same(so, so') /\ Len(so'.acts) = LastAct /\ so'.acts[i] = answer.act
      /\ \A j \in 1..LastAct : j # i => so'.acts[j] = so.acts[j]
      /\ so'.calls = IF answer.waves = <<>> THEN so.calls ELSE Append(so.calls, Sending(i, answer.waves))
  <2>1. Keeps(so.kind, so.acts[i], answer.act) /\ i \in 1..Len(so.acts)
    BY <1>4, <1>t DEF a, LastAct
  <2>2. QED
    BY <2>1, <1>1, <1>4, <1>6, <1>t, SayFields DEF LastAct
<1> DEFINE base == so.calls
<1>9. /\ base \in Seq(Call) /\ Len(base) <= Len(so.calls)
      /\ \A c \in 1..Len(base) : base[c] = so.calls[c] /\ Aside(base[c])
      /\ \A c \in 1..Len(so.calls) : so.calls[c].do = "install" => c \in 1..Len(base)
      /\ so'.calls = IF answer.waves = <<>> THEN base ELSE Append(base, Sending(i, answer.waves))
  BY <1>7, <1>8, <1>t
<1>10. i \in 1..LastAct /\ so.acts[i].hook /\ Keeps(so.kind, so.acts[i], answer.act)
  BY <1>4, <1>5, <1>t DEF a
<1> HIDE DEF base
<1>11. QED
  BY <1>4, <1>8, <1>9, <1>10, SayInv

(* A polled source looks.                                                  *)
LEMMA LookInv == ASSUME SourcesInv, Look PROVE SourcesInv'
<1> DEFINE n == Len(so.calls)
           i == so.calls[n].i
           a == so.acts[i]
<1>t. so \in Source /\ LastAct \in Nat /\ so.calls \in Seq(Call) /\ n \in Nat /\ so.calls # <<>> /\ n \in 1..n
  <2>1. so \in Source /\ so.calls \in Seq(Call) /\ so.calls # <<>>
    BY SourceTypes DEF SourcesInv, SourcesTypeOK, Look
  <2>2. QED
    BY <2>1, SourceTypes DEF LastAct
<1>1. PICK answer \in FirstLook(a) : so' = Say(Pop(so), i, answer)
  BY DEF Look, Last
<1>2. so.calls[n].do = "look" /\ CallOK(n)
  BY <1>t DEF Look, Last, SourcesInv, CallsOK
<1>3. i \in 1..LastAct /\ a.hook
  BY <1>2 DEF CallOK
<1>4. a \in Activation
  BY <1>3, <1>t, SourceTypes DEF LastAct
<1>5. Keeps(so.kind, a, answer.act) /\ answer.waves \in Seq(Wave) /\ (Single => Len(answer.waves) <= 1)
  BY <1>4, FirstLookSound DEF SourcesInv, Sound
<1> DEFINE base == Pop(so).calls
<1>6. /\ Pop(so) \in Source /\ Same(so, Pop(so)) /\ Pop(so).acts = so.acts /\ base \in Seq(Call)
      /\ Len(base) = n - 1
      /\ \A c \in 1..Len(base) : base[c] = so.calls[c] /\ c \in 1..n /\ c # n
      /\ \A c \in 1..n : c \in 1..Len(base) \/ c = n
  BY <1>t, PopFields
<1>7. \A c \in 1..Len(base) : base[c] = so.calls[c] /\ Aside(base[c])
  BY <1>6, BelowAside
<1>8. Len(base) <= Len(so.calls) /\ \A c \in 1..Len(so.calls) : so.calls[c].do = "install" => c \in 1..Len(base)
  <2>1. Len(base) <= Len(so.calls)
    <3>1. \A x \in Nat : x - 1 <= x
      OBVIOUS
    <3>2. QED
      BY <3>1, <1>6, <1>t
  <2>2. \A c \in 1..n : so.calls[c].do = "install" => c \in 1..Len(base)
    <3> HIDE DEF base
    <3>1. QED
      BY <1>2, <1>6
  <2>3. QED
    BY <2>1, <2>2
<1> HIDE DEF a, base, n, i
<1>9. /\ so' \in Source /\ Same(so, so') /\ Len(so'.acts) = LastAct /\ so'.acts[i] = answer.act
      /\ \A j \in 1..LastAct : j # i => so'.acts[j] = so.acts[j]
      /\ so'.calls = IF answer.waves = <<>> THEN base ELSE Append(base, Sending(i, answer.waves))
  <2>1. Keeps(so.kind, so.acts[i], answer.act) /\ i \in 1..Len(so.acts)
    BY <1>3, <1>5 DEF a, LastAct
  <2>2. QED
    <3> DEFINE s == Pop(so)
    <3>1. s \in Source /\ Same(so, s) /\ s.acts = so.acts /\ s.calls = base /\ so' = Say(s, i, answer)
      BY <1>1, <1>6 DEF base
    <3> HIDE DEF s
    <3>2. QED
      BY <3>1, <2>1, <1>5, <1>t, SayFields DEF LastAct
<1>10. so.acts[i].hook /\ Keeps(so.kind, so.acts[i], answer.act)
  BY <1>3, <1>5 DEF a
<1>11. QED
  BY <1>3, <1>5, <1>6, <1>7, <1>8, <1>9, <1>10, SayInv
(* The driver has returned the cancel function.                            *)
LEMMA InstallInv == ASSUME SourcesInv, Install PROVE SourcesInv'
<1> DEFINE n == Len(so.calls)
           i == so.calls[n].i
           a == so.acts[i]
           b == InstallDriverCancel(a)
           s == SetActivation(so, i, b)
<1>t. so \in Source /\ LastAct \in Nat /\ so.kind \in Kinds /\ so.calls # <<>> /\ n \in Nat /\ n \in 1..n
  <2>1. so \in Source /\ so.calls \in Seq(Call) /\ so.calls # <<>>
    BY SourceTypes DEF SourcesInv, SourcesTypeOK, Install
  <2>2. QED
    BY <2>1, SourceTypes DEF LastAct
<1>1. so.calls[n].do = "install" /\ so' = Pop(s)
  BY DEF Install, Last
<1>2. i \in 1..LastAct /\ i = LastAct /\ Installing(i)
  BY <1>1, <1>t DEF SourcesInv, CallsOK, CallOK, Installing
<1>3. a \in Activation /\ ActivationOK(so.kind, a, TRUE)
  <2>1. a \in Activation
    BY <1>2, <1>t, SourceTypes DEF LastAct
  <2>2. ActivationOK(so.kind, a, Installing(i))
    BY <1>2 DEF SourcesInv, ActivationsOK
  <2>3. QED
    BY <2>1, <2>2, <1>2 DEF ActivationOK
<1>4. /\ b \in Activation /\ b.hook = a.hook /\ ActivationOK(so.kind, b, FALSE)
      /\ (Live(so.kind, b) => Live(so.kind, a))
  <2>0. a.cancels = 0 /\ a.cancels + 1 = 1 /\ 1 \in Nat /\ so.kind \in Guarded /\ a.slot = FALSE
    BY <1>3 DEF ActivationOK, Activation
  <2>1. CASE a.flag
    <3>1. b = [a EXCEPT !.slot = TRUE]
      BY <2>1 DEF InstallDriverCancel
    <3>2. b \in Activation /\ b.hook = a.hook /\ b.flag = a.flag /\ b.slot = TRUE /\ b.cancels = 0
      BY <3>1, <2>0, <1>3 DEF Activation
    <3> HIDE DEF b
    <3>3. QED
      BY <3>2, <2>0, <2>1, <1>3, <1>t, KindsDisjoint DEF ActivationOK, Live
  <2>2. CASE ~a.flag
    <3>1. b = [a EXCEPT !.cancels = 1]
      BY <2>0, <2>2, <1>3 DEF InstallDriverCancel, Cancel, Activation
    <3>2. b \in Activation /\ b.hook = a.hook /\ b.flag = a.flag /\ b.slot = FALSE /\ b.cancels = 1
      BY <3>1, <2>0, <1>3 DEF Activation
    <3> HIDE DEF b
    <3>3. QED
      BY <3>2, <2>0, <2>2, <1>3, <1>t, KindsDisjoint DEF ActivationOK, Live
  <2>3. QED
    BY <2>1, <2>2
<1> HIDE DEF b
<1>5. /\ s \in Source /\ Same(so, s) /\ s.calls = so.calls /\ Len(s.acts) = LastAct /\ s.acts[i] = b
      /\ \A j \in 1..LastAct : j # i => s.acts[j] = so.acts[j]
  BY <1>2, <1>4, <1>t, SetFields DEF LastAct
<1> HIDE DEF s
<1>6. /\ so' \in Source /\ Same(s, so') /\ so'.acts = s.acts
      /\ Len(so'.calls) = n - 1
      /\ \A c \in 1..Len(so'.calls) : so'.calls[c] = so.calls[c] /\ c \in 1..n /\ c # n
      /\ \A c \in 1..n : c \in 1..Len(so'.calls) \/ c = n
  BY <1>1, <1>5, <1>t, PopFields
<1>s. /\ so'.kind = so.kind /\ so'.yields = so.yields /\ so'.active = so.active /\ so'.terminal = so.terminal
      /\ so'.stale = so.stale /\ LastAct' = LastAct
  BY <1>5, <1>6 DEF Same, LastAct
<1> HIDE DEF n, i, a
<1>7. \A c \in 1..Len(so'.calls) : so.calls[c].do # "install"
  BY <1>1, <1>6, <1>t DEF SourcesInv, CallsOK, n
<1>8. \A j \in 1..LastAct : Installing(j)' = FALSE /\ (j # i => Installing(j) = FALSE)
  <2>1. ASSUME NEW j \in 1..LastAct PROVE Installing(j)' = FALSE
    BY <1>6, <1>7 DEF Installing
  <2>2. ASSUME NEW j \in 1..LastAct, j # i PROVE Installing(j) = FALSE
    <3>1. \A c \in 1..n : so.calls[c].do = "install" => c = n
      BY <1>1, <1>t DEF SourcesInv, CallsOK, n
    <3>2. QED
      BY <3>1, <2>2 DEF Installing, i, n
  <2>3. QED
    BY <2>1, <2>2
<1>9. ActivationsOK'
  <2>1. ASSUME NEW j \in 1..LastAct PROVE ActivationOK(so.kind, so'.acts[j], FALSE)
    <3>1. CASE j = i
      BY <3>1, <1>4, <1>5, <1>6
    <3>2. CASE j # i
      <4>1. Installing(j) = FALSE /\ so'.acts[j] = so.acts[j]
        BY <3>2, <1>5, <1>6, <1>8
      <4>2. ActivationOK(so.kind, so.acts[j], Installing(j))
        BY DEF SourcesInv, ActivationsOK
      <4>3. QED
        BY <4>1, <4>2
    <3>3. QED
      BY <3>1, <3>2
  <2>2. QED
    BY <2>1, <1>8, <1>s DEF ActivationsOK
<1>10. OneCurrent' /\ EndedIsOver'
  <2>1. \A j \in 1..LastAct : so'.acts[j].hook = so.acts[j].hook /\ (Live(so.kind, so'.acts[j]) => Live(so.kind, so.acts[j]))
    BY <1>4, <1>5, <1>6 DEF a
  <2>2. QED
    BY <2>1, <1>s DEF SourcesInv, OneCurrent, EndedIsOver
<1>11. CallsOK'
  <2>1. ASSUME NEW c \in 1..Len(so'.calls) PROVE CallOK(c)'
    <3>1. CallOK(c) /\ Aside(so.calls[c]) /\ so'.calls[c] = so.calls[c] /\ LastAct <= LastAct' /\ LastAct' \in Nat
      BY <1>6, <1>s, <1>t, BelowAside DEF SourcesInv, CallsOK, n
    <3>2. QED
      BY <3>1, <1>s, <1>t, AsideStays
  <2>2. \A c, d \in 1..Len(so'.calls) :
           so'.calls[c].do \in {"install", "look"} /\ so'.calls[d].do \in {"install", "look"} => c = d
    BY <1>6 DEF SourcesInv, CallsOK, n
  <2>3. QED
    BY <2>1, <2>2 DEF CallsOK
<1>12. QED
  BY <1>6, <1>9, <1>10, <1>11, <1>s DEF SourcesInv, SourcesTypeOK

(* The cleanup of an activation: its work is over.                         *)
LEMMA CleanedUp ==
    ASSUME NEW k \in Kinds, k \notin Bare, NEW a \in Activation, NEW installing \in BOOLEAN, ActivationOK(k, a, installing)
    PROVE  /\ CleanupDriverWork(a) \in Activation /\ CleanupDriverWork(a).hook = a.hook
           /\ ~Live(k, CleanupDriverWork(a)) /\ ActivationOK(k, CleanupDriverWork(a), installing)
<1> DEFINE b == CleanupDriverWork(a)
<1>1. a.cancels \in Nat /\ a.cancels + 1 \in Nat
  BY DEF Activation
<1>2. CASE a.slot
  <2>1. b = [a EXCEPT !.flag = FALSE, !.slot = FALSE, !.cancels = a.cancels + 1]
    BY <1>2 DEF CleanupDriverWork, Cancel, Activation
  <2>2. a.cancels = 0 /\ a.cancels + 1 = 1 /\ ~installing
    BY <1>2, KindsDisjoint DEF ActivationOK, Live
  <2>3. b \in Activation /\ b.hook = a.hook /\ b.flag = FALSE /\ b.slot = FALSE /\ b.cancels = 1
    <3>1. b = [a EXCEPT !.flag = FALSE, !.slot = FALSE, !.cancels = 1]
      BY <2>1, <2>2
    <3> HIDE DEF b
    <3>2. QED
      BY <3>1 DEF Activation
  <2> HIDE DEF b
  <2>4. QED
    BY <2>2, <2>3, KindsDisjoint DEF ActivationOK, Live, b
<1>3. CASE ~a.slot
  <2>1. b = [a EXCEPT !.flag = FALSE, !.slot = FALSE]
    BY <1>3 DEF CleanupDriverWork
  <2>2. b \in Activation /\ b.hook = a.hook /\ b.flag = FALSE /\ b.slot = FALSE /\ b.cancels = a.cancels
    BY <2>1 DEF Activation
  <2> HIDE DEF b
  <2>3. QED
    BY <2>2, <1>3, KindsDisjoint DEF ActivationOK, Live, b
<1>4. QED
  BY <1>2, <1>3
(* The last sink leaves.                                                   *)
LEMMA DeactivateInv == ASSUME SourcesInv, DeactivateSource PROVE SourcesInv'
<1> DEFINE off == [so EXCEPT !.active = FALSE]
<1>t. so \in Source /\ LastAct \in Nat /\ so.kind \in Kinds /\ Len(so.calls) \in Nat
  BY SourceTypes DEF SourcesInv, SourcesTypeOK, LastAct
<1>1. /\ off \in Source /\ off.kind = so.kind /\ off.yields = so.yields /\ off.active = FALSE
      /\ off.terminal = so.terminal /\ off.stale = so.stale /\ off.acts = so.acts /\ off.calls = so.calls
  BY <1>t DEF Source
<1> HIDE DEF off
<1>2. SUFFICES
        /\ so' \in Source /\ so'.kind = so.kind /\ so'.yields = so.yields /\ so'.active = FALSE
        /\ so'.terminal = so.terminal /\ so'.stale = so.stale /\ so'.calls = so.calls /\ LastAct' = LastAct
        /\ \A j \in 1..LastAct : /\ ~so'.acts[j].hook
                                 /\ ActivationOK(so.kind, so'.acts[j], Installing(j))
                                 /\ Live(so.kind, so'.acts[j]) => Live(so.kind, so.acts[j])
  <2>n. \A j \in 1..LastAct : Installing(j)' = Installing(j)
    BY <1>2 DEF Installing
  <2>1. ActivationsOK' /\ OneCurrent' /\ EndedIsOver'
    BY <1>2, <2>n DEF ActivationsOK, OneCurrent, EndedIsOver, SourcesInv
  <2>2. ASSUME NEW c \in 1..Len(so.calls) PROVE CallOK(c)'
    <3>1. CallOK(c) /\ Aside(so.calls[c]) /\ so'.calls[c] = so.calls[c] /\ LastAct <= LastAct' /\ LastAct' \in Nat
      BY <1>2, <1>t, InSinkAside DEF SourcesInv, CallsOK, DeactivateSource
    <3>2. QED
      BY <3>1, <1>2, <1>t, AsideStays
  <2>3. CallsOK'
    BY <2>2, <1>2 DEF SourcesInv, CallsOK
  <2>4. QED
    BY <2>1, <2>3, <1>2 DEF SourcesInv, SourcesTypeOK
<1>o. /\ \A j \in 1..LastAct : so.acts[j] \in Activation /\ ActivationOK(so.kind, so.acts[j], Installing(j))
      /\ \A j \in 1..LastAct : so.acts[j].hook => j = LastAct
  BY <1>t, SourceTypes DEF SourcesInv, ActivationsOK, OneCurrent, LastAct
<1>3. CASE LastAct > 0 /\ so.acts[LastAct].hook
  <2> DEFINE a == so.acts[LastAct]
             h == [a EXCEPT !.hook = FALSE]
             b == Deactivated(a)
  <2>1. so' = SetActivation(off, LastAct, b) /\ LastAct \in 1..LastAct
    BY <1>3, <1>t DEF DeactivateSource, off
  <2>2. a \in Activation /\ ActivationOK(so.kind, a, Installing(LastAct)) /\ Installing(LastAct) \in BOOLEAN
    BY <2>1, <1>o DEF Installing
  <2> DEFINE inst == Installing(LastAct)
  <2>3. h \in Activation /\ h.hook = FALSE /\ h.flag = a.flag /\ h.slot = a.slot /\ h.cancels = a.cancels
    BY <2>2 DEF Activation
  <2> HIDE DEF h, inst
  <2>4. b \in Activation /\ b.hook = FALSE /\ ~Live(so.kind, b) /\ ActivationOK(so.kind, b, inst)
    <3>1. CASE so.kind \in Bare
      <4>1. a.cancels = 0 /\ ~inst /\ a.cancels + 1 = 1
        BY <3>1, <2>2, <1>3, <1>t, KindsDisjoint DEF ActivationOK, Live, inst
      <4>2. b = [h EXCEPT !.cancels = 1]
        BY <3>1, <4>1, <2>3 DEF Deactivated, Cancel, h, Activation
      <4>3. b \in Activation /\ b.hook = FALSE /\ b.cancels = 1
        BY <4>2, <2>3 DEF Activation
      <4> HIDE DEF b
      <4>4. QED
        BY <4>1, <4>3, <3>1, <1>t, KindsDisjoint DEF ActivationOK, Live
    <3>2. CASE so.kind \notin Bare
      <4> DEFINE k == CleanupDriverWork(a)
                 kh == CleanupDriverWork(h)
      <4>1. k \in Activation /\ ~Live(so.kind, k) /\ ActivationOK(so.kind, k, inst)
        BY <3>2, <2>2, <1>t, CleanedUp DEF inst
      <4>2. b = kh
        BY <3>2 DEF Deactivated, h
      <4>3. kh \in Activation /\ kh.hook = FALSE /\ kh.flag = k.flag /\ kh.slot = k.slot /\ kh.cancels = k.cancels
        <5>1. CASE a.slot
          <6> DEFINE m == a.cancels + 1
          <6>1. m \in Nat
            BY <2>2 DEF Activation
          <6>2. kh = [h EXCEPT !.flag = FALSE, !.slot = FALSE, !.cancels = m]
                /\ k = [a EXCEPT !.flag = FALSE, !.slot = FALSE, !.cancels = m]
            BY <5>1, <2>2, <2>3 DEF CleanupDriverWork, Cancel, Activation
          <6> HIDE DEF m, k, kh
          <6>3. kh \in Activation /\ kh.hook = FALSE /\ kh.flag = FALSE /\ kh.slot = FALSE /\ kh.cancels = m
            BY <6>1, <6>2, <2>3 DEF Activation
          <6>4. k.flag = FALSE /\ k.slot = FALSE /\ k.cancels = m
            BY <6>1, <6>2, <2>2 DEF Activation
          <6>5. QED
            BY <6>3, <6>4
        <5>2. CASE ~a.slot
          <6>1. kh = [h EXCEPT !.flag = FALSE, !.slot = FALSE] /\ k = [a EXCEPT !.flag = FALSE, !.slot = FALSE]
            BY <5>2, <2>3 DEF CleanupDriverWork
          <6> HIDE DEF k, kh
          <6>2. QED
            BY <6>1, <2>2, <2>3 DEF Activation
        <5>3. QED
          BY <5>1, <5>2
      <4> HIDE DEF k, kh, b
      <4>4. ~Live(so.kind, kh)
        BY <4>1, <4>3, <3>2, <1>t, KindsDisjoint DEF Live
      <4>5. ActivationOK(so.kind, kh, inst)
        BY <4>1, <4>3, <4>4 DEF ActivationOK
      <4>6. QED
        BY <4>2, <4>3, <4>4, <4>5
    <3>3. QED
      BY <3>1, <3>2
  <2> HIDE DEF b
  <2>5. /\ so' \in Source /\ Same(off, so') /\ so'.calls = so.calls /\ Len(so'.acts) = LastAct
        /\ so'.acts[LastAct] = b /\ \A j \in 1..LastAct : j # LastAct => so'.acts[j] = so.acts[j]
    BY <2>1, <2>4, <1>1, SetFields DEF LastAct
  <2>6. ASSUME NEW j \in 1..LastAct
        PROVE  /\ ~so'.acts[j].hook /\ ActivationOK(so.kind, so'.acts[j], Installing(j))
               /\ Live(so.kind, so'.acts[j]) => Live(so.kind, so.acts[j])
    <3>1. CASE j = LastAct
      BY <3>1, <2>4, <2>5 DEF inst
    <3>2. CASE j # LastAct
      BY <3>2, <2>5, <1>o
    <3>3. QED
      BY <3>1, <3>2
  <2>7. QED
    BY <2>5, <2>6, <1>1 DEF Same, LastAct
<1>4. CASE ~(LastAct > 0 /\ so.acts[LastAct].hook)
  <2>1. so' = off
    BY <1>4 DEF DeactivateSource, off
  <2>2. \A j \in 1..LastAct : ~so.acts[j].hook
    BY <1>4, <1>o, <1>t
  <2>3. QED
    BY <2>1, <2>2, <1>1, <1>o DEF LastAct
<1>5. QED
  BY <1>3, <1>4
(* A source without a driver ends at once.                                 *)
LEMMA MissingInv ==
    ASSUME SourcesInv, InSink, ~so.active, so' = [so EXCEPT !.active = TRUE, !.terminal = TRUE]
    PROVE  SourcesInv'
<1>t. so \in Source /\ LastAct \in Nat
  BY SourceTypes DEF SourcesInv, SourcesTypeOK, LastAct
<1>1. /\ so' \in Source /\ so'.kind = so.kind /\ so'.yields = so.yields /\ so'.active = TRUE
      /\ so'.stale = so.stale /\ so'.acts = so.acts /\ so'.calls = so.calls
  BY <1>t DEF Source
<1>2. LastAct' = LastAct /\ \A j \in 1..LastAct : Installing(j)' = Installing(j)
  BY <1>1 DEF LastAct, Installing
<1>3. \A j \in 1..LastAct : ~so.acts[j].hook /\ ~Live(so.kind, so.acts[j]) /\ ActivationOK(so.kind, so.acts[j], Installing(j))
  BY DEF SourcesInv, OneCurrent, ActivationsOK, ActivationOK
<1>4. ActivationsOK' /\ OneCurrent' /\ EndedIsOver'
  BY <1>1, <1>2, <1>3 DEF ActivationsOK, OneCurrent, EndedIsOver
<1>5. ASSUME NEW c \in 1..Len(so.calls) PROVE CallOK(c)'
  <2>1. CallOK(c) /\ Aside(so.calls[c]) /\ so'.calls[c] = so.calls[c] /\ LastAct <= LastAct' /\ LastAct' \in Nat
    BY <1>1, <1>2, <1>t, InSinkAside DEF SourcesInv, CallsOK
  <2>2. QED
    BY <2>1, <1>1, <1>2, <1>t, AsideStays
<1>6. CallsOK'
  BY <1>1, <1>5 DEF SourcesInv, CallsOK
<1>7. QED
  BY <1>1, <1>4, <1>6 DEF SourcesInv, SourcesTypeOK

(* A first sink comes and the driver is started.                           *)
LEMMA StartedInv ==
    ASSUME SourcesInv, InSink, ~FnRuns, ~so.active, ~so.terminal, so' \in Source,
           so'.kind = so.kind, so'.yields = so.yields, so'.active = TRUE, so'.terminal = so.terminal, so'.stale = so.stale,
           LastAct' = LastAct + 1, \A j \in 1..LastAct : so'.acts[j] = so.acts[j],
           so'.acts[LastAct + 1] = [NewActivation EXCEPT !.slot = so.kind \in Polled],
           NEW what \in {"install", "look"}, NEW call, call = [do |-> what, i |-> LastAct + 1, sink |-> FALSE],
           what = "install" <=> so.kind \in Guarded,
           so'.calls = IF so.kind \in Bare THEN so.calls ELSE Append(so.calls, call)
    PROVE  SourcesInv'
<1> DEFINE n == LastAct + 1
           a == so'.acts[n]
           calls == so.calls
<1>t. so \in Source /\ LastAct \in Nat /\ so.kind \in Kinds /\ calls \in Seq(Call) /\ Len(calls) \in Nat
  BY SourceTypes DEF SourcesInv, SourcesTypeOK, LastAct
<1>n. n \in Nat /\ LastAct' = n /\ n \in 1..n /\ n \notin 1..LastAct /\ LastAct <= n
      /\ \A j \in 1..n : j \in 1..LastAct \/ j = n
  BY <1>t
<1> HIDE DEF n
<1>a. a.flag = TRUE /\ a.hook = TRUE /\ a.cancels = 0 /\ (a.slot <=> so.kind \in Polled)
  BY DEF NewActivation, n
<1> HIDE DEF a
<1>p. call \in Call /\ call.do = what /\ call.i = n /\ call.sink = FALSE
  <2>1. call \in FnCall
    BY <1>n DEF FnCall, n
  <2>2. QED
    BY <2>1 DEF Call, n
<1>c. /\ \A c \in 1..Len(calls) : c \in 1..Len(so'.calls) /\ so'.calls[c] = calls[c]
      /\ \A c \in 1..Len(so'.calls) :
           c \in 1..Len(calls) \/ (so'.calls[c] = call /\ c = Len(so'.calls) /\ so.kind \notin Bare)
      /\ so.kind \notin Bare => Len(so'.calls) \in 1..Len(so'.calls) /\ so'.calls[Len(so'.calls)] = call
      /\ so.kind \in Bare => so'.calls = calls
  <2>1. CASE so.kind \in Bare
    BY <2>1, <1>t
  <2>2. CASE so.kind \notin Bare
    <3>1. so'.calls = Append(calls, call)
      BY <2>2
    <3> HIDE DEF calls
    <3>2. /\ Len(Append(calls, call)) = Len(calls) + 1 /\ Append(calls, call)[Len(calls) + 1] = call
          /\ \A c \in 1..Len(calls) : Append(calls, call)[c] = calls[c]
      BY <1>t, <1>p, AppendOne
    <3>3. QED
      BY <3>1, <3>2, <2>2, <1>t
  <2>3. QED
    BY <2>1, <2>2
<1>f. \A c \in 1..Len(calls) : calls[c].do = "send" /\ Aside(calls[c]) /\ calls[c].i \in 1..LastAct
  <2>1. DOMAIN calls = 1..Len(calls)
    BY <1>t
  <2>2. \A c \in 1..Len(calls) : calls[c] \in Call /\ calls[c].do \notin {"install", "look"}
    BY <2>1, <1>t DEF FnRuns
  <2>3. QED
    BY <2>2, CallTypes, InSinkAside DEF SourcesInv, CallsOK, CallOK
<1> HIDE DEF calls
<1>1. \A j \in 1..LastAct : Installing(j) = FALSE /\ Installing(j)' = FALSE
  <2>1. ASSUME NEW j \in 1..LastAct PROVE Installing(j) = FALSE
    BY <1>f DEF Installing, calls
  <2>2. ASSUME NEW j \in 1..LastAct PROVE Installing(j)' = FALSE
    <3>1. \A c \in 1..Len(so'.calls) : ~(so'.calls[c].do = "install" /\ so'.calls[c].i = j)
      BY <1>f, <1>c, <1>p, <1>n
    <3>2. QED
      BY <3>1 DEF Installing
  <2>3. QED
    BY <2>1, <2>2
<1>2. ASSUME NEW j, j = n PROVE Installing(j)' <=> so.kind \in Guarded
  <2>1. CASE so.kind \in Guarded
    <3>1. so.kind \notin Bare
      BY <2>1, <1>t, KindsDisjoint
    <3>2. \E c \in 1..Len(so'.calls) : so'.calls[c].do = "install" /\ so'.calls[c].i = j
      BY <1>2, <2>1, <3>1, <1>c, <1>p
    <3>3. QED
      BY <2>1, <3>2 DEF Installing
  <2>2. CASE so.kind \notin Guarded
    <3>1. \A c \in 1..Len(so'.calls) : so'.calls[c].do # "install"
      BY <2>2, <1>c, <1>f, <1>p
    <3>2. QED
      BY <2>2, <3>1 DEF Installing
  <2>3. QED
    BY <2>1, <2>2
<1>3. ActivationsOK'
  <2>1. ASSUME NEW j \in 1..n PROVE ActivationOK(so.kind, so'.acts[j], Installing(j)')
    <3>1. CASE j \in 1..LastAct
      <4>1. Installing(j)' = Installing(j) /\ ActivationOK(so.kind, so.acts[j], Installing(j)) /\ so'.acts[j] = so.acts[j]
        BY <3>1, <1>1 DEF SourcesInv, ActivationsOK
      <4>2. QED
        BY <4>1
    <3>2. CASE j = n
      <4>1. Installing(j)' <=> so.kind \in Guarded
        BY <3>2, <1>2
      <4>2. ASSUME NEW x \in BOOLEAN, x <=> so.kind \in Guarded PROVE ActivationOK(so.kind, a, x)
        BY <4>2, <1>a, <1>t, KindsDisjoint DEF ActivationOK, Live
      <4>3. Installing(j)' \in BOOLEAN
        BY DEF Installing
      <4>4. QED
        BY <4>1, <4>2, <4>3, <3>2 DEF a
    <3>3. QED
      BY <3>1, <3>2, <1>n
  <2>2. QED
    BY <2>1, <1>n DEF ActivationsOK
<1>4. OneCurrent' /\ EndedIsOver'
  <2>1. \A j \in 1..LastAct : ~so'.acts[j].hook
    BY DEF SourcesInv, OneCurrent
  <2>2. QED
    BY <2>1, <1>n DEF OneCurrent, EndedIsOver
<1>5. ASSUME NEW c \in 1..Len(so'.calls) PROVE CallOK(c)'
  <2>1. CASE c \in 1..Len(calls)
    <3>1. CallOK(c) /\ Aside(so.calls[c]) /\ so'.calls[c] = so.calls[c] /\ so.calls[c].do # "install"
      BY <2>1, <1>c, <1>f DEF SourcesInv, CallsOK, calls
    <3>2. LastAct' \in Nat /\ LastAct <= LastAct'
      BY <1>n
    <3>3. QED
      BY <3>1, <3>2, <1>t, AsideStays
  <2>2. CASE so'.calls[c] = call /\ c = Len(so'.calls)
    BY <2>2, <1>p, <1>n, <1>a DEF CallOK, a
  <2>3. QED
    BY <2>1, <2>2, <1>c
<1>6. ASSUME NEW c \in 1..Len(so'.calls), NEW d \in 1..Len(so'.calls),
             so'.calls[c].do \in {"install", "look"}, so'.calls[d].do \in {"install", "look"}
      PROVE  c = d
  BY <1>6, <1>c, <1>f
<1>7. QED
  BY <1>3, <1>4, <1>5, <1>6 DEF SourcesInv, SourcesTypeOK, CallsOK

(* A first sink comes.                                                     *)
LEMMA ActivateInv == ASSUME SourcesInv, NEW missing \in BOOLEAN, ActivateSource(missing) PROVE SourcesInv'
<1> DEFINE a == [NewActivation EXCEPT !.slot = so.kind \in Polled]
           q == Append(so.acts, a)
           s == [so EXCEPT !.active = TRUE, !.acts = q]
           call(what) == [do |-> what, i |-> LastAct + 1, sink |-> FALSE]
<1>t. so \in Source /\ LastAct \in Nat /\ so.kind \in Kinds /\ so.acts \in Seq(Activation)
  BY SourceTypes DEF SourcesInv, SourcesTypeOK, LastAct
<1>1. InSink /\ ~FnRuns /\ ~so.active /\ ~so.terminal
  BY DEF ActivateSource
<1>2. CASE missing
  BY <1>1, <1>2, MissingInv DEF ActivateSource
<1>3. CASE ~missing
  <2>1. a \in Activation
    <3> DEFINE x == (so.kind \in Polled)
    <3>1. x \in BOOLEAN
      OBVIOUS
    <3> HIDE DEF x
    <3>2. [NewActivation EXCEPT !.slot = x] \in Activation
      BY <3>1 DEF NewActivation, Activation, NoMinute
    <3>3. QED
      BY <3>2 DEF x
  <2>2. q \in Seq(Activation) /\ Len(q) = LastAct + 1 /\ q[LastAct + 1] = a /\ \A j \in 1..LastAct : q[j] = so.acts[j]
    <3> HIDE DEF a
    <3>1. QED
      BY <2>1, <1>t, AppendOne DEF LastAct
  <2>3. so' = IF so.kind \in Guarded THEN Push(s, call("install"))
              ELSE IF so.kind \in Polled THEN Push(s, call("look")) ELSE s
    <3>1. so' = CASE missing -> [so EXCEPT !.active = TRUE, !.terminal = TRUE]
                  [] ~missing /\ so.kind \in Guarded -> Push(s, call("install"))
                  [] ~missing /\ so.kind \in Polled -> Push(s, call("look"))
                  [] OTHER -> s
      BY DEF ActivateSource
    <3> HIDE DEF s, q, a
    <3>2. CASE so.kind \in Guarded
      <4>1. so.kind \notin Polled
        BY <3>2, <1>t, KindsDisjoint
      <4>2. QED
        BY <1>3, <3>1, <3>2, <4>1
    <3>3. CASE so.kind \in Polled
      <4>1. so.kind \notin Guarded
        BY <3>3, <1>t, KindsDisjoint
      <4>2. QED
        BY <1>3, <3>1, <3>3, <4>1
    <3>4. CASE so.kind \notin Guarded /\ so.kind \notin Polled
      BY <1>3, <3>1, <3>4
    <3>5. QED
      BY <3>2, <3>3, <3>4
  <2> HIDE DEF q
  <2>4. /\ s \in Source /\ s.kind = so.kind /\ s.yields = so.yields /\ s.active = TRUE /\ s.terminal = so.terminal
        /\ s.stale = so.stale /\ s.acts = q /\ s.calls = so.calls
    BY <2>2, <1>t DEF Source
  <2>5. ASSUME NEW what \in {"install", "look"} PROVE call(what) \in Call
    BY <1>t DEF Call, FnCall
  <2> HIDE DEF s
  <2>6. PICK what \in {"install", "look"} : what = "install" <=> so.kind \in Guarded
    OBVIOUS
  <2> DEFINE k == call(what)
  <2>7. k \in Call /\ k = [do |-> what, i |-> LastAct + 1, sink |-> FALSE]
    BY <2>5
  <2>8. so' = IF so.kind \in Bare THEN s ELSE Push(s, k)
    BY <2>3, <2>6, <1>t, KindsDisjoint
  <2> HIDE DEF k
  <2>9. /\ Push(s, k) \in Source /\ Same(s, Push(s, k)) /\ Push(s, k).acts = s.acts /\ Push(s, k).calls = Append(s.calls, k)
    BY <2>4, <2>7, PushFields
  <2>10. /\ so' \in Source /\ so'.kind = so.kind /\ so'.yields = so.yields /\ so'.active = TRUE
         /\ so'.terminal = so.terminal /\ so'.stale = so.stale /\ so'.acts = q
         /\ so'.calls = IF so.kind \in Bare THEN so.calls ELSE Append(so.calls, k)
    BY <2>4, <2>8, <2>9 DEF Same
  <2>11. /\ LastAct' = LastAct + 1 /\ \A j \in 1..LastAct : so'.acts[j] = so.acts[j]
         /\ so'.acts[LastAct + 1] = [NewActivation EXCEPT !.slot = so.kind \in Polled]
    BY <2>10, <2>2 DEF LastAct
  <2>12. QED
    BY <1>1, <2>6, <2>7, <2>10, <2>11, StartedInv
<1>4. QED
  BY <1>2, <1>3
(* A call that has sent everything returns.                                *)
LEMMA PopInv ==
    ASSUME SourcesInv, so.calls # <<>>, so.calls[Len(so.calls)].do = "send", so' = Pop(so)
    PROVE  SourcesInv'
<1> DEFINE n == Len(so.calls)
<1>t. so \in Source /\ LastAct \in Nat /\ n \in Nat
  BY SourceTypes DEF SourcesInv, SourcesTypeOK, LastAct
<1>1. /\ so' \in Source /\ Same(so, so') /\ so'.acts = so.acts
      /\ \A c \in 1..Len(so'.calls) : so'.calls[c] = so.calls[c] /\ c \in 1..n /\ c # n
      /\ \A c \in 1..n : c \in 1..Len(so'.calls) \/ c = n
  BY <1>t, PopFields
<1>s. /\ so'.kind = so.kind /\ so'.yields = so.yields /\ so'.active = so.active /\ so'.terminal = so.terminal
      /\ so'.stale = so.stale /\ LastAct' = LastAct
  BY <1>1 DEF Same, LastAct
<1>2. \A j \in 1..LastAct : Installing(j)' = Installing(j)
  <2>1. ASSUME NEW j \in 1..LastAct, Installing(j) PROVE Installing(j)'
    BY <2>1, <1>1 DEF Installing
  <2>2. ASSUME NEW j \in 1..LastAct, Installing(j)' PROVE Installing(j)
    BY <2>2, <1>1 DEF Installing
  <2>3. QED
    BY <2>1, <2>2 DEF Installing
<1>3. ActivationsOK' /\ OneCurrent' /\ EndedIsOver'
  BY <1>1, <1>2, <1>s DEF SourcesInv, ActivationsOK, OneCurrent, EndedIsOver
<1>4. ASSUME NEW c \in 1..Len(so'.calls) PROVE CallOK(c)'
  <2>1. CallOK(c) /\ Aside(so.calls[c]) /\ so'.calls[c] = so.calls[c] /\ LastAct <= LastAct' /\ LastAct' \in Nat
    BY <1>1, <1>s, <1>t, BelowAside DEF SourcesInv, CallsOK
  <2>2. QED
    BY <2>1, <1>s, <1>t, AsideStays
<1>5. \A c, d \in 1..Len(so'.calls) :
         so'.calls[c].do \in {"install", "look"} /\ so'.calls[d].do \in {"install", "look"} => c = d
  BY <1>1 DEF SourcesInv, CallsOK
<1>6. QED
  BY <1>1, <1>3, <1>4, <1>5, <1>s DEF SourcesInv, SourcesTypeOK, CallsOK

(* A call has sent a wave of the current activation, unless a stream is    *)
(* read without a pause.                                                   *)
LEMMA SentInv ==
    ASSUME SourcesInv, NEW n, n = Len(so.calls), n \in 1..n, NEW i \in 1..LastAct,
           so.calls[n].do = "send", so.calls[n].i = i, ~so.acts[i].hook => ~so.yields /\ so.kind \in Bare,
           NEW k, k.do = "send", k.i = i, k.checked = TRUE, Single => k.waves = <<>>,
           Len(so'.calls) = n, so'.calls[n] = k, \A c \in 1..n : c # n => so'.calls[c] = so.calls[c],
           so' \in Source, so'.kind = so.kind, so'.yields = so.yields, so'.active = so.active, LastAct' = LastAct,
           \A j \in 1..LastAct : j # i => so'.acts[j] = so.acts[j],
           so'.acts[i].hook = so.acts[i].hook, ActivationOK(so.kind, so'.acts[i], Installing(i)),
           Live(so.kind, so'.acts[i]) => Live(so.kind, so.acts[i]),
           so'.terminal => so.terminal \/ so.kind \in Bare \/ ~Live(so.kind, so'.acts[i]),
           so'.stale => so.stale \/ i # LastAct \/ ~so.active
    PROVE  SourcesInv'
<1>t. so \in Source /\ LastAct \in Nat
  BY SourceTypes DEF SourcesInv, SourcesTypeOK, LastAct
<1>n. \A j \in 1..LastAct : Installing(j)' = Installing(j)
  <2>1. \A c \in 1..n : (so'.calls[c].do = "install" <=> so.calls[c].do = "install") /\ so'.calls[c].i = so.calls[c].i
    OBVIOUS
  <2>2. ASSUME NEW j \in 1..LastAct, Installing(j) PROVE Installing(j)'
    <3>1. PICK c \in 1..n : so.calls[c].do = "install" /\ so.calls[c].i = j
      BY <2>2 DEF Installing
    <3>2. QED
      BY <3>1, <2>1 DEF Installing
  <2>3. ASSUME NEW j \in 1..LastAct, Installing(j)' PROVE Installing(j)
    <3>1. PICK c \in 1..n : so'.calls[c].do = "install" /\ so'.calls[c].i = j
      BY <2>3 DEF Installing
    <3>2. QED
      BY <3>1, <2>1 DEF Installing
  <2>4. QED
    BY <2>2, <2>3 DEF Installing
<1>j. \A j \in 1..LastAct : /\ so'.acts[j].hook = so.acts[j].hook
                            /\ ActivationOK(so.kind, so'.acts[j], Installing(j))
                            /\ Live(so.kind, so'.acts[j]) => Live(so.kind, so.acts[j])
  <2>1. ASSUME NEW j \in 1..LastAct, j # i
        PROVE  so'.acts[j] = so.acts[j] /\ ActivationOK(so.kind, so'.acts[j], Installing(j))
    BY <2>1 DEF SourcesInv, ActivationsOK
  <2>2. QED
    BY <2>1
<1>1. ActivationsOK' /\ OneCurrent'
  BY <1>j, <1>n DEF ActivationsOK, OneCurrent, SourcesInv
<1>2. EndedIsOver'
  <2> SUFFICES ASSUME so'.terminal, so.kind \notin Bare PROVE \A j \in 1..LastAct : ~Live(so.kind, so'.acts[j])
    BY DEF EndedIsOver
  <2>1. CASE so.terminal
    BY <2>1, <1>j DEF SourcesInv, EndedIsOver
  <2>2. CASE ~Live(so.kind, so'.acts[i])
    <3>1. i = LastAct
      BY DEF SourcesInv, OneCurrent
    <3>2. ASSUME NEW j \in 1..LastAct, j # i PROVE ~Live(so.kind, so'.acts[j])
      <4>1. ~so.acts[j].hook
        BY <3>1, <3>2 DEF SourcesInv, OneCurrent
      <4>2. ~Live(so.kind, so.acts[j])
        BY <4>1 DEF SourcesInv, ActivationsOK, ActivationOK
      <4>3. QED
        BY <4>2, <1>j
    <3>3. QED
      BY <2>2, <3>2
  <2>3. QED
    BY <2>1, <2>2
<1>3. so'.stale => ~so'.yields
  <2>1. CASE so.stale
    BY <2>1 DEF SourcesInv
  <2>2. CASE i # LastAct \/ ~so.active
    <3>1. ~so.acts[i].hook
      BY <2>2 DEF SourcesInv, OneCurrent
    <3>2. QED
      BY <3>1
  <2>3. QED
    BY <2>1, <2>2
<1>4. ASSUME NEW c \in 1..n PROVE CallOK(c)'
  <2>1. Single' = Single
    BY DEF Single
  <2>2. CASE c = n
    BY <2>1, <2>2 DEF CallOK
  <2>3. CASE c # n
    <3>1. CallOK(c) /\ so'.calls[c] = so.calls[c] /\ LastAct <= LastAct' /\ LastAct' \in Nat
      BY <2>3, <1>t DEF SourcesInv, CallsOK
    <3>2. Aside(so.calls[c])
      BY <2>3, BelowAside
    <3>3. QED
      BY <3>1, <3>2, <1>t, AsideStays
  <2>4. QED
    BY <2>2, <2>3
<1>5. ASSUME NEW c \in 1..n, NEW d \in 1..n,
             so'.calls[c].do \in {"install", "look"}, so'.calls[d].do \in {"install", "look"}
      PROVE  c = d
  <2>1. c # n /\ d # n
    BY <1>5
  <2>2. QED
    BY <2>1, <1>5 DEF SourcesInv, CallsOK
<1>6. QED
  BY <1>1, <1>2, <1>3, <1>4, <1>5 DEF SourcesInv, SourcesTypeOK, CallsOK

\* A wave is sent, and an ending cleans up first.
Sends(n, call, ends, s) ==
    so' = [s EXCEPT !.calls = [so.calls EXCEPT ![n] = AfterWave(call)],
                    !.terminal = so.terminal \/ ends,
                    !.stale = so.stale \/ call.i # LastAct \/ ~so.active]

(* After its only wave nothing is left to send.                            *)
LEMMA OneWave ==
    ASSUME NEW w \in Seq(Wave), w # <<>>, Len(w) <= 1
    PROVE  Tail(w) = <<>>
<1>1. Len(w) = 1
  <2>1. Len(w) \in Nat /\ Len(w) # 0
    OBVIOUS
  <2> DEFINE n == Len(w)
  <2> HIDE DEF n
  <2>2. n \in Nat /\ n # 0 /\ n <= 1
    BY <2>1 DEF n
  <2>3. n = 1
    BY <2>2
  <2>4. QED
    BY <2>3 DEF n
<1>2. Tail(w) \in Seq(Wave) /\ Len(Tail(w)) = 0
  BY <1>1
<1>3. QED
  BY <1>2

(* The parts of a source after a wave.                                     *)
LEMMA SendsFields ==
    ASSUME so \in Source, NEW s \in Source, Same(so, s), NEW n \in 1..Len(so.calls), NEW call \in SendCall,
           call.waves # <<>>, NEW ends \in BOOLEAN, Sends(n, call, ends, s)
    PROVE  /\ so' \in Source /\ so'.kind = so.kind /\ so'.yields = so.yields /\ so'.active = so.active
           /\ so'.acts = s.acts /\ (so'.terminal <=> so.terminal \/ ends)
           /\ so'.stale => so.stale \/ call.i # LastAct \/ ~so.active
           /\ Len(so'.calls) = Len(so.calls) /\ so'.calls[n] = AfterWave(call)
           /\ \A c \in 1..Len(so.calls) : c # n => so'.calls[c] = so.calls[c]
<1> DEFINE k == AfterWave(call)
           q == [so.calls EXCEPT ![n] = k]
           over == (so.terminal \/ ends)
           stale == (so.stale \/ call.i # LastAct \/ ~so.active)
<1>0. k \in Call
  <2> DEFINE w == Tail(call.waves)
  <2>2. w \in Seq(Wave)
    <3>1. call.waves \in Seq(Wave)
      BY DEF SendCall
    <3>2. QED
      BY <3>1
  <2> HIDE DEF w
  <2>3. k = [call EXCEPT !.waves = w, !.checked = TRUE, !.sink = TRUE]
    BY DEF AfterWave, w
  <2>4. k \in SendCall
    BY <2>2, <2>3 DEF SendCall
  <2>5. QED
    BY <2>4 DEF Call
<1> HIDE DEF k
<1>1. q \in Seq(Call) /\ Len(q) = Len(so.calls) /\ q[n] = k /\ \A c \in 1..Len(so.calls) : c # n => q[c] = so.calls[c]
  <2>1. so.calls \in Seq(Call)
    BY SourceTypes
  <2>2. QED
    BY <2>1, <1>0
<1>2. over \in BOOLEAN /\ stale \in BOOLEAN
  OBVIOUS
<1>3. so' = [s EXCEPT !.calls = q, !.terminal = over, !.stale = stale]
  BY DEF Sends, k
<1> HIDE DEF q, over, stale
<1>4. /\ so' \in Source /\ so'.kind = s.kind /\ so'.yields = s.yields /\ so'.active = s.active
      /\ so'.terminal = over /\ so'.stale = stale /\ so'.calls = q /\ so'.acts = s.acts
  BY <1>1, <1>2, <1>3 DEF Source
<1>5. QED
  BY <1>1, <1>4 DEF Same, over, stale, k

(* A call sends its next wave, or returns.                                 *)
LEMMA SendWaveInv == ASSUME SourcesInv, SendWave PROVE SourcesInv'
<1> DEFINE n == Len(so.calls)
           call == so.calls[n]
           i == call.i
           a == so.acts[i]
           ends == Head(call.waves) = End
           silent == call.checked /\ so.kind \in Guarded /\ ~so.acts[i].flag
           b == CleanupDriverWork(a)
           cleans == ends /\ so.kind \notin Bare
           s == IF cleans THEN SetActivation(so, i, b) ELSE so
<1>1. /\ n > 0 /\ call.do = "send"
      /\ so' = IF call.waves = <<>> \/ silent THEN Pop(so)
               ELSE [s EXCEPT !.calls = [so.calls EXCEPT ![n] = AfterWave(call)], !.terminal = so.terminal \/ ends,
                              !.stale = so.stale \/ call.i # LastAct \/ ~so.active]
  BY DEF SendWave
<1>2. so.calls # <<>>
  BY <1>1
<1>3. CASE call.waves = <<>> \/ silent
  BY <1>1, <1>2, <1>3, PopInv
<1>4. CASE ~(call.waves = <<>> \/ silent)
  <2>1. Sends(n, call, ends, s)
    BY <1>1, <1>4 DEF Sends
  <2>2. ends \in BOOLEAN /\ call.waves # <<>> /\ ~silent
    BY <1>4
  <2>t. so \in Source /\ LastAct \in Nat /\ so.kind \in Kinds /\ n \in 1..n /\ call \in Call
    <3>1. so \in Source /\ n \in Nat /\ LastAct \in Nat
      BY SourceTypes DEF SourcesInv, SourcesTypeOK, LastAct
    <3>2. n \in 1..n
      BY <3>1, <1>1
    <3>3. QED
      BY <3>1, <3>2, SourceTypes
  <2>o. CallOK(n) /\ call \in SendCall /\ call.waves \in Seq(Wave) /\ i \in 1..LastAct
    <3>1. CallOK(n)
      BY <2>t DEF SourcesInv, CallsOK
    <3>2. QED
      BY <3>1, <2>t, <1>1, CallTypes DEF CallOK
  <2>a. a \in Activation /\ ActivationOK(so.kind, a, Installing(i)) /\ Installing(i) \in BOOLEAN
    BY <2>o, <2>t, SourceTypes DEF SourcesInv, ActivationsOK, LastAct, Installing
  <2>e. Single => Tail(call.waves) = <<>>
    <3> SUFFICES ASSUME Single PROVE Tail(call.waves) = <<>>
      OBVIOUS
    <3> DEFINE w == call.waves
    <3>1. w \in Seq(Wave) /\ Len(w) <= 1 /\ w # <<>>
      BY <2>o, <2>2, <1>1 DEF CallOK
    <3> HIDE DEF w
    <3>2. Tail(w) = <<>>
      BY <3>1, OneWave
    <3>3. QED
      BY <3>2 DEF w
  <2>h. ~a.hook => ~so.yields /\ so.kind \in Bare
    <3> SUFFICES ASSUME ~a.hook PROVE ~so.yields /\ so.kind \in Bare
      OBVIOUS
    <3>1. call.checked /\ (Single => call.waves = <<>>)
      BY <2>o, <1>1 DEF CallOK
    <3>2. ~Single
      BY <3>1, <2>2
    <3>3. so.kind \notin Guarded
      BY <3>1, <2>2, <2>a DEF ActivationOK, Live
    <3>4. QED
      BY <3>2, <3>3 DEF Single
  <2>k. AfterWave(call).do = "send" /\ AfterWave(call).i = i /\ AfterWave(call).checked = TRUE
        /\ AfterWave(call).waves = Tail(call.waves)
    <3> HIDE DEF call
    <3>1. AfterWave(call).do = call.do /\ AfterWave(call).i = call.i /\ AfterWave(call).checked = TRUE
          /\ AfterWave(call).waves = Tail(call.waves)
      BY <2>o DEF SendCall, AfterWave
    <3>2. QED
      BY <3>1, <1>1
  <2> HIDE DEF call, a, ends, silent, i
  <2>b. so.kind \notin Bare => /\ b \in Activation /\ b.hook = a.hook /\ ~Live(so.kind, b)
                               /\ ActivationOK(so.kind, b, Installing(i))
    BY <2>a, <2>t, CleanedUp
  <2> HIDE DEF b
  <2>s. /\ s \in Source /\ Same(so, s) /\ Len(s.acts) = LastAct
        /\ \A j \in 1..LastAct : j # i => s.acts[j] = so.acts[j]
        /\ s.acts[i].hook = a.hook /\ ActivationOK(so.kind, s.acts[i], Installing(i))
        /\ Live(so.kind, s.acts[i]) => Live(so.kind, a)
        /\ ends => so.kind \in Bare \/ ~Live(so.kind, s.acts[i])
    <3>1. CASE cleans
      <4>1. s = SetActivation(so, i, b) /\ b \in Activation /\ i \in 1..Len(so.acts) /\ Len(so.acts) = LastAct
        BY <3>1, <2>b, <2>o DEF LastAct
      <4> HIDE DEF s
      <4>2. /\ s \in Source /\ Same(so, s) /\ Len(s.acts) = Len(so.acts) /\ s.acts[i] = b
            /\ \A j \in 1..Len(so.acts) : j # i => s.acts[j] = so.acts[j]
        BY <4>1, <2>t, SetFields
      <4>3. QED
        BY <3>1, <4>1, <4>2, <2>b
    <3>2. CASE ~cleans
      BY <3>2, <2>t, <2>a DEF Same, LastAct, a
    <3>3. QED
      BY <3>1, <3>2
  <2> HIDE DEF s
  <2>f. /\ so' \in Source /\ so'.kind = so.kind /\ so'.yields = so.yields /\ so'.active = so.active
        /\ so'.acts = s.acts /\ (so'.terminal <=> so.terminal \/ ends)
        /\ so'.stale => so.stale \/ call.i # LastAct \/ ~so.active
        /\ Len(so'.calls) = n /\ so'.calls[n] = AfterWave(call)
        /\ \A c \in 1..n : c # n => so'.calls[c] = so.calls[c]
    BY <2>1, <2>2, <2>t, <2>o, <2>s, SendsFields
  <2>l. LastAct' = LastAct
    BY <2>f, <2>s DEF LastAct
  <2> DEFINE k == AfterWave(call)
  <2>u. /\ k.do = "send" /\ k.i = i /\ k.checked = TRUE /\ (Single => k.waves = <<>>)
        /\ so.calls[n].do = "send" /\ so.calls[n].i = i /\ (~so.acts[i].hook => ~so.yields /\ so.kind \in Bare)
    BY <2>k, <2>e, <2>h, <1>1 DEF a, i, call
  <2>v. /\ so'.calls[n] = k /\ (\A j \in 1..LastAct : j # i => so'.acts[j] = so.acts[j])
        /\ so'.acts[i].hook = so.acts[i].hook /\ ActivationOK(so.kind, so'.acts[i], Installing(i))
        /\ Live(so.kind, so'.acts[i]) => Live(so.kind, so.acts[i])
        /\ so'.terminal => so.terminal \/ so.kind \in Bare \/ ~Live(so.kind, so'.acts[i])
        /\ so'.stale => so.stale \/ i # LastAct \/ ~so.active
    BY <2>f, <2>s DEF a, i
  <2> DEFINE m == n
  <2>m. /\ m = Len(so.calls) /\ m \in 1..m /\ so.calls[m].do = "send" /\ so.calls[m].i = i /\ so'.calls[m] = k
        /\ Len(so'.calls) = m /\ \A c \in 1..m : c # m => so'.calls[c] = so.calls[c]
    BY <2>f, <2>t, <2>u, <2>v
  <2> HIDE DEF k, m, n
  <2>q. QED
    BY <2>f, <2>l, <2>m, <2>o, <2>u, <2>v, SentInv
<1>5. QED
  BY <1>3, <1>4

(* The invariant of the sources holds.                                     *)
LEMMA SourcesInvariant == SourcesSpec => []SourcesInv
<1>1. SourcesInit => SourcesInv
  <2> SUFFICES ASSUME SourcesInit PROVE SourcesInv
    OBVIOUS
  <2>1. PICK p \in DriverKinds :
          so = [kind |-> p[1], yields |-> p[2], active |-> FALSE, terminal |-> FALSE, acts |-> <<>>, calls |-> <<>>,
                callbacks |-> 0, stale |-> FALSE]
    BY DEF SourcesInit
  <2>2. p[1] \in Kinds /\ p[2] \in BOOLEAN
    BY DriverAssumption DEF Kinds
  <2>3. <<>> \in Seq(Activation) /\ <<>> \in Seq(Call) /\ 0 \in Nat
    OBVIOUS
  <2>4. so \in Source /\ so.acts = <<>> /\ so.calls = <<>> /\ so.stale = FALSE
    BY <2>1, <2>2, <2>3 DEF Source
  <2>5. LastAct = 0 /\ Len(so.calls) = 0
    BY <2>4 DEF LastAct
  <2>6. QED
    BY <2>4, <2>5 DEF SourcesInv, SourcesTypeOK, ActivationsOK, OneCurrent, EndedIsOver, CallsOK
<1>2. SourcesInv /\ [SourcesNext]_so => SourcesInv'
  <2> SUFFICES ASSUME SourcesInv, [SourcesNext]_so PROVE SourcesInv'
    OBVIOUS
  <2>1. CASE UNCHANGED so
    <3>1. LastAct' = LastAct /\ Single' = Single /\ \A j : Installing(j)' = Installing(j)
      BY <2>1 DEF LastAct, Single, Installing
    <3>2. \A c \in 1..Len(so.calls) : CallOK(c)'
      BY <2>1, <3>1 DEF SourcesInv, CallsOK, CallOK
    <3>3. QED
      BY <2>1, <3>1, <3>2 DEF SourcesInv, SourcesTypeOK, ActivationsOK, OneCurrent, EndedIsOver, CallsOK
  <2>2. QED
    BY <2>1, ActivateInv, DeactivateInv, InstallInv, LookInv, SendWaveInv, CallbackInv DEF SourcesNext
<1>3. QED
  BY <1>1, <1>2, PTL DEF SourcesSpec

(* Deactivation stops the work in the driver for good, whatever the kind   *)
(* of source, however many activations follow each other and whenever the  *)
(* driver calls back, before it has returned the cancel function too       *)
(* (on_deactivation, cleanup_driver_work, install_driver_cancel).          *)
THEOREM WorkAlwaysCancelled == SourcesSpec => []WorkCancelled
<1>1. SourcesInv => WorkCancelled
  <2> SUFFICES ASSUME SourcesInv PROVE WorkCancelled
    OBVIOUS
  <2>t. so.acts \in Seq(Activation) /\ so.kind \in Kinds
    BY SourceTypes DEF SourcesInv, SourcesTypeOK
  <2>d. DOMAIN so.acts = 1..LastAct
    BY <2>t DEF LastAct
  <2>1. ASSUME NEW i \in 1..LastAct PROVE so.acts[i].cancels <= 1
    <3>1. so.acts[i].cancels = 0 \/ so.acts[i].cancels = 1
      BY DEF SourcesInv, ActivationsOK, ActivationOK
    <3>2. QED
      BY <3>1
  <2>2. ASSUME NEW i \in 1..LastAct, so.calls = <<>>,
               i < LastAct \/ ~so.active \/ (so.terminal /\ so.kind \notin Bare)
        PROVE  so.acts[i].cancels = 1
    <3>1. ~Installing(i)
      BY <2>2 DEF Installing
    <3>2. ActivationOK(so.kind, so.acts[i], Installing(i))
      BY DEF SourcesInv, ActivationsOK
    <3>3. ~Live(so.kind, so.acts[i])
      <4>1. CASE i < LastAct \/ ~so.active
        <5>1. ~so.acts[i].hook
          <6>1. i < LastAct => i # LastAct
            BY <2>t DEF LastAct
          <6>2. QED
            BY <6>1, <4>1 DEF SourcesInv, OneCurrent
        <5>2. QED
          BY <5>1, <3>2 DEF ActivationOK
      <4>2. CASE so.terminal /\ so.kind \notin Bare
        BY <4>2 DEF SourcesInv, EndedIsOver
      <4>3. QED
        BY <2>2, <4>1, <4>2
    <3>4. QED
      BY <3>1, <3>2, <3>3 DEF ActivationOK
  <2>3. QED
    BY <2>1, <2>2, <2>d DEF WorkCancelled, SourcesInv
<1>2. QED
  BY <1>1, SourcesInvariant, PTL

-----------------------------------------------------------------------------
(* Time operators                                                          *)

TimedKinds == {"throttle", "audit", "shared", "timeout", "buffer"}
Audits == {"audit", "shared"}
Endings == {"no", "complete", "error", "timeout"}

TimedType ==
    [op : TimedKinds, timer : Nat, made : Nat, done : BOOLEAN, latest : Nat, suppress : BOOLEAN,
     buffer : Seq(Nat), batch : Seq(Nat), ends : {"none", "complete", "error"},
     fired : {"no", "fires", "error"}, cached : BOOLEAN, stale : BOOLEAN, paused : BOOLEAN,
     sent : Nat, over : BOOLEAN, out : Seq(Nat) \cup Seq(Seq(Nat)), ended : Endings]

\* buffer_time sends lists, the others values.
OutKind(o) == IF o.op = "buffer" THEN o.out \in Seq(Seq(Nat)) ELSE o.out \in Seq(Nat)

\* What has come and was not given to a run yet.
NextFrom(b, n) == \A i \in 1 .. Len(b) : b[i] = n + i
BatchOK(o) == Len(o.batch) <= o.sent /\ NextFrom(o.batch, Taken(o))

\* An audit holds the last of n values, or has sent it.
Holds(latest, out, n) ==
    IF n = 0 THEN latest = None
    ELSE latest = n \/ (latest = None /\ out # <<>> /\ Last(out) = n)

\* What each operator has made of the first n values.
ThrottleGood(o) == o.op = "throttle" => Len(o.out) = o.made
AuditGood(o, n) ==
    o.op \in Audits => /\ o.ended = "no" => Holds(o.latest, o.out, n)
                       /\ o.ended = "complete" /\ n > 0 => Last(o.out) = n
TimeoutGood(o, n) ==
    /\ o.op = "timeout" => o.out = [i \in 1 .. n |-> i]
    /\ o.ended = "timeout" => o.op = "timeout" /\ ~o.stale
BufferGood(o, n) == o.op = "buffer" /\ o.ended # "error" => Chained(Append(o.out, o.buffer), n)

Good(o, n) == OutKind(o) /\ ThrottleGood(o) /\ AuditGood(o, n) /\ TimeoutGood(o, n) /\ BufferGood(o, n)

\* Only a throttle goes on after its source, until its window closes.
GoesOn(o) == o.over /\ o.ended = "no" => o.op = "throttle" /\ o.timer # None /\ o.done
Fresh(o) == o.op = "timeout" /\ o.ended = "no" => ~o.stale

TimedInv(o) ==
    /\ o \in TimedType /\ BatchOK(o) /\ Good(o, Taken(o))
    /\ o.ends = "none" => GoesOn(o)
    /\ o.batch = <<>> => Fresh(o)
    /\ o.ended # "no" => o.batch = <<>>

\* What a run makes of o.
RanOn(r, o) ==
    /\ r \in TimedType /\ r.op = o.op /\ r.sent = o.sent /\ r.over = o.over
    /\ Good(r, o.sent) /\ GoesOn(r) /\ Fresh(r)

-----------------------------------------------------------------------------
(* The parts of a run.                                                     *)

SameSource(r, o) == r.op = o.op /\ r.sent = o.sent /\ r.over = o.over /\ r.made = o.made /\ r.stale = o.stale

LEMMA EndingKinds == "no" \in Endings /\ "complete" \in Endings /\ "error" \in Endings /\ "timeout" \in Endings
  BY DEF Endings

EndedAs(e, o, how) ==
    /\ e \in TimedType /\ SameSource(e, o) /\ e.ended = how /\ e.out = o.out /\ e.buffer = <<>>
    /\ e.latest = None /\ e.timer = None /\ e.done = o.done

ArmedAs(a, o) ==
    /\ a \in TimedType /\ a.op = o.op /\ a.sent = o.sent /\ a.over = o.over /\ a.made = o.made + 1
    /\ a.out = o.out /\ a.buffer = o.buffer /\ a.latest = o.latest /\ a.timer # None /\ ~a.stale
    /\ a.done = o.done /\ a.ended = o.ended

EmittedAs(e, o, v) ==
    /\ e \in TimedType /\ OutKind(e) /\ SameSource(e, o) /\ e.out = Append(o.out, v) /\ e.out # <<>>
    /\ Last(e.out) = v /\ Len(e.out) = Len(o.out) + 1 /\ e.buffer = o.buffer /\ e.latest = o.latest
    /\ e.timer = o.timer /\ e.done = o.done /\ e.ended = o.ended

LEMMA EndedIs ==
    ASSUME NEW o \in TimedType, NEW how \in Endings, NEW e, e = Ended(o, how)
    PROVE  EndedAs(e, o, how)
<1>1. <<>> \in Seq(Nat) /\ None \in Nat
  BY DEF None
<1> QED BY <1>1 DEF TimedType, Ended, SameSource, EndedAs

LEMMA ArmedIs ==
    ASSUME NEW o \in TimedType, NEW a, a = Armed(o)
    PROVE  ArmedAs(a, o)
<1>1. o.made \in Nat /\ o.made + 1 \in Nat /\ o.made + 1 # None
  BY DEF TimedType, None
<1> QED BY <1>1 DEF TimedType, Armed, ArmedAs

OutItem(o, v) == IF o.op = "buffer" THEN v \in Seq(Nat) ELSE v \in Nat

LEMMA EmittedIs ==
    ASSUME NEW o \in TimedType, OutKind(o), NEW v, OutItem(o, v),
           NEW e, e = Emitted(o, v)
    PROVE  EmittedAs(e, o, v)
<1>1. IF o.op = "buffer" THEN Append(o.out, v) \in Seq(Seq(Nat)) ELSE Append(o.out, v) \in Seq(Nat)
  BY DEF OutKind, OutItem
<1>2. /\ e \in TimedType /\ SameSource(e, o) /\ e.out = Append(o.out, v) /\ e.buffer = o.buffer
      /\ e.latest = o.latest /\ e.timer = o.timer /\ e.done = o.done /\ e.ended = o.ended
  BY <1>1 DEF TimedType, Emitted, SameSource
<1>3. \E S : o.out \in Seq(S) /\ v \in S
  BY DEF OutKind, OutItem
<1>4. PICK S : o.out \in Seq(S) /\ v \in S
  BY <1>3
<1>5. Append(o.out, v) # <<>> /\ Len(Append(o.out, v)) = Len(o.out) + 1 /\ Append(o.out, v)[Len(o.out) + 1] = v
  BY <1>4
<1>6. OutKind(e)
  BY <1>1, <1>2 DEF OutKind, SameSource
<1> QED BY <1>2, <1>5, <1>6 DEF Last, EmittedAs

-----------------------------------------------------------------------------
(* throttle                                                                *)

LEMMA ThrottleRuns ==
    ASSUME NEW o, TimedInv(o), o.op = "throttle", o.ended = "no", NEW r, r = Throttle(o)
    PROVE  RanOn(r, o)
<1>1. o \in TimedType /\ OutKind(o) /\ Len(o.out) = o.made /\ (o.ends = "none" => GoesOn(o))
  BY DEF TimedInv, Good, ThrottleGood
<1> PICK closed : closed = IF Fired(o) THEN [o EXCEPT !.timer = None] ELSE o
  OBVIOUS
<1>2. /\ closed \in TimedType /\ SameSource(closed, o) /\ OutKind(closed) /\ closed.out = o.out /\ closed.done = o.done
      /\ closed.ended = "no"
  BY <1>1 DEF TimedType, SameSource, None, OutKind
<1> PICK opened : opened = IF o.done \/ closed.timer # None \/ o.batch = <<>> THEN closed
                           ELSE Armed(Emitted(closed, Head(o.batch)))
  OBVIOUS
<1>3. /\ opened \in TimedType /\ OutKind(opened) /\ opened.op = o.op /\ opened.sent = o.sent /\ opened.over = o.over
      /\ Len(opened.out) = opened.made /\ opened.ended = "no"
      /\ closed.timer # None => opened.timer # None
  <2>1. CASE o.done \/ closed.timer # None \/ o.batch = <<>>
    BY <2>1, <1>1, <1>2 DEF SameSource
  <2>2. CASE ~(o.done \/ closed.timer # None \/ o.batch = <<>>)
    <3> PICK v : v = Head(o.batch)
      OBVIOUS
    <3>1. v \in Nat /\ closed.op # "buffer"
      <4>1. o.batch \in Seq(Nat) /\ o.batch # <<>>
        BY <2>2, <1>1 DEF TimedType
      <4> QED BY <4>1, <1>2 DEF SameSource
    <3> PICK e : e = Emitted(closed, v)
      OBVIOUS
    <3>0. OutItem(closed, v)
      BY <3>1 DEF OutItem
    <3>2. EmittedAs(e, closed, v)
      BY <3>0, <1>2, EmittedIs
    <3> PICK a : a = Armed(e)
      OBVIOUS
    <3>3. ArmedAs(a, e)
      BY <3>2, ArmedIs DEF EmittedAs
    <3>4. opened = a
      BY <2>2
    <3>5. opened.op = o.op /\ opened.sent = o.sent /\ opened.over = o.over /\ OutKind(opened)
      BY <1>2, <3>2, <3>3, <3>4 DEF SameSource, EmittedAs, ArmedAs, OutKind
    <3>6. Len(opened.out) = opened.made
      BY <1>1, <1>2, <3>2, <3>3, <3>4 DEF SameSource, EmittedAs, ArmedAs
    <3> QED BY <1>2, <3>2, <3>3, <3>4, <3>5, <3>6 DEF EmittedAs, ArmedAs
  <2> QED BY <2>1, <2>2
<1> PICK done : done = (o.done \/ o.ends = "complete")
  OBVIOUS
<1>4. done \in BOOLEAN /\ o.done \in BOOLEAN
  BY <1>1 DEF TimedType
<1>5. CASE o.ends = "error" \/ o.fired = "error"
  <2> PICK d : d = [o EXCEPT !.done = TRUE]
    OBVIOUS
  <2>1. d \in TimedType /\ SameSource(d, o) /\ d.out = o.out
    BY <1>1 DEF TimedType, SameSource
  <2>2. r = Ended(d, "error")
    BY <1>5 DEF Throttle
  <2>3. EndedAs(r, d, "error")
    BY <2>1, <2>2, EndingKinds, EndedIs
  <2> QED BY <1>1, <2>1, <2>3 DEF EndedAs, RanOn, Good, SameSource, OutKind, ThrottleGood, AuditGood, Audits, TimeoutGood, BufferGood, GoesOn, Fresh
<1>6. CASE ~(o.ends = "error" \/ o.fired = "error") /\ done /\ opened.timer = None
  <2> PICK d : d = [opened EXCEPT !.done = TRUE]
    OBVIOUS
  <2>1. d \in TimedType /\ SameSource(d, opened) /\ d.out = opened.out
    BY ZenonT(40), <1>3 DEF TimedType, SameSource
  <2>2. r = Ended(d, "complete")
    BY <1>6 DEF Throttle
  <2>3. EndedAs(r, d, "complete")
    BY <2>1, <2>2, EndingKinds, EndedIs
  <2> QED BY <1>3, <2>1, <2>3 DEF EndedAs, RanOn, Good, SameSource, OutKind, ThrottleGood, AuditGood, Audits, TimeoutGood, BufferGood, GoesOn, Fresh
<1>7. CASE ~(o.ends = "error" \/ o.fired = "error") /\ ~(done /\ opened.timer = None)
  <2>1. r = [opened EXCEPT !.done = done]
    BY <1>7 DEF Throttle
  <2>2. r \in TimedType /\ SameSource(r, opened) /\ r.out = opened.out /\ r.done = done /\ r.timer = opened.timer /\ r.ended = opened.ended
    BY ZenonT(40), <1>3, <1>4, <2>1 DEF TimedType, SameSource
  <2>3. GoesOn(r)
    <3>1. o.over /\ ~done => FALSE
      <4>1. o.ends \in {"none", "complete", "error"}
        BY <1>1 DEF TimedType
      <4> QED BY <1>1, <1>7, <4>1 DEF GoesOn
    <3> QED BY <1>3, <1>7, <2>2, <3>1 DEF GoesOn, SameSource
  <2> QED BY <1>3, <2>2, <2>3 DEF RanOn, Good, SameSource, OutKind, ThrottleGood, AuditGood, Audits, TimeoutGood, BufferGood, Fresh
<1> QED BY <1>5, <1>6, <1>7

-----------------------------------------------------------------------------
(* What has come.                                                          *)

LEMMA BatchFacts ==
    ASSUME NEW o, TimedInv(o)
    PROVE  /\ Taken(o) \in Nat /\ o.sent = Taken(o) + Len(o.batch) /\ o.batch \in Seq(Nat) /\ Len(o.batch) \in Nat
           /\ o.batch = <<>> => Taken(o) = o.sent
           /\ o.batch # <<>> => o.sent \in Nat \ {0} /\ Last(o.batch) = o.sent
<1>1. o.batch \in Seq(Nat) /\ o.sent \in Nat /\ BatchOK(o) /\ Len(o.batch) \in Nat
  BY DEF TimedInv, TimedType
<1>2. Taken(o) \in Nat /\ o.sent = Taken(o) + Len(o.batch)
  BY <1>1 DEF BatchOK, Taken
<1>3. o.batch = <<>> => Taken(o) = o.sent
  BY <1>1, <1>2
<1>4. ASSUME o.batch # <<>> PROVE o.sent \in Nat \ {0} /\ Last(o.batch) = o.sent
  <2>1. Len(o.batch) \in 1 .. Len(o.batch)
    BY <1>1, <1>4
  <2>2. o.batch[Len(o.batch)] = Taken(o) + Len(o.batch)
    BY <1>1, <2>1 DEF BatchOK, NextFrom
  <2> QED BY <1>1, <1>2, <2>1, <2>2 DEF Last
<1> QED BY <1>1, <1>2, <1>3, <1>4

-----------------------------------------------------------------------------
(* audit                                                                   *)

AuditState(c, o, n) ==
    /\ c \in TimedType /\ OutKind(c) /\ c.op = o.op /\ c.sent = o.sent /\ c.over = o.over /\ c.ended = "no"
    /\ Holds(c.latest, c.out, n)

LEMMA AuditRest ==
    ASSUME NEW o, o.op \in Audits, NEW r, r \in TimedType, OutKind(r), r.op = o.op, r.sent = o.sent, r.over = o.over,
           AuditGood(r, o.sent), r.ended # "timeout", r.ended = "no" => ~r.over
    PROVE  RanOn(r, o)
  BY DEF RanOn, Good, ThrottleGood, Audits, TimeoutGood, BufferGood, GoesOn, Fresh

\* An audit's own cells are written, and what it holds is l.
Touched(c, o, l) ==
    /\ c \in TimedType /\ c.op = o.op /\ c.sent = o.sent /\ c.over = o.over /\ c.ended = o.ended
    /\ c.out = o.out /\ c.latest = l

LEMMA WindowCloses ==
    ASSUME NEW o \in TimedType, NEW c, c = [o EXCEPT !.timer = None, !.latest = None, !.suppress = FALSE]
    PROVE  Touched(c, o, None)
<1>1. None \in Nat
  BY DEF None
<1> QED BY <1>1 DEF TimedType, Touched

LEMMA LatestIs ==
    ASSUME NEW o \in TimedType, NEW l \in Nat, NEW c, c = [o EXCEPT !.latest = l]
    PROVE  Touched(c, o, l)
  BY DEF TimedType, Touched

LEMMA SharedOpens ==
    ASSUME NEW o \in TimedType, NEW b \in BOOLEAN, NEW c, c = [o EXCEPT !.timer = 1, !.made = 1, !.suppress = b]
    PROVE  Touched(c, o, o.latest)
  BY DEF TimedType, Touched

LEMMA SuppressIs ==
    ASSUME NEW o \in TimedType, NEW b \in BOOLEAN, NEW c, c = [o EXCEPT !.suppress = b]
    PROVE  Touched(c, o, o.latest)
  BY DEF TimedType, Touched

BaseOf(o) == IF o.latest = None THEN o ELSE Emitted(o, o.latest)
ClosedOf(o) ==
    IF Fired(o) /\ ~o.suppress THEN [BaseOf(o) EXCEPT !.timer = None, !.latest = None, !.suppress = FALSE]
    ELSE [o EXCEPT !.suppress = @ /\ ~Fired(o)]
FilledOf(o) == IF o.batch = <<>> THEN ClosedOf(o) ELSE [ClosedOf(o) EXCEPT !.latest = Last(o.batch)]
FlushOf(f) == IF f.latest = None THEN f ELSE Emitted(f, f.latest)

LEMMA AuditIs ==
    ASSUME NEW o
    PROVE  Audit(o) = IF o.ends = "error" \/ o.fired = "error" THEN Ended(ClosedOf(o), "error")
                      ELSE IF o.ends = "complete" THEN Ended(FlushOf(FilledOf(o)), "complete")
                      ELSE IF FilledOf(o).timer = None /\ o.batch # <<>> THEN Opens(o, FilledOf(o))
                      ELSE FilledOf(o)
  BY DEF Audit, BaseOf, ClosedOf, FilledOf, FlushOf

LEMMA AuditRuns ==
    ASSUME NEW o, TimedInv(o), o.op \in Audits, o.ended = "no", NEW r, r = Audit(o)
    PROVE  RanOn(r, o)
<1>1. /\ o \in TimedType /\ OutKind(o) /\ (o.ends = "none" => ~o.over) /\ Holds(o.latest, o.out, Taken(o))
      /\ o.latest \in Nat /\ o.op # "buffer"
  BY DEF TimedInv, TimedType, Good, AuditGood, Audits, GoesOn
<1> PICK n : n = Taken(o)
  OBVIOUS
<1> PICK closes : closes = (Fired(o) /\ ~o.suppress)
  OBVIOUS
<1> PICK base : base = BaseOf(o)
  OBVIOUS
<1> PICK closed : closed = ClosedOf(o)
  OBVIOUS
<1>c. closed = IF closes THEN [base EXCEPT !.timer = None, !.latest = None, !.suppress = FALSE]
               ELSE [o EXCEPT !.suppress = @ /\ ~Fired(o)]
  BY DEF ClosedOf
<1>b. base = IF o.latest = None THEN o ELSE Emitted(o, o.latest)
  BY DEF BaseOf
<1>2. AuditState(closed, o, n)
  <2>1. CASE ~closes
    <3>1. (o.suppress /\ ~Fired(o)) \in BOOLEAN /\ closed = [o EXCEPT !.suppress = o.suppress /\ ~Fired(o)]
      BY <1>c, <2>1
    <3>2. Touched(closed, o, o.latest)
      BY <1>1, <3>1, SuppressIs
    <3> QED BY <1>1, <3>2 DEF AuditState, Touched, OutKind
  <2>2. CASE closes
    <3>1. /\ base \in TimedType /\ OutKind(base) /\ base.op = o.op /\ base.sent = o.sent /\ base.over = o.over
          /\ base.ended = "no" /\ Holds(None, base.out, n)
      <4>1. CASE o.latest = None
        BY <1>1, <1>b, <4>1 DEF Holds, None
      <4>2. CASE o.latest # None
        <5>1. OutItem(o, o.latest)
          BY <1>1 DEF OutItem
        <5>2. EmittedAs(base, o, o.latest)
          BY <1>1, <1>b, <4>2, <5>1, EmittedIs
        <5>3. n # 0 /\ o.latest = n
          BY <1>1, <4>2 DEF Holds, None
        <5> QED BY <5>2, <5>3 DEF EmittedAs, SameSource, Holds
      <4> QED BY <4>1, <4>2
    <3>2. closed = [base EXCEPT !.timer = None, !.latest = None, !.suppress = FALSE]
      BY <1>c, <2>2
    <3>3. Touched(closed, base, None)
      BY <3>1, <3>2, WindowCloses
    <3> QED BY <3>1, <3>3 DEF AuditState, Touched, OutKind
  <2> QED BY <2>1, <2>2
<1> PICK filled : filled = FilledOf(o)
  OBVIOUS
<1>f. filled = IF o.batch = <<>> THEN closed ELSE [closed EXCEPT !.latest = Last(o.batch)]
  BY DEF FilledOf
<1>3. AuditState(filled, o, o.sent)
  <2>1. CASE o.batch = <<>>
    BY <1>2, <1>f, <2>1, BatchFacts
  <2>2. CASE o.batch # <<>>
    <3>1. o.sent \in Nat \ {0} /\ Last(o.batch) = o.sent
      BY <2>2, BatchFacts
    <3>2. filled = [closed EXCEPT !.latest = o.sent]
      BY <1>f, <2>2, <3>1
    <3>3. closed \in TimedType
      BY <1>2 DEF AuditState
    <3>4. Touched(filled, closed, o.sent)
      BY <3>1, <3>2, <3>3, LatestIs
    <3> QED BY <1>2, <3>1, <3>4 DEF AuditState, Touched, OutKind, Holds
  <2> QED BY <2>1, <2>2
<1>4. CASE o.ends = "error" \/ o.fired = "error"
  <2>1. r = Ended(closed, "error")
    BY <1>4, AuditIs
  <2>2. closed \in TimedType
    BY <1>2 DEF AuditState
  <2>3. EndedAs(r, closed, "error")
    BY <2>1, <2>2, EndingKinds, EndedIs
  <2>4. /\ r \in TimedType /\ OutKind(r) /\ r.op = o.op /\ r.sent = o.sent /\ r.over = o.over
        /\ AuditGood(r, o.sent) /\ r.ended = "error"
    BY <1>2, <2>3 DEF EndedAs, SameSource, AuditState, OutKind, AuditGood
  <2> QED BY <2>4, AuditRest
<1>5. CASE ~(o.ends = "error" \/ o.fired = "error") /\ o.ends = "complete"
  <2> PICK x : x = FlushOf(filled)
    OBVIOUS
  <2>0. x = IF filled.latest = None THEN filled ELSE Emitted(filled, filled.latest)
    BY DEF FlushOf
  <2>1. r = Ended(x, "complete")
    BY <1>5, AuditIs
  <2>2. x \in TimedType /\ OutKind(x) /\ x.op = o.op /\ x.sent = o.sent /\ x.over = o.over /\ (o.sent > 0 => Last(x.out) = o.sent)
    <3>0. o.sent \in Nat
      BY <1>1 DEF TimedType
    <3>1. CASE filled.latest = None
      BY <1>3, <2>0, <3>0, <3>1 DEF AuditState, Holds, None
    <3>2. CASE filled.latest # None
      <4>1. filled \in TimedType /\ OutKind(filled) /\ OutItem(filled, filled.latest)
        BY <1>1, <1>3 DEF AuditState, OutItem, TimedType
      <4>2. EmittedAs(x, filled, filled.latest)
        BY <2>0, <3>2, <4>1, EmittedIs
      <4>3. filled.latest = o.sent
        BY <1>3, <3>2 DEF AuditState, Holds
      <4> QED BY <1>3, <4>2, <4>3 DEF AuditState, EmittedAs, SameSource
    <3> QED BY <3>1, <3>2
  <2>3. EndedAs(r, x, "complete")
    BY <2>1, <2>2, EndingKinds, EndedIs
  <2>4. /\ r \in TimedType /\ OutKind(r) /\ r.op = o.op /\ r.sent = o.sent /\ r.over = o.over
        /\ AuditGood(r, o.sent) /\ r.ended = "complete"
    BY <2>2, <2>3 DEF EndedAs, SameSource, OutKind, AuditGood
  <2> QED BY <2>4, AuditRest
<1>6. CASE ~(o.ends = "error" \/ o.fired = "error") /\ o.ends # "complete"
  <2>1. ~o.over
    <3>1. o.ends \in {"none", "complete", "error"}
      BY <1>1 DEF TimedType
    <3> QED BY <1>1, <1>6, <3>1
  <2>2. r = IF filled.timer = None /\ o.batch # <<>> THEN Opens(o, filled) ELSE filled
    BY <1>6, AuditIs
  <2>3. Touched(r, filled, filled.latest)
    <3>1. filled \in TimedType
      BY <1>3 DEF AuditState
    <3>2. CASE r = filled
      BY <3>1, <3>2 DEF Touched
    <3>3. CASE r = Opens(o, filled) /\ o.op = "shared"
      <4>1. r = [filled EXCEPT !.timer = 1, !.made = 1, !.suppress = Fired(o) /\ ~o.suppress]
        BY <3>3 DEF Opens
      <4>2. (Fired(o) /\ ~o.suppress) \in BOOLEAN
        BY DEF Fired
      <4> QED BY <3>1, <4>1, <4>2, SharedOpens
    <3>4. CASE r = Opens(o, filled) /\ o.op # "shared"
      <4> PICK a : a = Armed(filled)
        OBVIOUS
      <4>1. ArmedAs(a, filled)
        BY <3>1, ArmedIs
      <4>2. r = [a EXCEPT !.suppress = FALSE]
        BY <3>4 DEF Opens
      <4>3. Touched(r, a, a.latest)
        BY <4>1, <4>2, SuppressIs DEF ArmedAs
      <4> QED BY <4>1, <4>3 DEF ArmedAs, Touched
    <3> QED BY <2>2, <3>2, <3>3, <3>4
  <2>4. /\ OutKind(r) /\ r.op = o.op /\ r.sent = o.sent /\ r.over = o.over /\ AuditGood(r, o.sent) /\ r.ended = "no" /\ ~r.over
    BY <1>3, <2>1, <2>3 DEF AuditState, Touched, OutKind, AuditGood
  <2>5. r \in TimedType
    BY <2>3 DEF Touched
  <2> QED BY <2>4, <2>5, AuditRest
<1> QED BY <1>4, <1>5, <1>6

-----------------------------------------------------------------------------
(* timeout                                                                 *)

LEMMA Counted ==
    ASSUME NEW n \in Nat, NEW b \in Seq(Nat), NextFrom(b, n)
    PROVE  [i \in 1 .. n |-> i] \o b = [i \in 1 .. n + Len(b) |-> i]
<1> PICK a : a = [i \in 1 .. n |-> i]
  OBVIOUS
<1>1. a \in Seq(Nat) /\ Len(a) = n /\ \A i \in 1 .. n : a[i] = i
  OBVIOUS
<1>2. Len(b) \in Nat
  OBVIOUS
<1>3. a \o b = [i \in 1 .. n + Len(b) |-> IF i <= n THEN a[i] ELSE b[i - n]]
  BY <1>1, <1>2
<1>4. ASSUME NEW i \in 1 .. n + Len(b) PROVE (IF i <= n THEN a[i] ELSE b[i - n]) = i
  <2>1. CASE i <= n
    BY <1>1, <2>1
  <2>2. CASE ~(i <= n)
    <3>1. i - n \in 1 .. Len(b)
      BY <1>2, <2>2
    <3>2. b[i - n] = n + (i - n)
      BY <3>1 DEF NextFrom
    <3> QED BY <2>2, <3>2
  <2> QED BY <2>1, <2>2
<1> QED BY <1>3, <1>4

SentAs(c, o, f) == c \in TimedType /\ SameSource(c, o) /\ c.out = f /\ c.ended = o.ended

LEMMA OutIs ==
    ASSUME NEW o \in TimedType, NEW f \in Seq(Nat), NEW c, c = [o EXCEPT !.out = f]
    PROVE  SentAs(c, o, f)
  BY DEF TimedType, SameSource, SentAs

LEMMA TimeoutRest ==
    ASSUME NEW o, o.op = "timeout", NEW r, r \in TimedType, r.op = o.op, r.sent = o.sent, r.over = o.over,
           r.out = [i \in 1 .. o.sent |-> i], r.out \in Seq(Nat), r.ended = "timeout" => ~r.stale,
           r.ended = "no" => ~r.over /\ ~r.stale
    PROVE  RanOn(r, o)
  BY DEF RanOn, Good, OutKind, ThrottleGood, AuditGood, Audits, TimeoutGood, BufferGood, GoesOn, Fresh

LEMMA TimeoutRuns ==
    ASSUME NEW o, TimedInv(o), o.op = "timeout", o.ended = "no", NEW r, r = Timeout(o)
    PROVE  RanOn(r, o)
<1>1. /\ o \in TimedType /\ (o.ends = "none" => ~o.over) /\ o.out = [i \in 1 .. Taken(o) |-> i]
      /\ o.ends \in {"none", "complete", "error"} /\ (o.batch = <<>> => ~o.stale)
      /\ NextFrom(o.batch, Taken(o))
  BY DEF TimedInv, TimedType, Good, TimeoutGood, GoesOn, BatchOK, Fresh
<1> PICK f : f = o.out \o o.batch
  OBVIOUS
<1>2. Taken(o) \in Nat /\ o.sent = Taken(o) + Len(o.batch) /\ o.batch \in Seq(Nat) /\ o.sent \in Nat
  BY <1>1, BatchFacts DEF TimedType
<1>3. f = [i \in 1 .. o.sent |-> i]
  <2>1. [i \in 1 .. Taken(o) |-> i] \o o.batch = [i \in 1 .. Taken(o) + Len(o.batch) |-> i]
    BY <1>1, <1>2, Counted
  <2> QED BY <1>1, <1>2, <2>1
<1>4. f \in Seq(Nat)
  BY <1>2, <1>3
<1> PICK x : x = [o EXCEPT !.out = f]
  OBVIOUS
<1>5. x \in TimedType /\ SameSource(x, o) /\ x.out = f /\ x.ended = "no"
  <2>1. SentAs(x, o, f)
    BY <1>1, <1>4, OutIs
  <2> QED BY <2>1 DEF SentAs
<1>6. r = IF o.ends # "none" THEN Ended(x, o.ends)
          ELSE IF o.batch # <<>> THEN Armed(x)
          ELSE IF o.fired = "error" THEN Ended(x, "error")
          ELSE IF Fired(o) THEN Ended(x, "timeout")
          ELSE x
  BY DEF Timeout
<1>7. CASE \E how \in {"complete", "error", "timeout"} : r = Ended(x, how) /\ (how = "timeout" => ~o.stale)
  <2>1. PICK how \in {"complete", "error", "timeout"} : r = Ended(x, how) /\ (how = "timeout" => ~o.stale)
    BY <1>7
  <2>2. how \in Endings
    BY DEF Endings
  <2>3. EndedAs(r, x, how)
    BY <1>5, <2>1, <2>2, EndedIs
  <2>4. /\ r \in TimedType /\ r.op = o.op /\ r.sent = o.sent /\ r.over = o.over /\ r.out = f /\ r.ended = how
        /\ r.stale = o.stale
    BY <1>5, <2>3 DEF EndedAs, SameSource
  <2> QED BY <1>3, <1>4, <2>1, <2>4, TimeoutRest
<1>8. CASE o.ends = "none" /\ r = Armed(x)
  <2>1. ArmedAs(r, x)
    BY <1>5, <1>8, ArmedIs
  <2>2. /\ r \in TimedType /\ r.op = o.op /\ r.sent = o.sent /\ r.over = o.over /\ r.out = f /\ r.ended = "no"
        /\ ~r.stale /\ ~r.over
    BY <1>1, <1>5, <1>8, <2>1 DEF ArmedAs, SameSource
  <2> QED BY <1>3, <1>4, <2>2, TimeoutRest
<1>9. CASE o.ends = "none" /\ o.batch = <<>> /\ r = x
  <2>1. /\ r \in TimedType /\ r.op = o.op /\ r.sent = o.sent /\ r.over = o.over /\ r.out = f /\ r.ended = "no"
        /\ ~r.stale /\ ~r.over
    BY <1>1, <1>5, <1>9 DEF SameSource
  <2> QED BY <1>3, <1>4, <2>1, TimeoutRest
<1>10. \/ \E how \in {"complete", "error", "timeout"} : r = Ended(x, how) /\ (how = "timeout" => ~o.stale)
       \/ o.ends = "none" /\ r = Armed(x)
       \/ o.ends = "none" /\ o.batch = <<>> /\ r = x
  BY <1>1, <1>6
<1> QED BY <1>7, <1>8, <1>9, <1>10

-----------------------------------------------------------------------------
(* buffer_time                                                             *)

\* One more list, with nothing in it, changes nothing.
LEMMA ChainFlush ==
    ASSUME NEW lists \in Seq(Seq(Nat)), NEW n \in Nat, Chained(lists, n)
    PROVE  Chained(Append(lists, <<>>), n)
<1> PICK m : m = Append(lists, <<>>)
  OBVIOUS
<1>0. Len(lists) \in Nat /\ DOMAIN lists = 1 .. Len(lists) /\ <<>> \in Seq(Nat)
  OBVIOUS
<1>1. /\ DOMAIN m = 1 .. Len(lists) + 1 /\ m[Len(lists) + 1] = <<>>
      /\ \A k \in 1 .. Len(lists) : m[k] = lists[k]
  BY <1>0
<1>2. \A k \in DOMAIN lists : k \in DOMAIN m /\ m[k] = lists[k]
  BY <1>0, <1>1
<1>3. DOMAIN m[Len(lists) + 1] = {}
  BY <1>1
<1>4. \A k \in DOMAIN m : DOMAIN m[k] # {} => k \in DOMAIN lists
  BY <1>0, <1>1, <1>3
<1>5. \A k \in DOMAIN m : \A i \in DOMAIN m[k] : k \in DOMAIN lists /\ i \in DOMAIN lists[k] /\ m[k][i] = lists[k][i]
  BY <1>2, <1>4
<1>6. \A v \in 1 .. n : \E k \in DOMAIN m : \E i \in DOMAIN m[k] : m[k][i] = v
  BY <1>2 DEF Chained
<1>7. \A k \in DOMAIN m : \A i \in DOMAIN m[k] : m[k][i] \in 1 .. n
  BY <1>5 DEF Chained
<1>8. ASSUME NEW k \in DOMAIN m, NEW l \in DOMAIN m, NEW i \in DOMAIN m[k], NEW j \in DOMAIN m[l],
             k < l \/ (k = l /\ i < j)
      PROVE  m[k][i] < m[l][j]
  BY <1>5, <1>8 DEF Chained
<1> QED BY <1>6, <1>7, <1>8 DEF Chained

LEMMA Beyond ==
    ASSUME NEW n \in Nat, NEW p \in Nat, NEW q \in Nat, NEW j \in p + 1 .. p + q, NEW x \in 1 .. n,
           NEW y, y = n + (j - p)
    PROVE  x < y
  OBVIOUS

\* The next values go to the end of the last list.
LEMMA ChainGrow ==
    ASSUME NEW out \in Seq(Seq(Nat)), NEW buf \in Seq(Nat), NEW b \in Seq(Nat), NEW n \in Nat,
           Chained(Append(out, buf), n), NextFrom(b, n)
    PROVE  Chained(Append(out, buf \o b), n + Len(b))
<1> PICK old : old = Append(out, buf)
  OBVIOUS
<1> PICK new : new = Append(out, buf \o b)
  OBVIOUS
<1> PICK e : e = Len(out) + 1
  OBVIOUS
<1>0. Len(out) \in Nat /\ Len(b) \in Nat /\ Len(buf) \in Nat /\ buf \o b \in Seq(Nat) /\ e \in Nat
      /\ Len(buf \o b) = Len(buf) + Len(b)
  OBVIOUS
<1>1. /\ DOMAIN old = 1 .. e /\ DOMAIN new = 1 .. e /\ old[e] = buf /\ new[e] = buf \o b
      /\ \A k \in 1 .. e : k # e => old[k] = new[k]
  BY <1>0
<1>2. /\ \A i \in 1 .. Len(buf) : (buf \o b)[i] = buf[i]
      /\ \A i \in Len(buf) + 1 .. Len(buf) + Len(b) : (buf \o b)[i] = n + (i - Len(buf))
  <2>1. \A i \in 1 .. Len(buf) : (buf \o b)[i] = buf[i]
    BY <1>0
  <2>2. ASSUME NEW i \in Len(buf) + 1 .. Len(buf) + Len(b) PROVE (buf \o b)[i] = n + (i - Len(buf))
    <3>1. i - Len(buf) \in 1 .. Len(b)
      BY <1>0
    <3>2. (buf \o b)[i] = b[i - Len(buf)]
      BY <1>0
    <3> QED BY <3>1, <3>2 DEF NextFrom
  <2> QED BY <2>1, <2>2
<1>3. DOMAIN old[e] = 1 .. Len(buf) /\ DOMAIN new[e] = 1 .. Len(buf) + Len(b)
  BY <1>0, <1>1
<1>4. \A k \in DOMAIN old : \A i \in DOMAIN old[k] : i \in DOMAIN new[k] /\ new[k][i] = old[k][i]
  <2> TAKE k \in DOMAIN old
  <2> TAKE i \in DOMAIN old[k]
  <2>1. CASE k = e
    BY <1>0, <1>1, <1>2, <1>3, <2>1
  <2>2. CASE k # e
    BY <1>1, <2>2
  <2> QED BY <2>1, <2>2
<1>5. \A k \in DOMAIN new : \A i \in DOMAIN new[k] :
          \/ i \in DOMAIN old[k] /\ new[k][i] = old[k][i]
          \/ k = e /\ i \in Len(buf) + 1 .. Len(buf) + Len(b) /\ new[k][i] = n + (i - Len(buf))
  <2> TAKE k \in DOMAIN new
  <2> TAKE i \in DOMAIN new[k]
  <2>1. CASE k = e
    <3>1. i \in 1 .. Len(buf) \/ i \in Len(buf) + 1 .. Len(buf) + Len(b)
      BY <1>0, <1>3, <2>1
    <3> QED BY <1>1, <1>2, <1>3, <2>1, <3>1
  <2>2. CASE k # e
    BY <1>1, <2>2
  <2> QED BY <2>1, <2>2
<1>6. \A k \in DOMAIN new : \A i \in DOMAIN new[k] : new[k][i] \in 1 .. n + Len(b)
  <2> TAKE k \in DOMAIN new
  <2> TAKE i \in DOMAIN new[k]
  <2>1. CASE i \in DOMAIN old[k] /\ new[k][i] = old[k][i]
    <3>1. old[k][i] \in 1 .. n
      BY <1>1, <2>1 DEF Chained
    <3> QED BY <1>0, <2>1, <3>1
  <2>2. CASE k = e /\ i \in Len(buf) + 1 .. Len(buf) + Len(b) /\ new[k][i] = n + (i - Len(buf))
    <3>1. n + (i - Len(buf)) \in 1 .. n + Len(b)
      BY <1>0, <2>2
    <3> QED BY <2>2, <3>1
  <2> QED BY <1>5, <2>1, <2>2
<1>7. \A v \in 1 .. n + Len(b) : \E k \in DOMAIN new : \E i \in DOMAIN new[k] : new[k][i] = v
  <2> TAKE v \in 1 .. n + Len(b)
  <2>1. CASE v \in 1 .. n
    <3>1. PICK k \in DOMAIN old : \E i \in DOMAIN old[k] : old[k][i] = v
      BY <2>1 DEF Chained
    <3>2. PICK i \in DOMAIN old[k] : old[k][i] = v
      BY <3>1
    <3> QED BY <1>1, <1>4, <3>2
  <2>2. CASE v \notin 1 .. n
    <3> PICK i : i = Len(buf) + (v - n)
      OBVIOUS
    <3>1. i \in Len(buf) + 1 .. Len(buf) + Len(b) /\ n + (i - Len(buf)) = v
      BY <1>0, <2>2
    <3>2. i \in DOMAIN new[e] /\ e \in DOMAIN new
      BY <1>0, <1>1, <1>3, <3>1
    <3>3. new[e][i] = v
      BY <1>1, <1>2, <3>1
    <3> QED BY <3>2, <3>3
  <2> QED BY <2>1, <2>2
<1>8. ASSUME NEW k \in DOMAIN new, NEW l \in DOMAIN new, NEW i \in DOMAIN new[k], NEW j \in DOMAIN new[l],
             k < l \/ (k = l /\ i < j)
      PROVE  new[k][i] < new[l][j]
  <2>k. k \in 1 .. e /\ l \in 1 .. e
    BY <1>1
  <2>1. CASE i \in DOMAIN old[k] /\ new[k][i] = old[k][i] /\ j \in DOMAIN old[l] /\ new[l][j] = old[l][j]
    BY <1>1, <1>8, <2>1 DEF Chained
  <2>2. CASE i \in DOMAIN old[k] /\ new[k][i] = old[k][i] /\ j \in Len(buf) + 1 .. Len(buf) + Len(b)
             /\ new[l][j] = n + (j - Len(buf))
    <3>1. old[k][i] \in 1 .. n
      BY <1>1, <2>2 DEF Chained
    <3>2. new[k][i] \in 1 .. n
      BY <2>2, <3>1
    <3> PICK p, q : p = Len(buf) /\ q = Len(b)
      OBVIOUS
    <3>3. p \in Nat /\ q \in Nat /\ j \in p + 1 .. p + q /\ new[l][j] = n + (j - p)
      BY <1>0, <2>2
    <3> PICK x, y : x = new[k][i] /\ y = new[l][j]
      OBVIOUS
    <3>4. x \in 1 .. n /\ y = n + (j - p)
      BY <3>2, <3>3
    <3>5. x < y
      BY <3>3, <3>4, Beyond
    <3> QED BY <3>5
  <2>3. CASE k = e /\ i \in Len(buf) + 1 .. Len(buf) + Len(b) /\ new[k][i] = n + (i - Len(buf))
    <3>1. l = e /\ i < j
      BY SMTT(30), <1>0, <1>8, <2>3, <2>k
    <3>2. j \in Len(buf) + 1 .. Len(buf) + Len(b)
      BY <1>0, <1>3, <2>3, <3>1
    <3>3. new[l][j] = n + (j - Len(buf))
      BY <1>1, <1>2, <3>1, <3>2
    <3> QED BY <1>0, <2>3, <3>1, <3>2, <3>3
  <2> QED BY <1>5, <2>1, <2>2, <2>3
<1> QED BY ZenonT(40), <1>6, <1>7, <1>8 DEF Chained

BufferAs(c, o, b) == c \in TimedType /\ SameSource(c, o) /\ c.out = o.out /\ c.buffer = b /\ c.ended = o.ended

LEMMA BufferIs ==
    ASSUME NEW o \in TimedType, NEW b \in Seq(Nat), NEW c, c = [o EXCEPT !.buffer = b]
    PROVE  BufferAs(c, o, b)
  BY DEF TimedType, SameSource, BufferAs

LEMMA BufferRest ==
    ASSUME NEW o, o.op = "buffer", NEW r, r \in TimedType, OutKind(r), r.op = o.op, r.sent = o.sent, r.over = o.over,
           BufferGood(r, o.sent), r.ended # "timeout", r.ended = "no" => ~r.over
    PROVE  RanOn(r, o)
  BY DEF RanOn, Good, ThrottleGood, AuditGood, Audits, TimeoutGood, GoesOn, Fresh

LEMMA BufferRuns ==
    ASSUME NEW o, TimedInv(o), o.op = "buffer", o.ended = "no", NEW r, r = BufferTime(o)
    PROVE  RanOn(r, o)
<1>1. /\ o \in TimedType /\ OutKind(o) /\ (o.ends = "none" => ~o.over) /\ o.out \in Seq(Seq(Nat)) /\ o.buffer \in Seq(Nat)
      /\ Chained(Append(o.out, o.buffer), Taken(o)) /\ o.ends \in {"none", "complete", "error"}
      /\ NextFrom(o.batch, Taken(o))
  BY DEF TimedInv, TimedType, Good, BufferGood, GoesOn, BatchOK, OutKind
<1>2. Taken(o) \in Nat /\ o.sent = Taken(o) + Len(o.batch) /\ o.batch \in Seq(Nat)
  BY <1>1, BatchFacts
<1> PICK b : b = o.buffer \o o.batch
  OBVIOUS
<1>3. b \in Seq(Nat) /\ Chained(Append(o.out, b), o.sent) /\ <<>> \in Seq(Nat) /\ o.sent \in Nat
  <2>1. b \in Seq(Nat) /\ <<>> \in Seq(Nat) /\ o.sent \in Nat
    BY <1>1, <1>2 DEF TimedType
  <2>2. Chained(Append(o.out, o.buffer \o o.batch), Taken(o) + Len(o.batch))
    BY <1>1, <1>2, ChainGrow
  <2> QED BY <1>2, <2>1, <2>2
<1> PICK filled : filled = [o EXCEPT !.buffer = b]
  OBVIOUS
<1>4. filled \in TimedType /\ SameSource(filled, o) /\ filled.out = o.out /\ filled.buffer = b /\ filled.ended = o.ended
  <2>1. BufferAs(filled, o, b)
    BY <1>1, <1>3, BufferIs
  <2> QED BY <2>1 DEF BufferAs
<1>5. OutKind(filled) /\ OutItem(filled, b)
  BY <1>1, <1>3, <1>4 DEF OutKind, OutItem, SameSource
<1> PICK flushed : flushed = Emitted(filled, b)
  OBVIOUS
<1>6. EmittedAs(flushed, filled, b)
  BY <1>4, <1>5, EmittedIs
<1>7. Chained(Append(flushed.out, <<>>), o.sent)
  <2> PICK lists : lists = Append(o.out, b)
    OBVIOUS
  <2>1. lists \in Seq(Seq(Nat)) /\ flushed.out = lists /\ Chained(lists, o.sent)
    <3>1. lists \in Seq(Seq(Nat))
      BY <1>1, <1>3
    <3>2. flushed.out = Append(filled.out, b)
      BY <1>6 DEF EmittedAs
    <3> QED BY <1>3, <1>4, <3>1, <3>2
  <2>2. Chained(Append(lists, <<>>), o.sent)
    BY <1>3, <2>1, ChainFlush
  <2> QED BY <2>1, <2>2
<1>8. r = IF o.ends = "complete" THEN Ended(IF filled.buffer = <<>> THEN filled ELSE flushed, "complete")
          ELSE IF o.ends = "error" \/ o.fired = "error" THEN Ended(filled, "error")
          ELSE IF o.fired = "fires" THEN [flushed EXCEPT !.buffer = <<>>]
          ELSE filled
  BY <1>4 DEF BufferTime
<1>9. CASE o.ends = "complete"
  <2> PICK x : x = IF filled.buffer = <<>> THEN filled ELSE flushed
    OBVIOUS
  <2>1. x \in TimedType /\ OutKind(x) /\ x.op = o.op /\ x.sent = o.sent /\ x.over = o.over /\ Chained(Append(x.out, <<>>), o.sent)
    <3>1. CASE filled.buffer = <<>>
      BY <1>3, <1>4, <1>5, <3>1 DEF SameSource
    <3>2. CASE filled.buffer # <<>>
      BY <1>4, <1>6, <1>7, <3>2 DEF EmittedAs, SameSource
    <3> QED BY <3>1, <3>2
  <2>2. EndedAs(r, x, "complete")
    BY <1>8, <1>9, <2>1, EndingKinds, EndedIs
  <2>3. /\ r \in TimedType /\ OutKind(r) /\ r.op = o.op /\ r.sent = o.sent /\ r.over = o.over
        /\ BufferGood(r, o.sent) /\ r.ended = "complete"
    BY <2>1, <2>2 DEF EndedAs, SameSource, OutKind, BufferGood
  <2> QED BY <2>3, BufferRest
<1>10. CASE o.ends # "complete" /\ (o.ends = "error" \/ o.fired = "error")
  <2>1. EndedAs(r, filled, "error")
    BY <1>4, <1>8, <1>10, EndingKinds, EndedIs
  <2>2. /\ r \in TimedType /\ OutKind(r) /\ r.op = o.op /\ r.sent = o.sent /\ r.over = o.over
        /\ BufferGood(r, o.sent) /\ r.ended = "error"
    BY <1>4, <1>5, <2>1 DEF EndedAs, SameSource, OutKind, BufferGood
  <2> QED BY <2>2, BufferRest
<1>11. CASE o.ends = "none" /\ o.fired # "error" /\ o.fired = "fires"
  <2>1. r = [flushed EXCEPT !.buffer = <<>>] /\ flushed \in TimedType
    BY <1>6, <1>8, <1>11 DEF EmittedAs
  <2>2. r \in TimedType /\ SameSource(r, flushed) /\ r.out = flushed.out /\ r.buffer = <<>> /\ r.ended = flushed.ended
    <3>1. BufferAs(r, flushed, <<>>)
      BY <1>3, <2>1, BufferIs
    <3> QED BY <3>1 DEF BufferAs
  <2>3. /\ OutKind(r) /\ r.op = o.op /\ r.sent = o.sent /\ r.over = o.over
        /\ BufferGood(r, o.sent) /\ r.ended = "no" /\ ~r.over
    <3>1. r.op = o.op /\ r.sent = o.sent /\ r.over = o.over /\ r.ended = "no" /\ ~r.over
      <4>1. flushed.op = o.op /\ flushed.sent = o.sent /\ flushed.over = o.over /\ flushed.ended = "no"
        BY <1>4, <1>6 DEF EmittedAs, SameSource
      <4> QED BY <1>1, <1>11, <2>2, <4>1 DEF SameSource
    <3>2. OutKind(flushed) /\ flushed.op = o.op
      BY <1>4, <1>6 DEF EmittedAs, SameSource
    <3>3. OutKind(r)
      BY <2>2, <3>1, <3>2 DEF OutKind
    <3>4. BufferGood(r, o.sent)
      BY <1>7, <2>2 DEF BufferGood
    <3> QED BY <3>1, <3>3, <3>4
  <2> QED BY <2>2, <2>3, BufferRest
<1>12. CASE o.ends = "none" /\ o.fired # "error" /\ o.fired # "fires"
  <2>1. r = filled
    BY <1>8, <1>12
  <2>2. /\ r \in TimedType /\ OutKind(r) /\ r.op = o.op /\ r.sent = o.sent /\ r.over = o.over
        /\ BufferGood(r, o.sent) /\ r.ended = "no" /\ ~r.over
    BY <1>1, <1>3, <1>4, <1>5, <1>12, <2>1 DEF SameSource, BufferGood
  <2> QED BY <2>2, BufferRest
<1> QED BY <1>1, <1>9, <1>10, <1>11, <1>12

-----------------------------------------------------------------------------
(* The steps.                                                              *)

LEMMA Runs ==
    ASSUME NEW o, TimedInv(o), o.ended = "no", NEW r, r = RunOf(o)
    PROVE  RanOn(r, o)
<1>1. o.op \in TimedKinds
  BY DEF TimedInv, TimedType
<1>2. CASE o.op = "throttle"
  <2>1. r = Throttle(o)
    BY <1>2 DEF RunOf
  <2> QED BY <1>2, <2>1, ThrottleRuns
<1>3. CASE o.op \in Audits
  <2>1. r = Audit(o)
    BY <1>3 DEF RunOf, Audits
  <2> QED BY <1>3, <2>1, AuditRuns
<1>4. CASE o.op = "timeout"
  <2>1. r = Timeout(o)
    BY <1>4 DEF RunOf
  <2> QED BY <1>4, <2>1, TimeoutRuns
<1>5. CASE o.op = "buffer"
  <2>1. r = BufferTime(o)
    BY <1>5 DEF RunOf
  <2> QED BY <1>5, <2>1, BufferRuns
<1> QED BY <1>1, <1>2, <1>3, <1>4, <1>5 DEF TimedKinds, Audits

\* A run has consumed what there was.
ConsumedAs(n, r) ==
    /\ n \in TimedType /\ n.batch = <<>> /\ n.ends = "none" /\ n.op = r.op /\ n.sent = r.sent /\ n.over = r.over
    /\ n.out = r.out /\ n.made = r.made /\ n.ended = r.ended /\ n.latest = r.latest /\ n.stale = r.stale
    /\ n.buffer = r.buffer /\ n.timer = r.timer /\ n.done = r.done

LEMMA ConsumedIs ==
    ASSUME NEW r \in TimedType, NEW f \in {"no", "fires", "error"}, NEW n,
           n = [r EXCEPT !.batch = <<>>, !.ends = "none", !.fired = f]
    PROVE  ConsumedAs(n, r)
<1>1. <<>> \in Seq(Nat)
  OBVIOUS
<1> QED BY <1>1 DEF TimedType, ConsumedAs

LEMMA ConsumedKeeps ==
    ASSUME NEW o, NEW r, RanOn(r, o), o.sent \in Nat, NEW n, ConsumedAs(n, r)
    PROVE  TimedInv(n)
<1>1. Taken(n) = o.sent /\ BatchOK(n)
  BY DEF ConsumedAs, RanOn, Taken, BatchOK, NextFrom
<1>2. Good(n, o.sent)
  BY DEF ConsumedAs, RanOn, Good, OutKind, ThrottleGood, AuditGood, TimeoutGood, BufferGood
<1>3. GoesOn(n) /\ Fresh(n)
  BY DEF ConsumedAs, RanOn, GoesOn, Fresh
<1> QED BY <1>1, <1>2, <1>3 DEF TimedInv, ConsumedAs

LEMMA OperatorRunInv ==
    ASSUME TimedInv(td), OperatorRun
    PROVE  TimedInv(td')
<1> PICK r : r = RunOf(td)
  OBVIOUS
<1>1. td.ended = "no" /\ td.sent \in Nat
  BY DEF OperatorRun, Due, TimedInv, TimedType
<1>2. RanOn(r, td)
  BY <1>1, Runs
<1>3. r \in TimedType
  BY <1>2 DEF RanOn
<1> PICK n : n = [r EXCEPT !.batch = <<>>, !.ends = "none", !.fired = "no"]
  OBVIOUS
<1> PICK m : m = [r EXCEPT !.batch = <<>>, !.ends = "none", !.fired = "fires"]
  OBVIOUS
<1>4. [n EXCEPT !.fired = "fires"] = m
  BY <1>3 DEF TimedType
<1>5. td' = n \/ td' = m
  BY <1>4 DEF OperatorRun
<1>6. ConsumedAs(n, r) /\ ConsumedAs(m, r)
  BY <1>3, ConsumedIs
<1>7. TimedInv(n) /\ TimedInv(m)
  BY <1>1, <1>2, <1>6, ConsumedKeeps
<1> QED BY <1>5, <1>7

\* Nothing but the flags of what is due and of the pause is written.
FlagsAs(n, o) ==
    /\ n \in TimedType /\ n.batch = o.batch /\ n.ends = o.ends /\ n.op = o.op /\ n.sent = o.sent /\ n.over = o.over
    /\ n.out = o.out /\ n.made = o.made /\ n.ended = o.ended /\ n.latest = o.latest /\ n.stale = o.stale
    /\ n.buffer = o.buffer /\ n.timer = o.timer /\ n.done = o.done

LEMMA FlagsKeep ==
    ASSUME NEW o, TimedInv(o), NEW n, FlagsAs(n, o)
    PROVE  TimedInv(n)
<1>1. Taken(n) = Taken(o) /\ BatchOK(n)
  BY DEF FlagsAs, TimedInv, Taken, BatchOK
<1>2. Good(n, Taken(n))
  BY <1>1 DEF FlagsAs, TimedInv, Good, OutKind, ThrottleGood, AuditGood, TimeoutGood, BufferGood
<1> QED BY <1>1, <1>2 DEF TimedInv, FlagsAs, GoesOn, Fresh

LEMMA TimerFiresInv ==
    ASSUME TimedInv(td), NEW how \in {"fires", "error"}, TimerFires(how)
    PROVE  TimedInv(td')
<1>1. td \in TimedType /\ td' = [td EXCEPT !.fired = how, !.cached = TRUE]
  BY DEF TimedInv, TimerFires
<1>2. FlagsAs(td', td)
  BY <1>1 DEF TimedType, FlagsAs
<1> QED BY <1>2, FlagsKeep

LEMMA PauseOperatorInv ==
    ASSUME TimedInv(td), PauseOperator
    PROVE  TimedInv(td')
<1>1. td \in TimedType /\ td' = [td EXCEPT !.paused = ~td.paused]
  BY DEF TimedInv, PauseOperator
<1>2. FlagsAs(td', td)
  BY <1>1 DEF TimedType, FlagsAs
<1> QED BY <1>2, FlagsKeep

\* More values come, and the end of the source perhaps.
ArrivedAs(n, o, b, count, ends) ==
    /\ n \in TimedType /\ n.batch = b /\ n.sent = o.sent + count /\ n.ends = ends /\ n.over = (ends # "none")
    /\ n.stale = (o.stale \/ count > 0) /\ n.op = o.op /\ n.out = o.out /\ n.made = o.made /\ n.ended = o.ended
    /\ n.latest = o.latest /\ n.buffer = o.buffer /\ n.timer = o.timer /\ n.done = o.done

LEMMA ArrivedIs ==
    ASSUME NEW o \in TimedType, NEW b \in Seq(Nat), NEW count \in Nat, NEW ends \in {"none", "complete", "error"}, NEW n,
           n = [o EXCEPT !.batch = b, !.sent = o.sent + count, !.ends = ends, !.over = ends # "none",
                         !.stale = o.stale \/ count > 0]
    PROVE  ArrivedAs(n, o, b, count, ends)
<1>1. o.sent \in Nat /\ o.sent + count \in Nat /\ (ends # "none") \in BOOLEAN /\ (o.stale \/ count > 0) \in BOOLEAN
  BY DEF TimedType
<1> QED BY ZenonT(40), <1>1 DEF TimedType, ArrivedAs

LEMMA SourceSendsInv ==
    ASSUME TimedInv(td), NEW count \in 0 .. 2, NEW ends \in {"none", "complete", "error"}, SourceSends(count, ends)
    PROVE  TimedInv(td')
<1>1. td \in TimedType /\ td.sent \in Nat /\ count \in Nat /\ td.ended = "no" /\ td.stale \in BOOLEAN
  BY DEF TimedInv, TimedType, SourceSends
<1> PICK g : g = [i \in 1 .. count |-> td.sent + i]
  OBVIOUS
<1> PICK b : b = td.batch \o g
  OBVIOUS
<1>2. g \in Seq(Nat) /\ Len(g) = count /\ \A i \in 1 .. count : g[i] = td.sent + i
  BY <1>1
<1>3. Taken(td) \in Nat /\ td.sent = Taken(td) + Len(td.batch) /\ td.batch \in Seq(Nat) /\ Len(td.batch) \in Nat
  BY BatchFacts
<1>4. b \in Seq(Nat) /\ Len(b) = Len(td.batch) + count
  BY <1>1, <1>2, <1>3
<1>5. td' = [td EXCEPT !.batch = b, !.sent = td.sent + count, !.ends = ends, !.over = ends # "none",
                       !.stale = td.stale \/ count > 0]
  BY DEF SourceSends
<1>6. ArrivedAs(td', td, b, count, ends)
  BY <1>1, <1>4, <1>5, ArrivedIs
<1>7. Taken(td') = Taken(td)
  BY <1>1, <1>3, <1>4, <1>6 DEF ArrivedAs, Taken
<1>8. BatchOK(td')
  <2>1. ASSUME NEW i \in 1 .. Len(b) PROVE b[i] = Taken(td) + i
    <3>1. CASE i <= Len(td.batch)
      <4>1. b[i] = td.batch[i] /\ i \in 1 .. Len(td.batch)
        BY <1>2, <1>3, <3>1
      <4> QED BY <4>1 DEF TimedInv, BatchOK, NextFrom
    <3>2. CASE ~(i <= Len(td.batch))
      <4>1. i - Len(td.batch) \in 1 .. count
        BY <1>1, <1>3, <1>4, <3>2
      <4>2. b[i] = g[i - Len(td.batch)]
        <5>1. i \in 1 .. Len(td.batch) + Len(g)
          BY <1>2, <1>4
        <5> QED BY <1>2, <1>3, <3>2, <5>1
      <4>3. b[i] = td.sent + (i - Len(td.batch))
        BY <1>2, <4>1, <4>2
      <4> QED BY <1>1, <1>3, <4>3
    <3> QED BY <3>1, <3>2
  <2>2. Len(b) <= td.sent + count
    BY <1>1, <1>3, <1>4
  <2> QED BY <1>6, <1>7, <2>1, <2>2 DEF ArrivedAs, BatchOK, NextFrom
<1>9. Good(td', Taken(td'))
  BY <1>1, <1>6, <1>7 DEF ArrivedAs, TimedInv, Good, OutKind, ThrottleGood, AuditGood, TimeoutGood, BufferGood
<1>10. ASSUME b = <<>> PROVE Fresh(td')
  <2>1. Len(b) = 0
    BY <1>10
  <2>2. count = 0 /\ Len(td.batch) = 0
    BY <1>1, <1>3, <1>4, <2>1
  <2>3. td.batch = <<>> /\ ~(count > 0)
    BY <1>3, <2>2
  <2> QED BY <1>6, <2>3 DEF ArrivedAs, TimedInv, Fresh
<1>11. ends = "none" => GoesOn(td')
  BY <1>6 DEF ArrivedAs, GoesOn
<1> QED BY <1>1, <1>6, <1>8, <1>9, <1>10, <1>11 DEF ArrivedAs, TimedInv

LEMMA TimedStarts == TimedInit => TimedInv(td)
<1> SUFFICES ASSUME TimedInit PROVE TimedInv(td)
  OBVIOUS
<1>1. PICK kind \in TimedOps :
        td = [op |-> kind, timer |-> FirstTimer(kind), made |-> FirstTimer(kind), done |-> FALSE, latest |-> None,
              suppress |-> FALSE, buffer |-> <<>>, batch |-> <<>>, ends |-> "none",
              fired |-> "no", cached |-> FALSE, stale |-> FALSE, paused |-> FALSE,
              sent |-> 0, over |-> FALSE, out |-> <<>>, ended |-> "no"]
  BY DEF TimedInit
<1>2. kind \in TimedKinds
  BY TimedAssumption DEF TimedKinds
<1>3. FirstTimer(kind) \in Nat /\ None \in Nat /\ (kind = "throttle" => FirstTimer(kind) = 0)
  BY DEF FirstTimer, None
<1>4. <<>> \in Seq(Nat) /\ <<>> \in Seq(Seq(Nat)) /\ "no" \in Endings
  BY EndingKinds
<1>5. td \in TimedType
  BY <1>1, <1>2, <1>3, <1>4 DEF TimedType
<1>6. /\ td.op = kind /\ td.made = FirstTimer(kind) /\ td.latest = None /\ td.buffer = <<>> /\ td.batch = <<>> /\ ~td.stale
      /\ td.sent = 0 /\ ~td.over /\ td.out = <<>> /\ td.ended = "no"
  BY <1>1
<1>7. Taken(td) = 0 /\ BatchOK(td)
  <2>1. Len(td.batch) = 0
    BY <1>6
  <2>2. td.sent = 0
    BY <1>6
  <2>3. Taken(td) = 0
    BY <2>1, <2>2 DEF Taken
  <2>4. NextFrom(td.batch, Taken(td))
    BY <2>1 DEF NextFrom
  <2>5. Len(td.batch) <= td.sent
    BY <2>1, <2>2
  <2> QED BY <2>3, <2>4, <2>5 DEF BatchOK
<1>8. Chained(Append(<<>>, <<>>), 0)
  <2> PICK lists : lists = <<<<>>>>
    OBVIOUS
  <2>1. Append(<<>>, <<>>) = lists /\ DOMAIN lists = {1} /\ lists[1] = <<>>
    OBVIOUS
  <2>2. \A k \in DOMAIN lists : DOMAIN lists[k] = {}
    BY <2>1
  <2>3. Chained(lists, 0)
    BY <2>2 DEF Chained
  <2> QED BY <2>1, <2>3
<1>9. ThrottleGood(td)
  BY <1>3, <1>6 DEF ThrottleGood
<1>10. TimeoutGood(td, 0)
  BY <1>6 DEF TimeoutGood
<1>11. Good(td, 0)
  BY <1>4, <1>6, <1>8, <1>9, <1>10 DEF Good, OutKind, AuditGood, Holds, BufferGood
<1> QED BY <1>5, <1>6, <1>7, <1>11 DEF TimedInv, GoesOn, Fresh

LEMMA TimedNextInv == TimedInv(td) /\ [TimedNext]_td => TimedInv(td')
<1> SUFFICES ASSUME TimedInv(td), [TimedNext]_td PROVE TimedInv(td')
  OBVIOUS
<1>1. CASE OperatorRun
  BY <1>1, OperatorRunInv
<1>2. CASE PauseOperator
  BY <1>2, PauseOperatorInv
<1>3. ASSUME NEW count \in 0 .. 2, NEW ends \in {"none", "complete", "error"}, SourceSends(count, ends) PROVE TimedInv(td')
  BY <1>3, SourceSendsInv
<1>4. ASSUME NEW how \in {"fires", "error"}, TimerFires(how) PROVE TimedInv(td')
  BY <1>4, TimerFiresInv
<1>5. CASE UNCHANGED td
  BY <1>5
<1> QED BY <1>1, <1>2, <1>3, <1>4, <1>5 DEF TimedNext

TimedOK == TimedInv(td)

(* Of the time operators, for any number of values, pauses and timers:     *)
(* throttle has sent one value per window, audit at its end the last value *)
(* of its source, timeout every value it was given, and buffer_time has    *)
(* sent or holds each of them exactly once and in order; none goes on when *)
(* its source has ended and nothing is left to wait for; and timeout gives *)
(* up only when no value has come since its timer was started (the bodies  *)
(* in time.rs).                                                            *)
THEOREM NothingIsDropped == TimedSpec => []NothingDropped
<1>1. TimedOK => NothingDropped
  <2> SUFFICES ASSUME TimedInv(td) PROVE NothingDropped
    BY DEF TimedOK
  <2>1. td.op = "throttle" => Len(td.out) = td.made
    BY DEF TimedInv, Good, ThrottleGood
  <2>2. td.over /\ ~Due(td) /\ ~td.paused /\ td.timer = None => td.ended # "no"
    BY DEF TimedInv, Due, GoesOn
  <2>3. td.op \in {"audit", "shared"} /\ td.ended = "complete" /\ td.sent > 0 => Last(td.out) = td.sent
    BY BatchFacts DEF TimedInv, Good, AuditGood, Audits
  <2>4. td.op = "timeout" => td.out = [i \in 1 .. Taken(td) |-> i]
    BY DEF TimedInv, Good, TimeoutGood
  <2>5. td.op = "buffer" /\ td.ended # "error" => Chained(Append(td.out, td.buffer), Taken(td))
    BY DEF TimedInv, Good, BufferGood
  <2>6. td.ended = "timeout" => ~td.stale
    BY DEF TimedInv, Good, TimeoutGood
  <2> QED BY <2>1, <2>2, <2>3, <2>4, <2>5, <2>6 DEF NothingDropped
<1>2. TimedInit => TimedOK
  BY TimedStarts DEF TimedOK
<1>3. TimedOK /\ [TimedNext]_td => TimedOK'
  BY TimedNextInv DEF TimedOK
<1> QED BY <1>1, <1>2, <1>3, PTL DEF TimedSpec
=============================================================================
