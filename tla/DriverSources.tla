--------------------------- MODULE DriverSources ----------------------------
(* Sources whose values come from a driver of the environment (sources.rs):*)
(* an activation starts work in the driver and must see to it that the     *)
(* work is cancelled, while the driver calls back before it has even       *)
(* returned the means to cancel, or after it was told to stop, and the     *)
(* sinks that are told leave and come back.                                *)
(*                                                                         *)
(* Three kinds of source: "guarded" ones keep a flag that every callback   *)
(* asks and a slot for the cancel function; "polled" ones look at the      *)
(* world now and at every tick, under the same flag; "bare" ones only      *)
(* register the cancel function as the cleanup of the activation.          *)
EXTENDS Integers, Sequences, SequencesExt

\* DriverKinds: pairs of a source and whether the driver gets to act between two of its values.
CONSTANTS DriverKinds, MaxActivations, MaxCallbacks, MaxConsecutiveErrors

Guarded == {"request", "socket", "http_stream"}   \* from_process and from_http; from_sse, from_websocket, from_webhook
Polled == {"cron", "git", "fs_watch"}
Bare == {"timer", "interval", "future", "stream"}
Once == {"request", "timer", "future"}            \* the driver takes an FnOnce
Minutes == 1..2
NoMinute == 0

ASSUME DriverAssumption ==
    /\ DriverKinds \subseteq (Guarded \cup Polled \cup Bare) \X BOOLEAN
    /\ MaxConsecutiveErrors \in Nat \ {0}

VARIABLE so

\* active: the node has a sink; acts: the activations, the current one last; calls: the calls under way, the
\* innermost last; stale: something was sent for an activation that is over.
SourcesInit ==
    \E k \in DriverKinds :
        so = [kind |-> k[1], yields |-> k[2], active |-> FALSE, terminal |-> FALSE,
              acts |-> <<>>, calls |-> <<>>, callbacks |-> 0, stale |-> FALSE]

NewActivation == [flag |-> TRUE, slot |-> FALSE, hook |-> TRUE, cancels |-> 0, spent |-> FALSE,
                  head |-> FALSE, minute |-> NoMinute, baseline |-> FALSE, errors |-> 0]
LastAct == Len(so.acts)
InSink == so.calls # <<>> => Last(so.calls).sink
FnRuns == \E c \in DOMAIN so.calls : so.calls[c].do \in {"install", "look"}

Cancel(a) == [a EXCEPT !.cancels = @ + 1]
CleanupDriverWork(a) ==
    LET off == [a EXCEPT !.flag = FALSE, !.slot = FALSE] IN
    IF a.slot THEN Cancel(off) ELSE off

Push(s, call) == [s EXCEPT !.calls = Append(s.calls, call)]
Pop(s) == [s EXCEPT !.calls = Front(s.calls)]
SetActivation(s, i, a) == [s EXCEPT !.acts = [s.acts EXCEPT ![i] = a]]
\* Waves to send, one after another; checked: all but the first ask the flag again.
Sending(i, waves) == [do |-> "send", i |-> i, waves |-> waves, checked |-> FALSE, sink |-> FALSE]

-----------------------------------------------------------------------------
(* The node *)

\* The fn of a source that finds no driver, or no directory to watch, sends ERROR. A fn is not run inside itself.
ActivateSource(missing) ==
    /\ InSink /\ ~FnRuns
    /\ ~so.active /\ ~so.terminal /\ LastAct < MaxActivations
    /\ LET call(what) == [do |-> what, i |-> LastAct + 1, sink |-> FALSE]
           started == [so EXCEPT !.active = TRUE,
                                 !.acts = Append(so.acts, [NewActivation EXCEPT !.slot = so.kind \in Polled])]
       IN  so' = CASE missing -> [so EXCEPT !.active = TRUE, !.terminal = TRUE]
                   [] ~missing /\ so.kind \in Guarded -> Push(started, call("install"))
                   [] ~missing /\ so.kind \in Polled -> Push(started, call("look"))
                   [] OTHER -> started

\* The last sink leaves: the cleanup the activation registered runs.
Deactivated(a) ==
    LET off == [a EXCEPT !.hook = FALSE] IN
    IF so.kind \in Bare THEN Cancel(off) ELSE CleanupDriverWork(off)
DeactivateSource ==
    /\ InSink /\ so.active
    /\ LET off == [so EXCEPT !.active = FALSE] IN
       so' = IF LastAct > 0 /\ so.acts[LastAct].hook
             THEN SetActivation(off, LastAct, Deactivated(so.acts[LastAct])) ELSE off

InstallDriverCancel_Stored(a) == [a EXCEPT !.slot = TRUE]

\* The driver has returned the cancel function, to a source that may have ended meanwhile.
InstallDriverCancel(a) == IF a.flag THEN [a EXCEPT !.slot = TRUE] ELSE Cancel(a)

Install ==
    /\ so.calls # <<>> /\ Last(so.calls).do = "install"
    /\ LET i == Last(so.calls).i IN so' = Pop(SetActivation(so, i, InstallDriverCancel(so.acts[i])))

-----------------------------------------------------------------------------
(* What the driver says *)

End == "end"      \* COMPLETE, alone or after DATA, or ERROR
Data == "data"
Datas(n) == [j \in 1..n |-> Data]

\* A callback: what becomes of the activation, and the waves it sends.
Answer(a, waves) == [act |-> a, waves |-> waves]

OneAnswer(a) == {Answer(a, <<End>>)}
Socket(a) == {Answer(a, <<Data>>), Answer(a, <<End>>)}

\* Head, chunk, error and end of the response; a chunk holds any number of events and may be bad.
HttpStream(a) ==
    {Answer(a, <<End>>)}
    \cup (IF a.head THEN {Answer(a, Datas(n)) : n \in 0..2} \cup {Answer(a, Append(Datas(n), End)) : n \in 0..2}
          ELSE {Answer([a EXCEPT !.head = TRUE], <<>>)})

\* One tick a minute, and only if the schedule matches.
CronTick(a) == {Answer([a EXCEPT !.minute = m], IF m = a.minute THEN <<>> ELSE <<Data>>) : m \in Minutes}

\* The first head seen is only remembered; so many errors in a row end the source.
PollGitHook(a) ==
    {Answer([a EXCEPT !.errors = 0], <<>>),
     Answer([a EXCEPT !.errors = 0, !.baseline = TRUE], IF a.baseline THEN <<Data>> ELSE <<>>),
     Answer([a EXCEPT !.errors = @ + 1], IF a.errors + 1 >= MaxConsecutiveErrors THEN <<End>> ELSE <<>>)}

\* The events of the watcher in one wave; when the watcher is gone the source falls silent.
FsWatch(a) ==
    {Answer(a, <<Data>>), Answer(a, <<>>), Answer(a, <<End>>)}
    \cup {Answer([a EXCEPT !.flag = FALSE], Datas(n)) : n \in 0..1}

Interval(a) == {Answer(a, <<Data>>)}
TimerOrFuture(a) == {Answer(a, <<End>>)}
\* A stream that always has a value ready is read to its end without a pause.
StreamLocal(a) ==
    IF so.yields THEN {Answer(a, <<Data>>), Answer([a EXCEPT !.spent = TRUE], <<End>>)}
    ELSE {Answer([a EXCEPT !.spent = TRUE], Append(Datas(n), End)) : n \in 0..2}

Answers(a) ==
    CASE so.kind = "request" -> OneAnswer(a)
      [] so.kind = "socket" -> Socket(a)
      [] so.kind = "http_stream" -> HttpStream(a)
      [] so.kind = "cron" -> CronTick(a)
      [] so.kind = "git" -> PollGitHook(a)
      [] so.kind = "fs_watch" -> FsWatch(a)
      [] so.kind = "interval" -> Interval(a)
      [] so.kind = "stream" -> StreamLocal(a)
      [] OTHER -> TimerOrFuture(a)

Spent(a) == [a EXCEPT !.spent = @ \/ so.kind \in Once]
Say(s, i, answer) ==
    LET told == SetActivation(s, i, answer.act) IN
    IF answer.waves = <<>> THEN told ELSE Push(told, Sending(i, answer.waves))

\* A callback of a guarded or polled source asks its flag first.
Hears(a) == so.kind \in Bare \/ a.flag

\* The driver calls when nothing else runs, or before it returns from the call that starts the work. One that was
\* cancelled may still call; the timers, futures and streams of the local driver do not.
Callback(i) ==
    /\ so.callbacks < MaxCallbacks
    /\ \/ so.calls = <<>>
       \/ so.calls # <<>> /\ Last(so.calls).do = "install" /\ Last(so.calls).i = i
    /\ ~so.acts[i].spent
    /\ so.kind \in Bare => so.acts[i].cancels = 0
    /\ Hears(so.acts[i])
    /\ \E answer \in Answers(Spent(so.acts[i])) :
           so' = Say([so EXCEPT !.callbacks = so.callbacks + 1], i, answer)

\* What a polled source finds as it starts; a directory is scanned.
FirstLook(a) == IF so.kind = "fs_watch" THEN {Answer(a, <<>>), Answer(a, <<Data>>)} ELSE Answers(a)

\* The fn of a polled source looks at once. It registered its cleanup before, and sends as it returns.
Look ==
    /\ so.calls # <<>> /\ Last(so.calls).do = "look"
    /\ LET i == Last(so.calls).i IN
       \E answer \in FirstLook(so.acts[i]) : so' = Say(Pop(so), i, answer)

\* One wave: an ending first cleans up. Between two waves the sinks run, and a guarded source asks its flag again.
AfterWave(call) == [call EXCEPT !.waves = Tail(call.waves), !.checked = TRUE, !.sink = TRUE]
SendWave ==
    LET n == Len(so.calls)
        call == so.calls[n]
        i == call.i
        ends == Head(call.waves) = End
        silent == call.checked /\ so.kind \in Guarded /\ ~so.acts[i].flag
        ended == IF ends /\ so.kind \notin Bare THEN SetActivation(so, i, CleanupDriverWork(so.acts[i])) ELSE so
    IN  /\ n > 0 /\ call.do = "send"
        /\ so' = IF call.waves = <<>> \/ silent THEN Pop(so)
                 ELSE [ended EXCEPT !.calls = [so.calls EXCEPT ![n] = AfterWave(call)],
                                    !.terminal = so.terminal \/ ends,
                                    !.stale = so.stale \/ i # LastAct \/ ~so.active]

SourcesNext ==
    \/ \E missing \in BOOLEAN : ActivateSource(missing)
    \/ DeactivateSource
    \/ Install \/ Look \/ SendWave
    \/ \E i \in DOMAIN so.acts : Callback(i)

SourcesSpec == SourcesInit /\ [][SourcesNext]_so

-----------------------------------------------------------------------------
(* Properties *)

\* Deactivation stops the driver's work for good (on_deactivation, cleanup_driver_work, install_driver_cancel): what
\* is sent belongs to the activation that is current, no cancel function is called twice, and when no call is under
\* way all work of activations that are over, or that ended, is cancelled, whenever the driver calls back. Only a
\* stream read without a pause goes on sending after its activation is over.
WorkCancelled ==
    /\ so.stale => ~so.yields
    /\ \A i \in DOMAIN so.acts :
           /\ so.acts[i].cancels <= 1
           /\ so.calls = <<>> /\ (i < LastAct \/ ~so.active \/ (so.terminal /\ so.kind \notin Bare)) =>
                  so.acts[i].cancels = 1
=============================================================================
