----------------------------- MODULE WaveEngine -----------------------------
(***************************************************************************)
(* The wave engine of crates/graphrefly/src/node.rs and batch.rs: how one  *)
(* thread propagates DIRTY / DATA / RESOLVED / INVALIDATE / COMPLETE /     *)
(* ERROR / TEARDOWN through a graph of nodes, with lazy activation, pause  *)
(* locks, pull demands, batches, late (async) emissions and recovery from  *)
(* panics in user code.                                                    *)
(*                                                                         *)
(* The engine is synchronous and re-entrant: every handler calls others    *)
(* and user callbacks in the middle of its work.  The model keeps the call *)
(* stack as state.  A frame is a call still to be made or the rest of a    *)
(* handler after a call; a step takes the top frame, changes the state as  *)
(* the code does up to its next call, and pushes the calls that follow.    *)
(* The user's own calls happen when the stack is empty, and user functions *)
(* and sinks choose what they do each time they are called.                *)
(*                                                                         *)
(* A value is a sequence of numbers: a source emits <<v>>, a computed node *)
(* the concatenation of the latest values of its dependencies, so that a   *)
(* value shows which source values it was computed from.                   *)
(*                                                                         *)
(* X_Y is operator X with the defect Y in it.  No action uses it; it shows *)
(* that the property it is meant for would notice the defect.              *)
(***************************************************************************)
EXTENDS Integers, Sequences, FiniteSets, SequencesExt

CONSTANTS
    N,          \* number of nodes
    Deps,       \* Deps[n]: the dependencies of n, all numbered below n
    Config,     \* Config[n]: has a fn, its pool, and its NodeOpts
    FnActs,     \* FnActs[n]: what n's fn may do when it is invoked
    Programs    \* Programs[k]: what the user of the graph may do, in program k

Node == 1..N
NoNode == 0
NoVal == <<>>
Ext == 0        \* the subscriber "node" of an external sink

ASSUME NAssumption == N \in Nat
ASSUME DepsAssumption == \A n \in Node : Deps[n] \in Seq(1..(n - 1))
ASSUME ConfigAssumption ==
    \A n \in Node :
        /\ Config[n].mode \in {"true", "resumeAll", "false"}
        /\ \A f \in {"fn", "async", "partial", "pull", "autoComplete", "autoError",
                     "terminalInput"} : Config[n][f] \in BOOLEAN
        /\ Config[n].pull => Config[n].mode # "false"
ASSUME FnActsAssumption ==
    \A n \in Node :
        /\ FnActs[n] \subseteq {"emit", "emit_complete", "complete", "none", "defer", "panic",
                              "poke"}
        /\ "poke" \in FnActs[n] => Deps[n] # <<>>
\* A program makes at most `calls' calls: the waves it sends down, <<node,
\* wave>>, and up, <<node, message>>, and the nodes it subscribes a sink to;
\* what it does inside a batch (of "down", "up", "subscribe"), and what its
\* sinks may do when they are called (of "unsubscribe", "panic").
ASSUME ProgramsAssumption ==
    \A k \in DOMAIN Programs :
        /\ \A d \in Programs[k].downs : d[1] \in Node
        /\ \A u \in Programs[k].ups : u[1] \in Node
        /\ Programs[k].observed \subseteq Node
        /\ Programs[k].calls \in Nat

VARIABLES
    value,      \* NodeValueState: cache (NoVal: no data), status, terminal
    wave,       \* NodeWaveState: dirtyOut, tier3, inside, owed
    dep,        \* DepState, per dependency: batch, prev, has, dirty, terminal; pending
    aux,        \* NodeAux and has_called_fn_once, and the recorded unsubs
    subs,       \* subs[n]: n's subscribers in order: <<node, dep index>> or <<Ext, 1>>
    stack,      \* the call stack, innermost call first
    scope,      \* WAVE: whether a wave is in flight, touched nodes, blamed node
    depth,      \* DELIVERY_DEPTH
    deferred,   \* DEFERRED_DELIVERY_ACTIONS by kind: the nodes in order of arrival
    batch,      \* ACTIVE_BATCH
    routed,     \* UpRouteState of the up call in progress
    inflight,   \* inflight[n]: results an async fn of n has computed and not emitted
    obs,        \* obs[n]: what the external sink of n has seen
    user        \* the program the user runs, and how many calls it made

vars == <<value, wave, dep, aux, subs, stack, scope, depth, deferred, batch, routed,
          inflight, obs, user>>
Does == Programs[user.program]
delivery == <<depth, deferred>>
outside == <<batch, routed, inflight, obs, user>>

-----------------------------------------------------------------------------
(* Messages and their tiers (protocol.rs).                                 *)
Msg(kind) == [kind |-> kind, v |-> NoVal]
Data(v) == [kind |-> "DATA", v |-> v]

Tier(m) ==
    CASE m.kind = "START" -> 0
      [] m.kind \in {"PAUSE", "RESUME", "PULL"} -> 1
      [] m.kind = "DIRTY" -> 2
      [] m.kind \in {"DATA", "RESOLVED"} -> 3
      [] m.kind = "INVALIDATE" -> 4
      [] m.kind \in {"COMPLETE", "ERROR"} -> 5
      [] m.kind = "TEARDOWN" -> 6

IsBatchDeferred(m) == Tier(m) >= 3
IsPauseBuffered(m) == Tier(m) \in {3, 4}

OfTier(ms, t) == SelectSeq(ms, LAMBDA m : Tier(m) = t)
FirstOf(ms) == IF ms = <<>> THEN <<>> ELSE <<ms[1]>>

\* down: sort by tier, keeping the order within a tier, and keep one INVALIDATE.
Sorted(ms) ==
    OfTier(ms, 0) \o OfTier(ms, 1) \o OfTier(ms, 2) \o OfTier(ms, 3)
    \o FirstOf(OfTier(ms, 4)) \o OfTier(ms, 5) \o OfTier(ms, 6)

Has(ms, kind) == \E i \in 1..Len(ms) : ms[i].kind = kind

(* Frames of the call stack.                                               *)
Frame(op, n) == [op |-> op, n |-> n, by |-> 0, i |-> 0, ms |-> <<>>]
Call(op, n, ms) == [Frame(op, n) EXCEPT !.ms = ms]
ReceiveBy(n, i, m) == [Frame("receive", n) EXCEPT !.i = i, !.ms = <<m>>]
OfSubscriber(op, n, by, i) == [Frame(op, n) EXCEPT !.by = by, !.i = i]

At(op) == stack # <<>> /\ stack[1].op = op
Top == stack[1]
Calls(frames) == stack' = frames \o Tail(stack)
When(c, frames) == IF c THEN frames ELSE <<>>

-----------------------------------------------------------------------------
(* Predicates the handlers share.                                          *)
DepIdx(n) == 1..Len(Deps[n])
HasData(n) == value[n].cache # NoVal
IsCompute(n) == Config[n].fn \/ Deps[n] # <<>>

\* A pull node between deliveries: quiet, as if paused.
PullQuiet(n) == Config[n].pull /\ ~aux[n].pulling
Paused(n) == aux[n].locks # {} \/ PullQuiet(n)

\* DepState::all_settled
AllSettled(n) ==
    \A i \in DepIdx(n) :
        dep[n].has[i] \/ (Config[n].terminalInput /\ dep[n].terminal[i])

\* The first-run gate.
GateOpen(n) == aux[n].ran \/ Config[n].partial \/ AllSettled(n)

\* Core::should_buffer_on_pause
ShouldBufferOnPause(n) ==
    /\ Paused(n)
    /\ \/ Config[n].mode = "resumeAll"
       \/ /\ Config[n].mode = "true"
          /\ ~wave[n].inside
          /\ \/ PullQuiet(n) /\ Deps[n] = <<>>
             \/ Config[n].async /\ Deps[n] # <<>>

\* In the default mode a paused node runs nothing; it remembers the wave.
SkipsWave_Never(n) == FALSE
SkipsWave(n) == Config[n].mode = "true" /\ Paused(n)

\* What n's fn reads of its dependencies and computes: DepRecord.latest of
\* each, <<0>> where it has never had data; <<1>> for a producer.
Latest(n, i) ==
    IF dep[n].batch[i] # NoVal THEN dep[n].batch[i]
    ELSE IF dep[n].prev[i] # NoVal THEN dep[n].prev[i] ELSE <<0>>
FnValue(n) ==
    IF Deps[n] = <<>> THEN <<1>>
    ELSE FlattenSeq([i \in DepIdx(n) |-> Latest(n, i)])

\* The call that hands m to subscriber <<by, i>> of n.
ToSubscriber(n, by, i, m) ==
    IF by = Ext THEN Call("sink", n, <<m>>) ELSE ReceiveBy(by, i, m)

\* deliver_subscriber_snapshot: one call per subscriber n has at this moment.
Deliver(n, m) ==
    [k \in 1..Len(subs[n]) |-> ToSubscriber(n, subs[n][k][1], subs[n][k][2], m)]

\* wave_register
Touch(n) ==
    scope' = IF scope.on THEN [scope EXCEPT !.touched = @ \cup {n}] ELSE scope

\* defer_delivery_action_until_boundary
Deferring_FirstOnly(kind, n) ==
    IF deferred[kind] # <<>> THEN deferred ELSE [deferred EXCEPT ![kind] = <<n>>]
Deferring(kind, n) ==
    IF Contains(deferred[kind], n) THEN deferred
    ELSE [deferred EXCEPT ![kind] = Append(@, n)]

\* The pull and pause state that a terminal clears.
Quiesced(a) ==
    [a EXCEPT !.demand = FALSE, !.pulling = FALSE, !.pullDirty = FALSE,
              !.skipped = FALSE, !.buffer = <<>>]

\* A node that loses its value.
Cleared_Reborn(v) == [v EXCEPT !.cache = NoVal, !.status = "sentinel", !.terminal = FALSE]
Cleared(v) == [v EXCEPT !.cache = NoVal, !.status = "sentinel"]

NoDeps(n, x) == [i \in DepIdx(n) |-> x]
FreshDep(n) ==
    [batch |-> NoDeps(n, NoVal), prev |-> NoDeps(n, NoVal), has |-> NoDeps(n, FALSE),
     dirty |-> NoDeps(n, FALSE), terminal |-> NoDeps(n, FALSE), pending |-> 0]
NoDeferred == [deferred_run |-> <<>>, deferred_settle |-> <<>>]
NoScope == [on |-> FALSE, touched |-> {}, blamed |-> NoNode]
NoBatch == [open |-> FALSE, collecting |-> FALSE, targets |-> <<>>,
            waves |-> [n \in Node |-> <<>>]]

Init ==
    /\ value = [n \in Node |-> [cache |-> NoVal, status |-> "sentinel", terminal |-> FALSE]]
    /\ wave = [n \in Node |-> [dirtyOut |-> FALSE, tier3 |-> FALSE, inside |-> FALSE,
                               owed |-> FALSE]]
    /\ dep = [n \in Node |-> FreshDep(n)]
    /\ aux = [n \in Node |-> [active |-> FALSE, ran |-> FALSE, unsubs |-> {}, locks |-> {},
                              skipped |-> FALSE, buffer |-> <<>>, demand |-> FALSE,
                              pulling |-> FALSE, pullDirty |-> FALSE]]
    /\ subs = [n \in Node |-> <<>>]
    /\ stack = <<>>
    /\ scope = NoScope
    /\ depth = 0
    /\ deferred = NoDeferred
    /\ batch = NoBatch
    /\ routed = {}
    /\ inflight = [n \in Node |-> <<>>]
    /\ obs = [n \in Node |-> "off"]
    /\ user \in [program : DOMAIN Programs, made : {0}]

-----------------------------------------------------------------------------
(* Core::down.                                                             *)
DownTerminated ==
    /\ At("down")
    /\ value[Top.n].terminal
    /\ Calls(<<>>)
    /\ UNCHANGED <<value, wave, dep, aux, subs, scope, delivery, outside>>

\* Whether an open batch takes the settle slice of the wave.
Collects_FirstOnly(n, ms) ==
    /\ batch.collecting /\ ~wave[n].inside /\ ~wave[n].dirtyOut
    /\ \E i \in 1..Len(ms) : IsBatchDeferred(ms[i])

Collects(n, ms) ==
    batch.collecting /\ ~wave[n].inside /\ \E i \in 1..Len(ms) : IsBatchDeferred(ms[i])

\* defer_to_batch: the last wave of a target wins, its place in the order stays.
Collect(b, n, ms) ==
    [b EXCEPT !.targets = IF Contains(@, n) THEN @ ELSE Append(@, n),
              !.waves[n] = SelectSeq(ms, IsBatchDeferred)]

\* Deferring the settle slice drops the rest of the wave, after one DIRTY.
DownIntoBatch ==
    /\ At("down")
    /\ LET n == Top.n
           ms == Sorted(Top.ms)
           dirties == ~wave[n].dirtyOut
       IN  /\ ~value[n].terminal
           /\ Collects(n, ms)
           /\ batch' = Collect(batch, n, ms)
           /\ wave' = [wave EXCEPT ![n].dirtyOut = TRUE]
           /\ value' = IF dirties THEN [value EXCEPT ![n].status = "dirty"] ELSE value
           /\ Touch(n)
           /\ Calls(When(dirties, Deliver(n, Msg("DIRTY"))) \o <<Frame("owe", n)>>)
    /\ UNCHANGED <<dep, aux, subs, delivery, routed, inflight, obs, user>>

Owe ==
    /\ At("owe")
    /\ wave' = [wave EXCEPT ![Top.n].owed = TRUE]
    /\ Calls(<<>>)
    /\ UNCHANGED <<value, dep, aux, subs, scope, delivery, outside>>

\* An external value or RESOLVED is announced by a DIRTY, once.
Announces_Never(n, ms) == FALSE
Announces(n, ms) ==
    /\ Has(ms, "DATA") \/ Has(ms, "RESOLVED")
    /\ ~wave[n].inside \/ aux[n].pullDirty
    /\ ~wave[n].dirtyOut

(* Outside a collecting batch: a paused node buffers its settle slice; the *)
(* rest goes out under a delivery scope, after a DIRTY that announces an   *)
(* external value.  A wave that mixes DATA and RESOLVED panics.            *)
DownNow ==
    /\ At("down")
    /\ LET n == Top.n
           ms == Sorted(Top.ms)
           buffering == ShouldBufferOnPause(n)
           Held(m) == buffering /\ IsPauseBuffered(m)
           held == SelectSeq(ms, Held)
           rest == SelectSeq(ms, LAMBDA m : ~Held(m))
           mixed == Has(rest, "DATA") /\ Has(rest, "RESOLVED")
           dirties == ~mixed /\ Announces(n, rest)
           send == <<Frame("enter", n), Call("msg", n, rest), Frame("finish", n)>>
                   \o When(~wave[n].inside, <<Frame("reset", n)>>)
       IN  /\ ~value[n].terminal
           /\ ~Collects(n, ms)
           /\ wave' = [wave EXCEPT ![n].tier3 = @ \/ held # <<>>,
                                   ![n].dirtyOut = @ \/ dirties]
           /\ aux' = IF held = <<>> THEN aux ELSE [aux EXCEPT ![n].buffer = Append(@, held)]
           /\ value' = IF dirties THEN [value EXCEPT ![n].status = "dirty"] ELSE value
           /\ Touch(n)
           /\ Calls(IF rest = <<>> THEN <<>>
                    ELSE IF mixed THEN <<Frame("panic", n)>>
                    ELSE When(dirties, Deliver(n, Msg("DIRTY"))) \o send)
    /\ UNCHANGED <<dep, subs, delivery, outside>>

\* DeliveryGuard: the outermost scope drains the deferred actions when it ends.
Enter ==
    /\ At("enter")
    /\ depth' = depth + 1
    /\ Calls(<<>>)
    /\ UNCHANGED <<value, wave, dep, aux, subs, scope, deferred, outside>>

Finish ==
    /\ At("finish")
    /\ depth' = depth - 1
    /\ Calls(When(depth = 1, <<Frame("drain", Top.n)>>))
    /\ UNCHANGED <<value, wave, dep, aux, subs, scope, deferred, outside>>

\* drain_deferred_runs: rounds of all runs, then all absorbed settles.
DeferredCalls(kind) ==
    [k \in 1..Len(deferred[kind]) |-> Frame(kind, deferred[kind][k])]

Drain_NeverEmpty ==
    /\ At("drain")
    /\ Calls(DeferredCalls("deferred_run") \o DeferredCalls("deferred_settle") \o <<Top>>)
    /\ deferred' = NoDeferred
    /\ UNCHANGED <<value, wave, dep, aux, subs, scope, depth, outside>>

Drain ==
    /\ At("drain")
    /\ Calls(When(deferred # NoDeferred,
                  DeferredCalls("deferred_run") \o DeferredCalls("deferred_settle")
                  \o <<Top>>))
    /\ deferred' = NoDeferred
    /\ UNCHANGED <<value, wave, dep, aux, subs, scope, depth, outside>>

\* DeferredDeliveryAction::apply
ApplyDeferred ==
    /\ At("deferred_run") \/ At("deferred_settle")
    /\ LET then == IF Top.op = "deferred_run" THEN "maybe_run" ELSE "settle" IN
         Calls(When(~value[Top.n].terminal, <<Frame(then, Top.n)>>))
    /\ UNCHANGED <<value, wave, dep, aux, subs, scope, delivery, outside>>

\* The end of a down that was not called from the node's own fn.
Reset ==
    /\ At("reset")
    /\ wave' = [wave EXCEPT ![Top.n].dirtyOut = FALSE, ![Top.n].tier3 = FALSE]
    /\ Calls(<<>>)
    /\ UNCHANGED <<value, dep, aux, subs, scope, delivery, outside>>

(* collect_down_action and apply_down_action, one message after the other, *)
(* by the kind of message.                                                 *)
AtMsg(kinds) == At("msg") /\ Top.ms[1].kind \in kinds
RestOfWave == When(Len(Top.ms) > 1, <<Call("msg", Top.n, Tail(Top.ms))>>)

MsgDirty ==
    /\ AtMsg({"DIRTY"})
    /\ LET n == Top.n
           dirties == ~wave[n].dirtyOut
       IN  /\ wave' = [wave EXCEPT ![n].dirtyOut = TRUE]
           /\ value' = IF dirties THEN [value EXCEPT ![n].status = "dirty"] ELSE value
           /\ Calls(When(dirties, Deliver(n, Msg("DIRTY"))) \o RestOfWave)
    /\ UNCHANGED <<dep, aux, subs, scope, delivery, outside>>

MsgData ==
    /\ AtMsg({"DATA"})
    /\ LET n == Top.n IN
         /\ value' = [value EXCEPT ![n].cache = Top.ms[1].v, ![n].status = "settled"]
         /\ wave' = [wave EXCEPT ![n].tier3 = TRUE]
         /\ Calls(Deliver(n, Top.ms[1]) \o RestOfWave)
    /\ UNCHANGED <<dep, aux, subs, scope, delivery, outside>>

MsgResolved ==
    /\ AtMsg({"RESOLVED"})
    /\ LET n == Top.n IN
         /\ value' = [value EXCEPT ![n].status = IF HasData(n) THEN "resolved" ELSE "sentinel"]
         /\ wave' = [wave EXCEPT ![n].tier3 = TRUE]
         /\ Calls(Deliver(n, Msg("RESOLVED")) \o RestOfWave)
    /\ UNCHANGED <<dep, aux, subs, scope, delivery, outside>>

\* INVALIDATE in a wave, and Core::invalidate: nothing if nothing is cached.
MsgInvalidate ==
    /\ AtMsg({"INVALIDATE"}) \/ At("invalidate")
    /\ LET n == Top.n IN
         /\ value' = IF HasData(n) THEN [value EXCEPT ![n] = Cleared(@)] ELSE value
         /\ Calls(When(HasData(n), Deliver(n, Msg("INVALIDATE"))) \o RestOfWave)
    /\ UNCHANGED <<wave, dep, aux, subs, scope, delivery, outside>>

MsgTerminal ==
    /\ AtMsg({"COMPLETE", "ERROR"})
    /\ LET n == Top.n
           first == ~value[n].terminal
           status == IF Top.ms[1].kind = "COMPLETE" THEN "completed" ELSE "errored"
       IN  /\ value' = IF first THEN [value EXCEPT ![n].terminal = TRUE, ![n].status = status]
                                ELSE value
           /\ aux' = IF first THEN [aux EXCEPT ![n] = Quiesced(@)] ELSE aux
           /\ Calls(When(first, Deliver(n, Top.ms[1])) \o RestOfWave)
    /\ UNCHANGED <<wave, dep, subs, scope, delivery, outside>>

MsgTeardown ==
    /\ AtMsg({"TEARDOWN"})
    /\ Calls(Deliver(Top.n, Msg("TEARDOWN")) \o RestOfWave)
    /\ UNCHANGED <<value, wave, dep, aux, subs, scope, delivery, outside>>

-----------------------------------------------------------------------------
(* Core::receive_from_dep: node n hears message m of its i-th dependency.  *)
AtReceive(kinds) ==
    At("receive") /\ ~value[Top.n].terminal /\ Top.ms[1].kind \in kinds

\* A terminal node only passes TEARDOWN on, and START carries nothing.
ReceiveIdle ==
    /\ At("receive")
    /\ value[Top.n].terminal \/ Top.ms[1].kind = "START"
    /\ Touch(Top.n)
    /\ Calls(When(value[Top.n].terminal /\ Top.ms[1].kind = "TEARDOWN",
                  Deliver(Top.n, Msg("TEARDOWN"))))
    /\ UNCHANGED <<value, wave, dep, aux, subs, delivery, outside>>

ReceiveDirty ==
    /\ AtReceive({"DIRTY"})
    /\ LET n == Top.n
           i == Top.i
           first == ~dep[n].dirty[i]
           dirties == first /\ ~PullQuiet(n) /\ ~wave[n].dirtyOut
       IN  /\ dep' = IF first THEN [dep EXCEPT ![n].dirty[i] = TRUE, ![n].pending = @ + 1]
                              ELSE dep
           /\ wave' = [wave EXCEPT ![n].dirtyOut = @ \/ dirties]
           /\ value' = IF dirties THEN [value EXCEPT ![n].status = "dirty"] ELSE value
           /\ Touch(n)
           /\ Calls(When(dirties, Deliver(n, Msg("DIRTY"))))
    /\ UNCHANGED <<aux, subs, delivery, outside>>

\* A dependency is dirty no more.
Undirtied_FlagKept(d, i) == IF d.dirty[i] THEN [d EXCEPT !.pending = @ - 1] ELSE d
Undirtied(d, i) ==
    IF d.dirty[i] THEN [d EXCEPT !.dirty[i] = FALSE, !.pending = @ - 1] ELSE d

\* DATA or RESOLVED; the last one of the wave lets the node run.
ReceiveSettle ==
    /\ AtReceive({"DATA", "RESOLVED"})
    /\ LET n == Top.n
           i == Top.i
           d == Undirtied(dep[n], i)
           drained == d.pending = 0
           skips == ~drained /\ SkipsWave(n)
       IN  /\ dep' = [dep EXCEPT ![n] = IF Top.ms[1].kind = "DATA"
                         THEN [d EXCEPT !.batch[i] = Top.ms[1].v, !.has[i] = TRUE]
                         ELSE d]
           /\ aux' = [aux EXCEPT ![n].skipped = @ \/ skips]
           /\ Touch(n)
           /\ Calls(When(drained, <<Frame("maybe_run", n), Frame("fire_demand", n)>>))
    /\ UNCHANGED <<value, wave, subs, delivery, outside>>

ReceiveInvalidate ==
    /\ AtReceive({"INVALIDATE"})
    /\ LET n == Top.n
           i == Top.i
           d == [Undirtied(dep[n], i) EXCEPT !.prev[i] = NoVal, !.has[i] = FALSE,
                                             !.batch[i] = NoVal]
           nothingLeft == \A j \in DepIdx(n) : d.batch[j] = NoVal
           buffered == Paused(n) /\ Config[n].mode = "resumeAll" /\ HasData(n)
           undirties == d.pending = 0 /\ wave[n].dirtyOut
       IN  /\ dep' = [dep EXCEPT ![n] = d]
           /\ aux' = [aux EXCEPT ![n].skipped = @ /\ ~nothingLeft]
           /\ Touch(n)
           /\ Calls((IF buffered THEN <<Call("down", n, <<Msg("INVALIDATE")>>)>>
                                 ELSE <<Frame("invalidate", n)>>)
                    \o When(undirties /\ HasData(n), <<Frame("undirty", n)>>)
                    \o When(undirties /\ ~HasData(n), <<Call("down", n, <<Msg("RESOLVED")>>)>>)
                    \o <<Frame("fire_demand", n)>>)
    /\ UNCHANGED <<value, wave, subs, delivery, outside>>

\* clear_undirty_after_invalidate
Undirty ==
    /\ At("undirty")
    /\ wave' = [wave EXCEPT ![Top.n].dirtyOut = FALSE]
    /\ Calls(<<>>)
    /\ UNCHANGED <<value, dep, aux, subs, scope, delivery, outside>>

ReceiveTerminal ==
    /\ AtReceive({"COMPLETE", "ERROR"})
    /\ LET n == Top.n
           kind == Top.ms[1].kind
           d == [Undirtied(dep[n], Top.i) EXCEPT !.terminal[Top.i] = TRUE]
           allTerminal == \A j \in DepIdx(n) : d.terminal[j]
       IN  /\ dep' = [dep EXCEPT ![n] = d]
           /\ Touch(n)
           /\ Calls(<<IF kind = "ERROR" /\ Config[n].autoError
                        THEN Call("down", n, <<Msg("ERROR")>>)
                      ELSE IF Config[n].terminalInput THEN Frame("maybe_run", n)
                      ELSE IF Config[n].autoComplete /\ allTerminal
                        THEN Call("down", n, <<Msg("COMPLETE")>>)
                      ELSE Frame("settle", n),
                      Frame("fire_demand", n)>>)
    /\ UNCHANGED <<value, wave, aux, subs, delivery, outside>>

ReceiveTeardown ==
    /\ AtReceive({"TEARDOWN"})
    /\ Touch(Top.n)
    /\ Calls(<<Call("down", Top.n, <<Msg("COMPLETE"), Msg("TEARDOWN")>>)>>)
    /\ UNCHANGED <<value, wave, dep, aux, subs, delivery, outside>>

-----------------------------------------------------------------------------
(* Running a node's fn.                                                    *)

\* The calls decide_maybe_run_from_graph and try_run lead to.
RunOrRelay(n) == IF Config[n].fn THEN <<Frame("run", n)>> ELSE <<Frame("passthrough", n)>>

\* Core::maybe_run: deferred while a delivery is in flight; while paused the
\* default mode only remembers that a wave was skipped.
MaybeRun ==
    /\ At("maybe_run")
    /\ LET n == Top.n
           skips == depth = 0 /\ SkipsWave(n)
           runs == /\ depth = 0 /\ ~skips /\ dep[n].pending = 0
                   /\ Config[n].fn => GateOpen(n)
       IN  /\ deferred' = IF depth > 0 THEN Deferring("deferred_run", n) ELSE deferred
           /\ aux' = [aux EXCEPT ![n].skipped = @ \/ skips]
           /\ Calls(When(runs, RunOrRelay(n)))
    /\ UNCHANGED <<value, wave, dep, subs, scope, depth, outside>>

\* Core::try_run, on RESUME and on a pull demand.
TryRun ==
    /\ At("try_run")
    /\ LET n == Top.n IN
         Calls(When(dep[n].pending = 0 /\ (Config[n].fn => GateOpen(n)), RunOrRelay(n)))
    /\ UNCHANGED <<value, wave, dep, aux, subs, scope, delivery, outside>>

\* Core::passthrough_emit: a wire without a fn relays its dependency's latest DATA.
Passthrough ==
    /\ At("passthrough")
    /\ LET n == Top.n
           v == dep[n].batch[1]
       IN  /\ dep' = IF v = NoVal THEN dep
                     ELSE [dep EXCEPT ![n].prev[1] = v, ![n].batch[1] = NoVal]
           /\ Calls(When(v # NoVal, <<Call("down", n, <<Data(v)>>)>>))
    /\ UNCHANGED <<value, wave, aux, subs, scope, delivery, outside>>

\* Core::settle_after_absorbed_terminal
Settle ==
    /\ At("settle")
    /\ LET n == Top.n
           owes == depth = 0 /\ dep[n].pending = 0 /\ wave[n].dirtyOut
           sawData == \E i \in DepIdx(n) : dep[n].batch[i] # NoVal
       IN  /\ deferred' = IF depth > 0 THEN Deferring("deferred_settle", n) ELSE deferred
           /\ Calls(When(owes, When(sawData, <<Frame("maybe_run", n)>>)
                               \o <<Frame("settle_rest", n)>>))
    /\ UNCHANGED <<value, wave, dep, aux, subs, scope, depth, outside>>

SettleRest ==
    /\ At("settle_rest")
    /\ Calls(When(wave[Top.n].dirtyOut, <<Call("down", Top.n, <<Msg("RESOLVED")>>)>>))
    /\ UNCHANGED <<value, wave, dep, aux, subs, scope, delivery, outside>>

\* What the fn of n does when it is invoked: the calls it makes.
FnCalls(n, act) ==
    CASE act = "emit" -> <<Call("down", n, <<Data(FnValue(n))>>)>>
      [] act = "emit_complete" -> <<Call("down", n, <<Msg("COMPLETE"), Data(FnValue(n))>>)>>
      [] act = "complete" -> <<Call("down", n, <<Msg("COMPLETE")>>)>>
      [] act = "none" -> <<>>
      [] act = "defer" -> <<>>
      [] act = "panic" -> <<Frame("panic", n)>>
      [] act = "poke" -> <<Call("owned_down", Deps[n][1], <<Data(Latest(n, 1))>>)>>

(* Core::run_wave up to and including the fn's own calls.  A fn that is    *)
(* re-entered from its own wave panics; one that defers keeps a            *)
(* DeferredCtx with the dependencies' values.                              *)
Run ==
    /\ At("run")
    /\ LET n == Top.n IN
         IF wave[n].inside
           THEN /\ Touch(n)
                /\ Calls(<<Frame("panic", n)>>)
                /\ UNCHANGED <<wave, aux, inflight>>
           ELSE \E act \in FnActs[n] :
                /\ wave' = [wave EXCEPT ![n].inside = TRUE, ![n].tier3 = FALSE]
                /\ aux' = [aux EXCEPT ![n].ran = TRUE]
                /\ scope' = IF scope.on
                              THEN [scope EXCEPT !.touched = @ \cup {n}, !.blamed = n]
                              ELSE scope
                /\ inflight' = IF act = "defer"
                                 THEN [inflight EXCEPT ![n] = Append(@, FnValue(n))]
                                 ELSE inflight
                /\ Calls(FnCalls(n, act) \o <<Frame("run_end", n)>>)
    /\ UNCHANGED <<value, dep, subs, delivery, batch, routed, obs, user>>

\* After the fn: a node that announced DIRTY and settled nothing owes a RESOLVED.
OwesUndirty(n) ==
    wave[n].dirtyOut /\ ~wave[n].tier3 /\ ~value[n].terminal /\ ~Config[n].async

RunEnd ==
    /\ At("run_end")
    /\ LET n == Top.n
           undirty == OwesUndirty(n)
       IN  /\ wave' = [wave EXCEPT ![n].inside = FALSE]
           /\ Calls(When(undirty, <<Call("down", n, <<Msg("RESOLVED")>>)>>)
                    \o <<Frame(IF undirty THEN "roll_undirty" ELSE "roll", n)>>)
    /\ UNCHANGED <<value, dep, aux, subs, scope, delivery, outside>>

\* The wave's dependency values become the previous ones.
Roll ==
    /\ At("roll") \/ At("roll_undirty")
    /\ LET n == Top.n
           d == dep[n]
           keep == Top.op = "roll_undirty" /\ (wave[n].owed \/ wave[n].tier3)
       IN  /\ dep' = [dep EXCEPT
                ![n].prev = [i \in DepIdx(n) |-> IF d.batch[i] # NoVal THEN d.batch[i]
                                                                       ELSE d.prev[i]],
                ![n].batch = NoDeps(n, NoVal)]
           /\ wave' = IF keep THEN wave
                      ELSE [wave EXCEPT ![n].dirtyOut = FALSE, ![n].tier3 = FALSE]
           /\ Calls(<<>>)
    /\ UNCHANGED <<value, aux, subs, scope, delivery, outside>>

-----------------------------------------------------------------------------
(* Upstream control: pause locks, pull demands, requests to the source.    *)
Forward(n, m) == [i \in DepIdx(n) |-> Call("up", Deps[n][i], <<m>>)]
AtUp(kinds) == At("up") /\ Top.ms[1].kind \in kinds

UpPause ==
    /\ AtUp({"PAUSE"})
    /\ aux' = [aux EXCEPT ![Top.n].locks = @ \cup {Top.ms[1].v}]
    /\ Calls(<<>>)
    /\ UNCHANGED <<value, wave, dep, subs, scope, delivery, outside>>

\* pause_release of a held lock, a forwarded RESUME otherwise.
UpResume ==
    /\ AtUp({"RESUME"})
    /\ LET n == Top.n
           lock == Top.ms[1].v
           resumed == aux[n].locks = {lock}
       IN  /\ aux' = [aux EXCEPT ![n].locks = @ \ {lock}]
           /\ Calls(IF lock \in aux[n].locks
                      THEN When(resumed /\ ~Config[n].pull, <<Frame("on_resume", n)>>)
                           \o <<Frame("fire_demand", n)>>
                      ELSE Forward(n, Top.ms[1]))
    /\ UNCHANGED <<value, wave, dep, subs, scope, delivery, outside>>

\* The holder of the pull id takes the demand once per up call, and not while
\* it is serving one.
UpPull ==
    /\ AtUp({"PULL"})
    /\ LET n == Top.n
           holder == Config[n].pull /\ Top.ms[1].v = <<n>>
           takes == holder /\ n \notin routed /\ ~aux[n].pulling
       IN  /\ routed' = IF holder THEN routed \cup {n} ELSE routed
           /\ aux' = [aux EXCEPT ![n].demand = @ \/ takes]
           /\ Calls(IF holder THEN When(takes, <<Frame("fire_demand", n)>>)
                    ELSE Forward(n, Top.ms[1]))
    /\ UNCHANGED <<value, wave, dep, subs, scope, delivery, batch, inflight, obs, user>>

\* A source honours INVALIDATE and drops DIRTY and TEARDOWN; others forward.
UpRequest ==
    /\ AtUp({"INVALIDATE", "DIRTY", "TEARDOWN"})
    /\ LET n == Top.n IN
         Calls(IF Deps[n] # <<>> THEN Forward(n, Top.ms[1])
               ELSE When(Top.ms[1].kind = "INVALIDATE",
                         <<Call("down", n, <<Msg("INVALIDATE")>>)>>))
    /\ UNCHANGED <<value, wave, dep, aux, subs, scope, delivery, outside>>

\* Core::on_resume: replay the buffer, then run a skipped wave once.
OnResume ==
    /\ At("on_resume")
    /\ LET n == Top.n
           replay == [k \in 1..Len(aux[n].buffer) |-> Call("down", n, aux[n].buffer[k])]
       IN  IF value[n].terminal
             THEN aux' = [aux EXCEPT ![n] = Quiesced(@)] /\ Calls(<<>>)
             ELSE /\ aux' = [aux EXCEPT ![n].buffer = <<>>]
                  /\ Calls(replay \o <<Frame("resume_skipped", n)>>)
    /\ UNCHANGED <<value, wave, dep, subs, scope, delivery, outside>>

ResumeSkipped ==
    /\ At("resume_skipped")
    /\ aux' = [aux EXCEPT ![Top.n].skipped = FALSE]
    /\ Calls(When(aux[Top.n].skipped, <<Frame("try_run", Top.n)>>))
    /\ UNCHANGED <<value, wave, dep, subs, scope, delivery, outside>>

\* Core::can_fire_demand
CanFireDemand(n) ==
    /\ Config[n].pull /\ ~value[n].terminal
    /\ dep[n].pending = 0 /\ aux[n].locks = {}
    /\ Config[n].fn => GateOpen(n)

\* Core::fire_owed_demand_if_ready and deliver_pull_demand
FireDemand ==
    /\ At("fire_demand")
    /\ LET n == Top.n
           fires == ~aux[n].pulling /\ CanFireDemand(n) /\ aux[n].demand
       IN  /\ aux' = IF fires THEN [aux EXCEPT ![n].demand = FALSE, ![n].pulling = TRUE] ELSE aux
           /\ Calls(When(fires, <<Frame("fire_pull", n), Frame("pull_end", n)>>))
    /\ UNCHANGED <<value, wave, dep, subs, scope, delivery, outside>>

(* Core::fire_pull_demand: deliver what is buffered (the last wave only in *)
(* the default mode), else run, letting the run announce DIRTY again.  The *)
(* gate was open when the demand fired, and nothing ran in between.        *)
FirePull ==
    /\ At("fire_pull")
    /\ LET n == Top.n
           buffer == aux[n].buffer
           replay == IF Config[n].mode = "true" THEN <<Last(buffer)>> ELSE buffer
           runs == buffer = <<>> /\ (aux[n].skipped \/ Config[n].fn)
       IN  /\ aux' = [aux EXCEPT ![n].buffer = <<>>,
                                 ![n].skipped = @ /\ ~runs,
                                 ![n].pullDirty = @ \/ runs]
           /\ wave' = IF runs THEN [wave EXCEPT ![n].dirtyOut = FALSE] ELSE wave
           /\ Calls(IF buffer # <<>>
                      THEN [k \in 1..Len(replay) |-> Call("down", n, replay[k])]
                      ELSE When(runs, <<Frame("try_run", n)>>))
    /\ UNCHANGED <<value, dep, subs, scope, delivery, outside>>

PullEnd ==
    /\ At("pull_end")
    /\ aux' = [aux EXCEPT ![Top.n].pulling = FALSE, ![Top.n].pullDirty = FALSE]
    /\ Calls(<<>>)
    /\ UNCHANGED <<value, wave, dep, subs, scope, delivery, outside>>

-----------------------------------------------------------------------------
(* Subscription and lazy activation.                                       *)

\* Core::subscribe_recording_id: START, the cached state, then activation.
Subscribe ==
    /\ At("subscribe")
    /\ LET n == Top.n
           To(m) == <<ToSubscriber(n, Top.by, Top.i, m)>>
           push == IF Config[n].pull THEN <<>>
                   ELSE IF HasData(n) THEN To(Data(value[n].cache))
                   ELSE When(value[n].status = "dirty", To(Msg("DIRTY")))
       IN  /\ subs' = [subs EXCEPT ![n] = Append(@, <<Top.by, Top.i>>)]
           /\ Calls(To(Msg("START")) \o push \o <<Frame("activate", n)>>)
    /\ UNCHANGED <<value, wave, dep, aux, scope, delivery, outside>>

\* Core::activate, on the first subscription.
Activate ==
    /\ At("activate")
    /\ LET n == Top.n IN
         IF aux[n].active
           THEN UNCHANGED aux /\ Calls(<<>>)
           ELSE /\ aux' = [aux EXCEPT ![n].active = TRUE, ![n].unsubs = {}]
                /\ Calls([i \in DepIdx(n) |-> OfSubscriber("subscribe_dep", n, n, i)]
                         \o <<Frame("produce", n)>>)
    /\ UNCHANGED <<value, wave, dep, subs, scope, delivery, outside>>

SubscribeDep ==
    /\ At("subscribe_dep")
    /\ Calls(<<OfSubscriber("subscribe", Deps[Top.n][Top.i], Top.n, Top.i),
               OfSubscriber("subscribed_dep", Top.n, Top.n, Top.i)>>)
    /\ UNCHANGED <<value, wave, dep, aux, subs, scope, delivery, outside>>

\* The unsubscribe handle is recorded; a node that was deactivated meanwhile
\* has no place for it, and the index panics.
SubscribedDep ==
    /\ At("subscribed_dep")
    /\ LET n == Top.n IN
         IF aux[n].active
           THEN aux' = [aux EXCEPT ![n].unsubs = @ \cup {Top.i}] /\ Calls(<<>>)
           ELSE UNCHANGED aux /\ Calls(<<Frame("panic", n)>>)
    /\ UNCHANGED <<value, wave, dep, subs, scope, delivery, outside>>

\* A producer (a fn without dependencies) runs once when it is activated.
Produce ==
    /\ At("produce")
    /\ LET n == Top.n IN
         Calls(When(Deps[n] = <<>> /\ Config[n].fn /\ ~aux[n].ran, <<Frame("run", n)>>))
    /\ UNCHANGED <<value, wave, dep, aux, subs, scope, delivery, outside>>

\* Core::unsubscribe.  Subscription ids are unique: of two entries of one
\* subscriber, the handle is for the later one.
Unsubscribe_StaysActive ==
    /\ At("unsubscribe")
    /\ subs' = [subs EXCEPT ![Top.n] = SelectSeq(@, LAMBDA s : s # <<Top.by, Top.i>>)]
    /\ Calls(<<>>)
    /\ UNCHANGED <<value, wave, dep, aux, scope, delivery, outside>>

Unsubscribe ==
    /\ At("unsubscribe")
    /\ LET n == Top.n
           mine == {k \in 1..Len(subs[n]) : subs[n][k] = <<Top.by, Top.i>>}
       IN  \/ /\ mine = {}
              /\ UNCHANGED subs
              /\ Calls(<<>>)
           \/ \E k \in mine :
              /\ \A j \in mine : j <= k
              /\ subs' = [subs EXCEPT ![n] = RemoveAt(@, k)]
              /\ Calls(When(Len(subs[n]) = 1, <<Frame("deactivate", n)>>))
    /\ UNCHANGED <<value, wave, dep, aux, scope, delivery, outside>>

\* The place of an unsubscribe handle that was not recorded; no subscriber has it.
NoHandle == 0

\* Core::deactivate: a compute node drops its cache, and every node its
\* dependency, pause and pull state.
Deactivate ==
    /\ At("deactivate")
    /\ LET n == Top.n
           Handle(i) == IF i \in aux[n].unsubs THEN i ELSE NoHandle
       IN  /\ aux' = [aux EXCEPT ![n] = [Quiesced(@) EXCEPT
                          !.active = FALSE, !.ran = FALSE, !.unsubs = {}, !.locks = {}]]
           /\ value' = IF IsCompute(n) THEN [value EXCEPT ![n] = Cleared(@)] ELSE value
           /\ dep' = [dep EXCEPT ![n] = FreshDep(n)]
           /\ wave' = [wave EXCEPT ![n].dirtyOut = FALSE]
           /\ Calls([i \in DepIdx(n) |->
                        OfSubscriber("unsubscribe", Deps[n][i], n, Handle(i))])
    /\ UNCHANGED <<subs, scope, delivery, outside>>

\* What an external sink has seen of its node.
Observe(seen, kind) ==
    CASE kind = "START" -> "hello"
      [] kind = "DIRTY" -> "dirty"
      [] kind \in {"DATA", "RESOLVED"} ->
            IF seen \in {"hello", "opening"} THEN "opening" ELSE "settled"
      [] kind \in {"COMPLETE", "ERROR"} -> "over"
      [] kind \in {"INVALIDATE", "TEARDOWN"} -> seen

\* The user has the handle that detaches the external sink of n.
Detachable(n) ==
    /\ Contains(subs[n], <<Ext, 1>>)
    /\ ~ \E k \in 1..Len(stack) : stack[k].op = "subscribed" /\ stack[k].n = n

\* An external sink is called; it may unsubscribe a sink, or panic.
Sink ==
    /\ At("sink")
    /\ obs' = [obs EXCEPT ![Top.n] = Observe(@, Top.ms[1].kind)]
    /\ \/ Calls(<<>>)
       \/ /\ "unsubscribe" \in Does.sinkActs
          /\ \E t \in Does.observed : /\ Detachable(t)
                                 /\ Calls(<<OfSubscriber("unsubscribe", t, Ext, 1)>>)
       \/ "panic" \in Does.sinkActs /\ Calls(<<Frame("panic", Top.n)>>)
    /\ UNCHANGED <<value, wave, dep, aux, subs, scope, delivery, batch, routed, inflight, user>>

-----------------------------------------------------------------------------
(* Wave ownership and recovery (with_wave_owner).                          *)
NewScope == [NoScope EXCEPT !.on = TRUE]

\* Core::owned_down inside user code: a wave in flight takes it in.
OwnedDown ==
    /\ At("owned_down")
    /\ scope' = IF scope.on THEN scope ELSE NewScope
    /\ Calls(<<Call("down", Top.n, Top.ms)>> \o When(~scope.on, <<Frame("owner_end", Top.n)>>))
    /\ UNCHANGED <<value, wave, dep, aux, subs, delivery, outside>>

OwnerEnd ==
    /\ At("owner_end")
    /\ scope' = NoScope
    /\ Calls(<<>>)
    /\ UNCHANGED <<value, wave, dep, aux, subs, delivery, outside>>

\* reset_wave_flags_inner
ResetDep_KeepsDirty(n, d) == [d EXCEPT !.batch = NoDeps(n, NoVal)]
ResetDep(n, d) ==
    [d EXCEPT !.batch = NoDeps(n, NoVal), !.dirty = NoDeps(n, FALSE), !.pending = 0]

\* The delivery guards dropped while the frames up to catch unwind.
UnwoundDepth(catch) ==
    LET Count(op) == Cardinality({k \in 1..catch : stack[k].op = op})
    IN  depth - (Count("finish") - Count("enter"))

\* What the owner does after the unwinding: ERROR from the node blamed.
Recovery(blamed) == <<Call("down", blamed, <<Msg("ERROR")>>), Frame("recovered", blamed)>>

\* The innermost frame that catches a panic.
Catches(k) ==
    /\ stack[k].op \in {"owner_end", "recovered"}
    /\ \A j \in 1..(k - 1) : stack[j].op \notin {"owner_end", "recovered"}

(* A panic unwinds to the wave's owner, or to the catch around the         *)
(* recovery's own ERROR: guards clear inside_run_wave, the pull delivery   *)
(* and the delivery depth on the way.  The owner resets the nodes the wave *)
(* touched, drops the deferred actions and emits ERROR from the node       *)
(* blamed.                                                                 *)
Panic ==
    /\ At("panic")
    /\ \E catch \in 1..Len(stack) :
         LET Nodes(op) == {stack[k].n : k \in {j \in 1..catch : stack[j].op = op}}
             owner == stack[catch].op = "owner_end"
             reset == IF owner THEN scope.touched ELSE {}
             blamed == IF scope.blamed # NoNode THEN scope.blamed ELSE stack[catch].n
         IN  /\ Catches(catch)
             /\ wave' = [n \in Node |->
                   [wave[n] EXCEPT !.inside = @ /\ n \notin reset \cup Nodes("run_end"),
                                   !.dirtyOut = @ /\ n \notin reset,
                                   !.tier3 = @ /\ n \notin reset]]
             /\ dep' = [n \in Node |-> IF n \in reset THEN ResetDep(n, dep[n]) ELSE dep[n]]
             /\ aux' = [n \in Node |-> IF n \in Nodes("pull_end")
                          THEN [aux[n] EXCEPT !.pulling = FALSE, !.pullDirty = FALSE]
                          ELSE aux[n]]
             /\ depth' = UnwoundDepth(catch)
             /\ deferred' = NoDeferred
             /\ scope' = IF owner THEN NoScope ELSE scope
             /\ stack' = When(owner, Recovery(blamed)) \o SubSeq(stack, catch + 1, Len(stack))
    /\ UNCHANGED <<value, subs, outside>>

Recovered ==
    /\ At("recovered")
    /\ deferred' = NoDeferred
    /\ Calls(<<>>)
    /\ UNCHANGED <<value, wave, dep, aux, subs, scope, depth, outside>>

-----------------------------------------------------------------------------
(* Batches (batch.rs).                                                     *)

\* Core::commit_batched_wave, a wave of its own for each target.
CommitTarget ==
    /\ At("commit")
    /\ wave' = [wave EXCEPT ![Top.n].owed = FALSE]
    /\ Calls(<<Call("owned_down", Top.n, Top.ms)>>)
    /\ UNCHANGED <<value, dep, aux, subs, scope, delivery, outside>>

\* Core::rollback_batched: balance the DIRTY the batch announced.
RollbackTarget ==
    /\ At("rollback")
    /\ wave' = [wave EXCEPT ![Top.n].owed = FALSE]
    /\ Calls(When(wave[Top.n].owed, <<Call("owned_down", Top.n, <<Msg("RESOLVED")>>)>>))
    /\ UNCHANGED <<value, dep, aux, subs, scope, delivery, outside>>

CloseBatch ==
    /\ At("close_batch")
    /\ batch' = NoBatch
    /\ Calls(<<>>)
    /\ UNCHANGED <<value, wave, dep, aux, subs, scope, delivery, routed, inflight, obs, user>>

-----------------------------------------------------------------------------
(* The user's calls, made when no wave is in flight.                       *)
Idle == stack = <<>>

\* The sinks have seen the call before to its end.
NextCall ==
    obs' = [n \in Node |-> IF obs[n] \in {"opening", "settled"} THEN "clean" ELSE obs[n]]

UserCall(op) ==
    /\ Idle
    /\ batch.open => op \in Does.inBatch
    /\ user.made < Does.calls
    /\ user' = [user EXCEPT !.made = @ + 1]
    /\ NextCall

\* with_wave_owner around a public entry point.
OwnedCall(n, frame) ==
    /\ scope' = NewScope
    /\ stack' = <<frame, Frame("owner_end", n)>>

UserDown(n, ms) ==
    /\ UserCall("down")
    /\ OwnedCall(n, Call("down", n, ms))
    /\ UNCHANGED <<value, wave, dep, aux, subs, delivery, batch, routed, inflight>>

UserUp(n, m) ==
    /\ UserCall("up")
    /\ OwnedCall(n, Call("up", n, <<m>>))
    /\ routed' = {}
    /\ UNCHANGED <<value, wave, dep, aux, subs, delivery, batch, inflight>>

\* Node::subscribe rejects a terminal node.
UserSubscribe(n) ==
    /\ UserCall("subscribe")
    /\ ~value[n].terminal
    /\ ~Contains(subs[n], <<Ext, 1>>)
    /\ scope' = NewScope
    /\ stack' = <<OfSubscriber("subscribe", n, Ext, 1), Frame("owner_end", n),
                  Frame("subscribed", n)>>
    /\ UNCHANGED <<value, wave, dep, aux, subs, delivery, batch, routed, inflight>>

\* Node::subscribe returns the unsubscribe handle.
Subscribed ==
    /\ At("subscribed")
    /\ Calls(<<>>)
    /\ UNCHANGED <<value, wave, dep, aux, subs, scope, delivery, outside>>

UserUnsubscribe(n) ==
    /\ UserCall("subscribe")
    /\ Contains(subs[n], <<Ext, 1>>)
    /\ stack' = <<OfSubscriber("unsubscribe", n, Ext, 1)>>
    /\ UNCHANGED <<value, wave, dep, aux, subs, scope, delivery, batch, routed, inflight>>

\* DeferredCtx::emit of a result that an async fn computed earlier; results
\* may come back in any order.
LateEmit(n) ==
    /\ Idle
    /\ \E k \in 1..Len(inflight[n]) :
         /\ inflight' = [inflight EXCEPT ![n] = RemoveAt(@, k)]
         /\ OwnedCall(n, Call("down", n, <<Data(inflight[n][k])>>))
    /\ NextCall
    /\ UNCHANGED <<value, wave, dep, aux, subs, delivery, batch, routed, user>>

OpenBatch ==
    /\ UserCall("open")
    /\ Does.inBatch # {}
    /\ ~batch.open
    /\ batch' = [NoBatch EXCEPT !.open = TRUE, !.collecting = TRUE]
    /\ UNCHANGED <<value, wave, dep, aux, subs, stack, scope, delivery, routed, inflight>>

\* take_for_finish and commit, or rollback after ctx.rollback or a panic.
FinishBatch(op) ==
    /\ Idle
    /\ batch.open
    /\ batch' = [batch EXCEPT !.collecting = FALSE]
    /\ stack' = [k \in 1..Len(batch.targets) |->
                    Call(op, batch.targets[k], batch.waves[batch.targets[k]])]
                \o <<Frame("close_batch", NoNode)>>
    /\ NextCall
    /\ UNCHANGED <<value, wave, dep, aux, subs, scope, delivery, routed, inflight, user>>

Commit == FinishBatch("commit")
Rollback == FinishBatch("rollback")

\* One step of the engine: the top of the stack.
Step ==
    \/ DownTerminated \/ DownIntoBatch \/ Owe \/ DownNow \/ Enter \/ Finish \/ Drain
    \/ ApplyDeferred \/ Reset
    \/ MsgDirty \/ MsgData \/ MsgResolved \/ MsgInvalidate \/ MsgTerminal \/ MsgTeardown
    \/ ReceiveIdle \/ ReceiveDirty \/ ReceiveSettle \/ ReceiveInvalidate \/ Undirty
    \/ ReceiveTerminal \/ ReceiveTeardown
    \/ MaybeRun \/ TryRun \/ Passthrough \/ Settle \/ SettleRest \/ Run \/ RunEnd \/ Roll
    \/ UpPause \/ UpResume \/ UpPull \/ UpRequest \/ OnResume \/ ResumeSkipped
    \/ FireDemand \/ FirePull \/ PullEnd
    \/ Subscribe \/ Activate \/ SubscribeDep \/ SubscribedDep \/ Produce
    \/ Unsubscribe \/ Deactivate \/ Sink
    \/ OwnedDown \/ OwnerEnd \/ Panic \/ Recovered
    \/ CommitTarget \/ RollbackTarget \/ CloseBatch \/ Subscribed

User ==
    \/ \E d \in Does.downs : UserDown(d[1], d[2])
    \/ \E u \in Does.ups : UserUp(u[1], u[2])
    \/ \E n \in Does.observed : UserSubscribe(n) \/ UserUnsubscribe(n)
    \/ \E n \in Node : LateEmit(n)
    \/ OpenBatch \/ Commit \/ Rollback

Next == Step \/ User

\* The engine runs on the caller's thread: a call that was made goes on.
Spec == Init /\ [][Next]_vars /\ WF_vars(Step)

-----------------------------------------------------------------------------
Subscriber == {<<Ext, 1>>} \cup UNION {{n} \X DepIdx(n) : n \in Node}

Statuses == {"sentinel", "dirty", "settled", "resolved", "completed", "errored"}

(* The type of the state: statuses, the pending count of a node within its *)
(* number of dependencies, subscribers that are dependents or external     *)
(* sinks, recorded unsubscribes that name dependencies, calls of handlers  *)
(* on nodes of the graph.                                                  *)
TypeOK ==
    /\ \A n \in Node :
         /\ value[n].status \in Statuses /\ value[n].terminal \in BOOLEAN
         /\ dep[n].pending \in 0..Len(Deps[n])
         /\ aux[n].unsubs \subseteq DepIdx(n)
    /\ subs \in [Node -> Seq(Subscriber)]
    /\ \A k \in 1..Len(stack) : stack[k].op # "close_batch" => stack[k].n \in Node
    /\ scope.blamed \in Node \cup {NoNode}

(* DepState.pending always equals the number of dependencies marked dirty, *)
(* whatever mix of DATA, RESOLVED, INVALIDATE, terminals and activations a *)
(* node receives: the count decides when the fn runs, so a drift would run *)
(* it early or never.                                                      *)
PendingCounts ==
    \A n \in Node : dep[n].pending = Cardinality({i \in DepIdx(n) : dep[n].dirty[i]})

(* When a user call has returned or a panic has been recovered, nothing of *)
(* the wave is left: no delivery scope, no deferred action, no wave owner, *)
(* no node inside its fn or serving a pull (WaveGuard, DeliveryGuard,      *)
(* with_wave_owner).                                                       *)
QuietAtIdle ==
    Idle => /\ depth = 0 /\ deferred = NoDeferred /\ scope = NoScope
            /\ \A n \in Node : ~wave[n].inside /\ ~aux[n].pulling /\ ~aux[n].pullDirty

\* The nodes each node depends on, directly or not.
Upstream ==
    LET up[n \in Node] == {Deps[n][i] : i \in DepIdx(n)}
                          \cup UNION {up[Deps[n][i]] : i \in DepIdx(n)}
    IN  up

\* The value each node would have if it were computed from its sources now.
Expected ==
    LET expect[n \in Node] ==
            IF Deps[n] = <<>> THEN (IF HasData(n) THEN value[n].cache ELSE <<0>>)
            ELSE FlattenSeq([i \in DepIdx(n) |-> expect[Deps[n][i]]])
    IN  expect

(* A computed node only ever runs on a consistent cut of its sources: what *)
(* its fn reads is what the sources hold at that moment, along every path  *)
(* of a diamond, unless a node on the way is held back by a pause or pull, *)
(* or replays waves it buffered (receive_from_dep counts the dirty         *)
(* dependencies before decide_maybe_run lets the fn run).                  *)
GlitchFree ==
    /\ At("run") /\ Deps[Top.n] # <<>>
    /\ \A m \in Upstream[Top.n] : ~Paused(m) /\ Config[m].mode # "resumeAll"
    => FnValue(Top.n) = Expected[Top.n]

\* A node that will still settle what it announced.
Waiting(d) ==
    Paused(d) \/ inflight[d] # <<>> \/ \E j \in DepIdx(d) : dep[d].dirty[j]

(* When a user call has returned, no active node still waits for a         *)
(* dependency that has nothing more to say: every DIRTY a node was sent has*)
(* been settled by DATA, RESOLVED, INVALIDATE or a terminal, unless the    *)
(* dependency is paused, has an async result outstanding, waits itself, or *)
(* has not yet passed its first-run gate.                                  *)
NoStrandedDirty ==
    Idle /\ ~batch.open =>
        \A n \in Node : \A i \in DepIdx(n) :
            aux[n].active /\ dep[n].dirty[i] => Waiting(Deps[n][i]) \/ ~GateOpen(Deps[n][i])

(* NoStrandedDirty without the exception for the first-run gate: what the  *)
(* comment of settle_after_absorbed_terminal promises for a node whose     *)
(* recompute was gated, that the DIRTY it broadcast is balanced by a       *)
(* RESOLVED.                                                               *)
EveryDirtySettles ==
    Idle /\ ~batch.open =>
        \A n \in Node : \A i \in DepIdx(n) :
            aux[n].active /\ dep[n].dirty[i] => Waiting(Deps[n][i])

(* When a user call has returned, every active computed node whose sources *)
(* have data shows the value computed from the sources' current values: no *)
(* wave is lost to a pause lock, a deferred run or a coalesced delivery    *)
(* once nothing is paused or outstanding.                                  *)
CaughtUp ==
    Idle /\ ~batch.open =>
        \A n \in Node :
            /\ aux[n].active /\ IsCompute(n) /\ ~value[n].terminal
            /\ \A m \in Upstream[n] \cup {n} : ~Paused(m) /\ inflight[m] = <<>>
            /\ \A m \in Upstream[n] : HasData(m) /\ ~value[m].terminal
            => value[n].cache = Expected[n]

(* While a batch commits, a node that depends on several targets of the    *)
(* batch runs only after the last of them has been committed: it never sees*)
(* half of the batch (commit_batched_wave with the DIRTY each target       *)
(* announced).                                                             *)
BatchAtomic ==
    At("run") =>
        ~ \E k \in 1..Len(stack) : stack[k].op = "commit" /\ stack[k].n \in Upstream[Top.n]

(* A computed node in the default pause mode never runs its fn while it    *)
(* holds a pause lock or, as a pull node, while no demand is being served  *)
(* (decide_maybe_run).  A producer runs once when it is activated, paused  *)
(* or not (activate).                                                      *)
PauseHolds ==
    At("run") /\ Deps[Top.n] # <<>> => ~(Config[Top.n].mode = "true" /\ Paused(Top.n))

(* When a user call has returned, a node that is not paused has no buffered*)
(* wave and no skipped wave left: RESUME of the last lock replayed all of  *)
(* them (on_resume).                                                       *)
ResumeDrains ==
    Idle => \A n \in Node : Paused(n) \/ (aux[n].buffer = <<>> /\ ~aux[n].skipped)

(* When a user call has returned, a node is active exactly when it has     *)
(* subscribers, and node m appears among the subscribers of n exactly once *)
(* for each of its dependencies on n whose unsubscribe handle it has       *)
(* recorded: no orphaned and no duplicate edge after any interleaving of   *)
(* activations and deactivations.                                          *)
EdgesOwned ==
    Idle => \A n \in Node :
        /\ aux[n].active <=> subs[n] # <<>>
        /\ \A m \in Node : \A i \in DepIdx(m) :
              Cardinality({k \in 1..Len(subs[n]) : subs[n][k] = <<m, i>>})
                = IF Deps[m][i] = n /\ i \in aux[m].unsubs THEN 1 ELSE 0

(* When a user call has returned, a computed node without subscribers has  *)
(* no cached value: deactivation cleared it and nothing fills it again     *)
(* (deactivate).                                                           *)
InactiveIsEmpty ==
    Idle => \A n \in Node : IsCompute(n) /\ ~aux[n].active => ~HasData(n)

(* After a panic in user code was recovered, the node blamed for it is     *)
(* terminal: the ERROR the owner emits from it took effect, even when a    *)
(* sink panics on that ERROR (with_wave_owner).                            *)
PanicSurfaces == At("recovered") => value[Top.n].terminal

(* While a batch collects, no DATA, RESOLVED, INVALIDATE or terminal is    *)
(* delivered: batch-deferred tiers are held until the batch commits        *)
(* (defer_to_batch).                                                       *)
BatchHolds == At("msg") /\ batch.collecting => ~IsBatchDeferred(Top.ms[1])

(* When a user call has returned, no pull demand that could be served is   *)
(* still owed: whatever made the node ready (the last dependency, the last *)
(* pause lock) also fired the demand (fire_owed_demand_if_ready).          *)
DemandServed == Idle => \A n \in Node : aux[n].demand => ~CanFireDemand(n)

(* A pull node emits DATA only while it serves a demand (fire_pull_demand).*)
PullQuietHolds ==
    At("msg") /\ Config[Top.n].pull /\ Top.ms[1].kind = "DATA" => aux[Top.n].pulling

Protocol == INSTANCE SinkProtocol WITH seen <- obs
(* Every behaviour of the engine, seen from the external sinks, is one the *)
(* sink protocol allows (refinement of SinkProtocol with what each sink has*)
(* seen): values after the opening are announced by DIRTY, nothing but     *)
(* TEARDOWN follows a terminal.                                            *)
SinksServed == Protocol!Spec

(* A node that has completed or errored is terminal for ever: no           *)
(* deactivation, reactivation, invalidation, late emission or recovery     *)
(* brings it back (NodeValueState.terminal).                               *)
TerminalForever == [][\A n \in Node : value[n].terminal => value'[n].terminal]_vars

(* The values are right: nodes run on consistent inputs (GlitchFree), and*)
(* what a node shows once a call has returned is computed from what its  *)
(* sources hold now (CaughtUp).                                          *)
ValuesConsistent == GlitchFree /\ CaughtUp

(* A batch is all or nothing to the nodes downstream: nothing while it   *)
(* collects (BatchHolds), and everything before a node runs on it        *)
(* (BatchAtomic).                                                        *)
BatchSafe == BatchHolds /\ BatchAtomic

(* Pause locks and pulls hold back what they should (PauseHolds,         *)
(* PullQuietHolds), and nothing is left behind when they let go          *)
(* (ResumeDrains, DemandServed).                                         *)
ControlSafe == PauseHolds /\ PullQuietHolds /\ ResumeDrains /\ DemandServed

(* A user call that is over has left nothing half done, be it by a panic:*)
(* no scope, no deferred action (QuietAtIdle), no node that waits for a  *)
(* settle nobody owes (NoStrandedDirty), and an ERROR on the node that   *)
(* panicked (PanicSurfaces).                                             *)
Recovers == QuietAtIdle /\ NoStrandedDirty /\ PanicSurfaces

(* Every call of the user returns, also when user functions and sinks panic*)
(* or feed back into the graph: the deferred actions drain and the re-entry*)
(* check ends a feedback cycle.                                            *)
CallsReturn == []<>Idle
=============================================================================
