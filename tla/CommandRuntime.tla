---------------------------- MODULE CommandRuntime ----------------------------
(***************************************************************************)
(* The runtimes that turn commands into events: process_bundle             *)
(* (process.rs), which also keeps a state and requests effects, and CQRS   *)
(* (cqrs.rs), which recognises commands and events it saw before within a  *)
(* window.  Both accept a command as a whole or refuse it as a whole.      *)
(* What a handler does with a command is a parameter; a draft is the event *)
(* id the handler chose, or Default.                                       *)
(***************************************************************************)
EXTENDS Integers, Sequences, FiniteSets, SequencesExt

CONSTANTS
    Default,        \* a draft without an id of its own
    Handler,        \* what the handler does, by behaviour: how it fails, and its drafts
    CommandWindow, EventWindow   \* how many ids CQRS remembers; 0 stands for unbounded

ASSUME CommandRuntimeAssumption ==
    /\ CommandWindow \in Nat /\ EventWindow \in Nat
    /\ \A b \in DOMAIN Handler :
          /\ Handler[b].fails \in {"no", "handler", "clock", "unknown"}
          /\ Len(Handler[b].events) \in Nat /\ DOMAIN Handler[b].events = 1..Len(Handler[b].events)
          /\ Len(Handler[b].effects) \in Nat /\ DOMAIN Handler[b].effects = 1..Len(Handler[b].effects)

NewRuntime == [events |-> 0, effects |-> 0, commands |-> 0, errors |-> 0, audits |-> 0,
               seenCommands |-> <<>>, seenEvents |-> <<>>, seenEffects |-> <<>>, evicted |-> 0, state |-> 0]

\* What one command made the runtime emit: the status with its error code, events and effects.
Outcome(runtime, code, events, effects) ==
    [runtime |-> runtime, accepted |-> code = "none", code |-> code, events |-> events, effects |-> effects]

\* failure: an error, a status and an audit record, and nothing else changes.
Failure(r, code) == Outcome([r EXCEPT !.errors = @ + 1, !.audits = @ + 1], code, <<>>, <<>>)

Distinct(s) == Cardinality(ToSet(s)) = Len(s)

\* trim_dedupe_window: the oldest ids beyond the window are forgotten.
TrimDedupeWindow_OneShort(ids, window) ==
    IF window = 0 \/ Len(ids) < window THEN ids ELSE SubSeq(ids, Len(ids) - window + 2, Len(ids))

TrimDedupeWindow(ids, window) ==
    IF window = 0 \/ Len(ids) <= window THEN ids ELSE SubSeq(ids, Len(ids) - window + 1, Len(ids))

-----------------------------------------------------------------------------
(* process.rs *)

\* prepare_events, prepare_effects: ids are made from the command and the number of the event.
PrepareProcess(id, drafts, count) ==
    [i \in DOMAIN drafts |-> IF drafts[i] = Default THEN <<id, count + i>> ELSE <<drafts[i]>>]

Fresh(prepared, seen) == Distinct(prepared) /\ ToSet(prepared) \cap ToSet(seen) = {}

\* reduce_process_command_fact: everything is prepared before anything is changed.
ReduceProcess(runtime, id, behaviour) ==
    LET r == [runtime EXCEPT !.commands = @ + 1]
        h == Handler[behaviour]
        events == PrepareProcess(id, h.events, r.events)
        effects == PrepareProcess(id, h.effects, r.effects)
    IN  CASE h.fails = "handler" -> Failure(r, "ReducerThrew")
          [] h.fails # "handler" /\ ~Fresh(events, r.seenEvents) -> Failure(r, "MalformedEvent")
          [] h.fails # "handler" /\ Fresh(events, r.seenEvents) /\ ~Fresh(effects, r.seenEffects) -> Failure(r, "MalformedEffect")
          [] h.fails = "clock" /\ Fresh(events, r.seenEvents) /\ Fresh(effects, r.seenEffects) -> Failure(r, "ClockThrew")
          [] OTHER -> Outcome([r EXCEPT !.state = @ + 1, !.audits = @ + 1,
                                  !.events = @ + Len(events), !.seenEvents = @ \o events,
                                  !.effects = @ + Len(effects), !.seenEffects = @ \o effects],
                              "none", events, effects)

-----------------------------------------------------------------------------
(* cqrs.rs *)

\* prepare_events: ids are made from the command and the place of the event in it.
PrepareCqrs(id, drafts) == [i \in DOMAIN drafts |-> IF drafts[i] = Default THEN <<id, i>> ELSE <<drafts[i]>>]

\* reduce_command_fact: the command's id is remembered before the handler runs.
ReduceCqrs(runtime, id, behaviour) ==
    LET r == [runtime EXCEPT !.commands = @ + 1]
        seen == [r EXCEPT !.seenCommands = TrimDedupeWindow(Append(@, id), CommandWindow)]
        h == Handler[behaviour]
        events == PrepareCqrs(id, h.events)
        remembered == FoldLeft(LAMBDA ids, e : TrimDedupeWindow(Append(ids, e), EventWindow), seen.seenEvents, events)
    IN  CASE id \in ToSet(r.seenCommands) -> Failure(r, "DuplicateCommand")
          [] id \notin ToSet(r.seenCommands) /\ h.fails = "unknown" -> Failure(seen, "UnknownCommand")
          [] id \notin ToSet(r.seenCommands) /\ h.fails = "handler" -> Failure(seen, "HandlerThrew")
          [] id \notin ToSet(r.seenCommands) /\ h.fails \in {"no", "clock"} /\ ~Fresh(events, seen.seenEvents) ->
                 Failure(seen, "DuplicateEvent")
          [] id \notin ToSet(r.seenCommands) /\ h.fails = "clock" /\ Fresh(events, seen.seenEvents) -> Failure(seen, "ClockThrew")
          [] OTHER -> Outcome([seen EXCEPT !.events = @ + Len(events), !.audits = @ + 1, !.seenEvents = remembered,
                                  !.evicted = @ + Len(seen.seenEvents) + Len(events) - Len(remembered)],
                              "none", events, <<>>)

\* cqrs_projection: a fold of the events, which stops at the first event of a wave whose reducer throws.
Project(value, events, throws) ==
    LET good == {i \in 0..Len(events) : \A j \in 1..i : events[j] \notin throws}
    IN  value \o SubSeq(events, 1, CHOOSE i \in good : \A j \in good : j <= i)
=============================================================================
