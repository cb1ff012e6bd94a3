------------------------ MODULE CollectionPersistence ------------------------
(***************************************************************************)
(* A collection persisted as a snapshot and a change log                   *)
(* (adapters/reactive_collection_storage.rs, the loads of storage.rs), or  *)
(* as whole record lists (adapters/agentic_memory_storage.rs).  The        *)
(* process opens the stored state, mutates, flushes, snapshots, disposes,  *)
(* and may die between any two writes; every write may fail.               *)
(***************************************************************************)
EXTENDS Collections

CONSTANTS Setups, MaxCalls, MaxLogged, MaxFailures, MaxDeaths

VARIABLES setup, disk, live, handle, scan, history, used
persistVars == <<setup, disk, live, handle, scan, history, used>>

Kind == setup.kind
NoHandle == [pc |-> "closed", shadow |-> <<>>, pending |-> <<>>, cursor |-> -1, dirty |-> FALSE, due |-> FALSE,
             since |-> 0, ready |-> FALSE, errored |-> FALSE]

PersistInit ==
    /\ setup \in Setups                       \* kind, cap (max_size), every (snapshot_every_changes), log, initial
    /\ disk = [snapshot |-> Nil, changes |-> <<>>]
    /\ live = Empty(Kind) /\ handle = NoHandle /\ scan = NoScan
    /\ history = {Empty(Kind), setup.initial}  \* states a load may return (history)
    /\ used = [calls |-> 0, failures |-> 0, deaths |-> 0]

\* load_*_state: the snapshot, then every change after its cursor.
After(d) == IF d.snapshot = Nil THEN -1 ELSE d.snapshot[1].cursor
Base(d) == IF d.snapshot = Nil THEN Empty(Kind) ELSE d.snapshot[1].state
Unseen(d) == IF setup.log THEN Drop(d.changes, After(d) + 1) ELSE <<>>
Load(d) == FoldAll(Kind, Base(d), Unseen(d))
LoadedCursor(d) == IF setup.log /\ Unseen(d) # <<>> THEN Len(d.changes) - 1 ELSE After(d)
IsEmpty(d) == d.snapshot = Nil /\ Unseen(d) = <<>>

Count(field) == used' = [used EXCEPT ![field] = @ + 1]
Restored(s) == IF Sequential(Kind) THEN Capped(s, setup.cap) ELSE s

\* open_persistent_*: load, restore, attach (snapshot_on_attach writes a snapshot next).
Open ==
    /\ handle.pc = "closed" /\ Load(disk).ok
    /\ LET loaded == IF IsEmpty(disk) THEN setup.initial ELSE Load(disk).state IN
        /\ live' = Restored(loaded)
        /\ handle' = [NoHandle EXCEPT !.pc = "attach", !.shadow = Restored(loaded), !.cursor = LoadedCursor(disk)]
        /\ history' = {loaded, Restored(loaded)} \union (IF IsEmpty(disk) THEN {Empty(Kind)} ELSE {})
    /\ scan' = NoScan /\ UNCHANGED <<setup, disk, used>>

\* The subscription to the delta node, once per change; refused once errored.
OnDelta(h, c) ==
    LET next == h.since + 1
        fires == setup.every # Nil /\ next >= setup.every
    IN IF h.errored THEN h
       ELSE [h EXCEPT !.shadow = Fold(Kind, @, c).state, !.ready = FALSE,
                      !.pending = IF setup.log THEN Append(@, c) ELSE @,
                      !.dirty = @ \/ ~setup.log,
                      !.since = IF fires THEN 0 ELSE next, !.due = @ \/ fires]
ShadowsOf(h, changes) == {FoldAll(Kind, h.shadow, SubSeq(changes, 1, i)).state : i \in 0..Len(changes)}

Mutate ==
    /\ handle.pc \in {"idle", "disposed"} /\ Kind # "records" /\ used.calls < MaxCalls /\ Count("calls")
    /\ \E r \in Calls(Kind, live, setup.cap) :
        /\ live' = r.state
        /\ handle' = IF handle.pc = "idle" THEN FoldLeft(OnDelta, handle, r.changes) ELSE handle
        /\ scan' = IF Kind = "log" THEN ScanAll(scan, r.state, r.changes) ELSE scan
        /\ history' = IF handle.pc = "idle" /\ ~handle.errored
                        THEN history \union ShadowsOf(handle, r.changes) ELSE history
    /\ UNCHANGED <<setup, disk>>

Fails == used.failures < MaxFailures /\ Count("failures")
Works == UNCHANGED used
\* persist_agentic_memory_records appends each DATA at once; a failure stays until a later write works.
ReplaceRecords ==
    /\ handle.pc = "idle" /\ Kind = "records" /\ used.calls < MaxCalls
    /\ \E r \in Calls(Kind, live, Nil) :
        /\ live' = r.state
        /\ \/ /\ Count("calls") /\ Len(disk.changes) < MaxLogged
              /\ disk' = [disk EXCEPT !.changes = @ \o r.changes]
              /\ handle' = [handle EXCEPT !.shadow = r.state, !.cursor = Len(disk.changes), !.ready = TRUE, !.errored = FALSE]
              /\ history' = {r.state}
           \/ /\ used.failures < MaxFailures
              /\ used' = [used EXCEPT !.calls = @ + 1, !.failures = @ + 1]
              /\ handle' = [handle EXCEPT !.shadow = r.state, !.ready = FALSE, !.errored = TRUE]
              /\ UNCHANGED <<disk, history>>
    /\ UNCHANGED <<setup, scan>>

\* flush(): a snapshot when it is the only store or the cadence says so, else the pending changes.
Flush ==
    /\ handle.pc = "idle" /\ ~handle.errored /\ Kind # "records"
    /\ handle' = [handle EXCEPT !.pc = IF handle.dirty \/ handle.due THEN "snapshot" ELSE "flush"]
    /\ UNCHANGED <<setup, disk, live, scan, history, used>>
\* snapshot(): allowed while errored; this is how an errored handle saves what it has.
Snapshot ==
    /\ handle.pc = "idle"
    /\ handle' = [handle EXCEPT !.pc = "snapshot"]
    /\ UNCHANGED <<setup, disk, live, scan, history, used>>

\* drain_pending_changes appends the pending frames one by one and forgets each once it is in the log.
Saving == handle.pc \in {"flush", "snapshot", "attach"}
DrainOne ==
    /\ Saving /\ handle.pending # <<>> /\ Len(disk.changes) < MaxLogged
    /\ disk' = [disk EXCEPT !.changes = Append(@, handle.pending[1])]
    /\ handle' = [handle EXCEPT !.cursor = Len(disk.changes), !.pending = Tail(@)]
    /\ UNCHANGED <<setup, live, scan, history, used>>
Drained == Saving /\ handle.pending = <<>>
FlushDrained ==
    /\ Drained /\ handle.pc = "flush"
    /\ handle' = [handle EXCEPT !.pc = "idle", !.ready = TRUE]
    /\ history' = {handle.shadow}
    /\ UNCHANGED <<setup, disk, live, scan, used>>
\* An errored handle writes the snapshot but keeps its error, its dirty flag and its cadence.  The records
\* adapter drops its error instead.
Saved_ForgetsError(h) == [h EXCEPT !.pc = "idle", !.ready = TRUE, !.dirty = FALSE, !.due = FALSE, !.errored = FALSE]
Saved(h) ==
    IF h.errored /\ Kind # "records" THEN [h EXCEPT !.pc = "idle"]
    ELSE [h EXCEPT !.pc = "idle", !.ready = TRUE, !.dirty = FALSE, !.due = FALSE, !.errored = FALSE]
Frame(h) == [cursor |-> h.cursor, state |-> h.shadow]
WriteSnapshot ==
    /\ Drained /\ handle.pc # "flush"
    /\ disk' = [disk EXCEPT !.snapshot = <<Frame(handle)>>]
    /\ handle' = Saved(handle)
    /\ history' = {handle.shadow}
    /\ UNCHANGED <<setup, live, scan, used>>
\* record_persistence_error: the handle stays errored, what is pending stays pending.  The records adapter
\* only reports a failed snapshot, and does not open without its first one.
AfterFailure(h) ==
    CASE Kind # "records" -> [h EXCEPT !.pc = "idle", !.errored = TRUE, !.ready = FALSE]
      [] Kind = "records" /\ h.pc = "attach" -> NoHandle
      [] OTHER -> [h EXCEPT !.pc = "idle"]
WriteFails ==
    /\ Saving /\ used.failures < MaxFailures /\ Count("failures")
    /\ handle.pc = "flush" => handle.pending # <<>>
    /\ handle' = AfterFailure(handle)
    /\ live' = IF handle'.pc = "closed" THEN Empty(Kind) ELSE live
    /\ UNCHANGED <<setup, disk, scan, history>>

Dispose ==
    /\ handle.pc = "idle"
    /\ handle' = [handle EXCEPT !.pc = "disposed", !.pending = <<>>, !.due = FALSE, !.ready = FALSE]
    /\ UNCHANGED <<setup, disk, live, scan, history, used>>
\* The process dies: everything but the files is gone.
Die ==
    /\ handle.pc # "closed" /\ used.deaths < MaxDeaths /\ Count("deaths")
    /\ handle' = NoHandle /\ live' = Empty(Kind) /\ scan' = NoScan
    /\ UNCHANGED <<setup, disk, history>>

PersistNext == Open \/ Mutate \/ ReplaceRecords \/ Flush \/ Snapshot \/ DrainOne \/ FlushDrained
                 \/ WriteSnapshot \/ WriteFails \/ Dispose \/ Die

(* What is on disk always loads, and loads a state the collection really was in at or after the last flush  *)
(* or snapshot that returned Ok: no crash or failed write between two frames loses an acknowledged change,  *)
(* applies one twice or makes a frame contradict the state before it (drain_pending_changes,                *)
(* write_snapshot, fold_collection_changes). While the sidecar says ready it loads exactly the live         *)
(* collection (flush, the delta subscription, record_persistence_error).                                    *)
LoadsWhatIsDurable ==
    /\ Load(disk).ok
    /\ IsEmpty(disk) \/ Load(disk).state \in history
    /\ handle.ready => Load(disk).state = live

(* Once it has shown anything, a scan of the log shows the fold of the log as it is now, through ring       *)
(* trims and clears (ReactiveLog::scan; every call in a wave of its own).                                   *)
ScanExact == scan.shown = Nil \/ scan.shown[1] = live
=============================================================================
