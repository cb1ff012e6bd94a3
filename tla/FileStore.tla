------------------------------ MODULE FileStore ------------------------------
(***************************************************************************)
(* The file backend (storage.rs), the two append logs over it, and the     *)
(* observe adapter that flushes graph events into one.  A writer is a      *)
(* process with its own handle on the directory; every file operation is a *)
(* step, and a process may die between two of them.                        *)
(***************************************************************************)
EXTENDS Naturals, Sequences, FiniteSets, SequencesExt, FiniteSetsExt, TLC

CONSTANTS Writers, MaxAttempts, MaxEvents, MaxFaults, MaxTruncates, PageLimit

ASSUME FileAssumption == Writers # {} /\ PageLimit \in Nat \ {0}

VARIABLES store, visible, writer, acked, follower, spent
fileVars == <<store, visible, writer, acked, follower, spent>>

Idle == [pc |-> "idle", seq |-> 0, attempts |-> 0, pending |-> <<>>, temp |-> "none"]

FileInit ==
    /\ store \in {"single", "multi"}          \* append_log_storage or multi_writer_append_log_storage
    /\ visible = [s \in {} |-> <<>>]           \* the files list() shows: sequence number -> frame
    /\ writer = [w \in Writers |-> Idle]
    /\ acked = {}                              \* <<seq, frame>> of every append that returned Ok (history)
    /\ follower = [after |-> 0, read |-> <<>>] \* a reader paging through the log; after counts from 1
    /\ spent = [events |-> 0, faults |-> 0, truncates |-> 0]

Active == IF store = "single" THEN {CHOOSE w \in Writers : TRUE} ELSE Writers
Quiet(w) == writer[w].pc = "idle"
\* Names that begin with a dot are the temporary files: list() never shows them.
NextSeq == IF DOMAIN visible = {} THEN 0 ELSE Max(DOMAIN visible) + 1
Head1(w) == writer[w].pending[1]

\* The subscriber's map accepts the event and the frame waits in memory.
ObserveEvent(w) ==
    /\ Quiet(w) /\ spent.events < MaxEvents
    /\ spent' = [spent EXCEPT !.events = @ + 1]
    /\ writer' = [writer EXCEPT ![w].pending = Append(@, <<w, spent.events + 1>>)]
    /\ UNCHANGED <<store, visible, acked, follower>>

\* flush(): append the head; its first step lists the directory for the next number.
FlushHead(w) ==
    /\ writer[w].pc \in {"idle", "more"} /\ writer[w].pending # <<>>
    /\ writer' = [writer EXCEPT ![w] = [@ EXCEPT !.pc = "put", !.seq = NextSeq, !.attempts = 0]]
    /\ UNCHANGED <<store, visible, acked, follower, spent>>
FlushDone(w) ==
    /\ writer[w].pc = "more" /\ writer[w].pending = <<>>
    /\ writer' = [writer EXCEPT ![w].pc = "idle"]
    /\ UNCHANGED <<store, visible, acked, follower, spent>>

\* After max_attempts refusals the multi-writer log lists again.
Refresh(w) ==
    /\ writer[w].pc = "put" /\ writer[w].attempts >= MaxAttempts
    /\ writer' = [writer EXCEPT ![w] = [@ EXCEPT !.seq = Max({writer[w].seq, NextSeq}), !.attempts = 0]]
    /\ UNCHANGED <<store, visible, acked, follower, spent>>

\* write_temp_file: create_new, write_all, then sync_all; only then is the name published.
WriteTemp(w) ==
    /\ writer[w].pc = "put" /\ writer[w].attempts < MaxAttempts
    /\ writer' = [writer EXCEPT ![w] = [@ EXCEPT !.pc = "writing", !.attempts = writer[w].attempts + 1, !.temp = "partial"]]
    /\ UNCHANGED <<store, visible, acked, follower, spent>>
SyncTemp(w) ==
    /\ writer[w].pc = "writing"
    /\ writer' = [writer EXCEPT ![w] = [@ EXCEPT !.pc = "publish", !.temp = "whole"]]
    /\ UNCHANGED <<store, visible, acked, follower, spent>>

Contents(w) == [frame |-> Head1(w), whole |-> writer[w].temp = "whole"]
\* put() renames over what is there; put_if_absent() links and refuses an existing name.
Placed(w) == [s \in DOMAIN visible \cup {writer[w].seq} |-> IF s = writer[w].seq THEN Contents(w) ELSE visible[s]]
Absent_Unchecked(w) == TRUE
Absent(w) == writer[w].seq \notin DOMAIN visible
Publish(w) ==
    /\ writer[w].pc = "publish" /\ (store = "multi" => Absent(w))
    /\ visible' = Placed(w)
    /\ writer' = [writer EXCEPT ![w] = [@ EXCEPT !.pc = "returned", !.temp = "none"]]
    /\ UNCHANGED <<store, acked, follower, spent>>
Refused(w) ==
    /\ writer[w].pc = "publish" /\ store = "multi" /\ ~Absent(w)
    /\ writer' = [writer EXCEPT ![w] = [@ EXCEPT !.pc = "put", !.seq = writer[w].seq + 1, !.temp = "none"]]
    /\ UNCHANGED <<store, visible, acked, follower, spent>>
\* Only now does the adapter drop the frame from its queue.
AppendReturns(w) ==
    /\ writer[w].pc = "returned"
    /\ acked' = acked \union {<<writer[w].seq, Head1(w)>>}
    /\ writer' = [writer EXCEPT ![w] = [@ EXCEPT !.pc = "more", !.pending = Tail(writer[w].pending)]]
    /\ UNCHANGED <<store, visible, follower, spent>>

Fault == spent.faults < MaxFaults /\ spent' = [spent EXCEPT !.faults = @ + 1]
\* Any file operation fails: the temporary file is removed and the frame kept for the next flush.
AppendFails(w) ==
    /\ writer[w].pc \in {"put", "writing", "publish"} /\ Fault
    /\ writer' = [writer EXCEPT ![w] = [@ EXCEPT !.pc = "idle", !.temp = "none"]]
    /\ UNCHANGED <<store, visible, acked, follower>>
\* The process dies: its memory is gone and its temporary file stays behind, invisible.
WriterDies(w) ==
    /\ Fault /\ writer' = [writer EXCEPT ![w] = Idle]
    /\ UNCHANGED <<store, visible, acked, follower>>
Rollback(w) ==
    /\ Quiet(w) /\ writer[w].pending # <<>>
    /\ writer' = [writer EXCEPT ![w].pending = <<>>]
    /\ UNCHANGED <<store, visible, acked, follower, spent>>

\* truncate_after(keep) of the single-writer log deletes one file after the other, lowest first; the
\* multi-writer log refuses it.
Above(keep) == {s \in DOMAIN visible : s > keep}
TruncateAfter(w) ==
    /\ store = "single" /\ Quiet(w) /\ spent.truncates < MaxTruncates
    /\ \E keep \in DOMAIN visible :
        /\ writer' = [writer EXCEPT ![w] = [@ EXCEPT !.pc = "truncating", !.seq = keep]]
        /\ acked' = {a \in acked : a[1] <= keep}
    /\ spent' = [spent EXCEPT !.truncates = @ + 1]
    /\ UNCHANGED <<store, visible, follower>>
DeleteNext(w) ==
    /\ writer[w].pc = "truncating" /\ Above(writer[w].seq) # {}
    /\ visible' = Restrict(visible, DOMAIN visible \ {Min(Above(writer[w].seq))})
    /\ UNCHANGED <<store, writer, acked, follower, spent>>
Truncated(w) ==
    /\ writer[w].pc = "truncating" /\ Above(writer[w].seq) = {}
    /\ writer' = [writer EXCEPT ![w].pc = "idle"]
    /\ UNCHANGED <<store, visible, acked, follower, spent>>

\* read_append_log_page: the listed entries above the cursor in order, one more than the limit to know done.
Listed ==
    LET after == {s \in DOMAIN visible : s + 1 > follower.after}
    IN  [i \in 1..Cardinality(after) |-> CHOOSE s \in after : Cardinality({t \in after : t < s}) = i - 1]
NextAfter_Lookahead(page) == (IF Len(Listed) > Len(page) THEN Listed[Len(page) + 1] ELSE page[Len(page)]) + 1
NextAfter(page) == page[Len(page)] + 1
ReadPage ==
    /\ Listed # <<>>
    /\ LET page == SubSeq(Listed, 1, Min({PageLimit, Len(Listed)})) IN
        follower' = [after |-> NextAfter(page),
                     read |-> follower.read \o [i \in DOMAIN page |-> visible[page[i]].frame]]
    /\ UNCHANGED <<store, visible, writer, acked, spent>>

Append1(w) == FlushHead(w) \/ FlushDone(w) \/ Refresh(w) \/ WriteTemp(w) \/ SyncTemp(w) \/ Publish(w) \/ Refused(w)
FileNext ==
    \/ \E w \in Active : ObserveEvent(w) \/ Append1(w) \/ AppendReturns(w) \/ AppendFails(w)
                           \/ WriterDies(w) \/ Rollback(w)
                           \/ TruncateAfter(w) \/ DeleteNext(w) \/ Truncated(w)
    \/ ReadPage

FileSpec == FileInit /\ [][FileNext]_fileVars
-----------------------------------------------------------------------------
(* An append that returned is in the log for good, at its number, once and complete, however the writers    *)
(* race for numbers, fail and retry, or die between two file operations (FileBackend::put_if_absent,        *)
(* MultiWriterAppendLogStorage::append, the adapter's retry of its queue head).                             *)
AppendsKept ==
    /\ \A a \in acked : a[1] \in DOMAIN visible /\ visible[a[1]].frame = a[2]
    /\ \A s, t \in DOMAIN visible : visible[s].whole /\ (visible[s].frame = visible[t].frame => s = t)

(* A follower that resumes each page at next_after reads every entry exactly once and in log order, and one *)
(* writer's events in the order it observed them: no number is skipped for a later writer to fill in (as long as nothing  *)
(* was truncated: read_append_log_page, MultiWriterAppendLogStorage::append).                              *)
FollowerComplete ==
  spent.truncates = 0 =>
    /\ \A i \in DOMAIN follower.read : i - 1 \in DOMAIN visible /\ follower.read[i] = visible[i - 1].frame
    /\ \A s, t \in DOMAIN visible : visible[s].frame[1] = visible[t].frame[1] /\ s < t
                                       => visible[s].frame[2] < visible[t].frame[2]
=============================================================================
