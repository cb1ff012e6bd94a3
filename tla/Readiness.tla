------------------------------ MODULE Readiness ------------------------------
(***************************************************************************)
(* Scheduled readiness (scheduled_readiness.rs) composed with the work     *)
(* queue (work_queue/readiness.rs).  Records that name a later time become *)
(* schedules; clock facts make schedules ready; the handoff keeps its own  *)
(* view of every work, built from the records alone, and turns what is     *)
(* ready and still current into candidates: works to claim and leases to   *)
(* expire.  A lease candidate becomes an expire command of the queue.      *)
(* All of it reacts to one wave of records in the same wave.               *)
(* A schedule is named by the number of its record.                        *)
(***************************************************************************)
EXTENDS WorkQueue

VARIABLES
    clock,       \* ScheduledReadinessState.now_ms
    schedules,   \* ScheduledReadinessState.schedules
    ready,       \* ready facts emitted, retained by the handoff (HandoffState.ready_by_id)
    overdue,     \* schedules an overdue fact was emitted for
    view,        \* HandoffState.works_by_id
    candidates,  \* HandoffState.candidates_by_id, named by their schedules
    announced    \* candidates emitted downstream

readinessVars == <<clock, schedules, ready, overdue, view, candidates, announced>>
vars == <<queueVars, readinessVars>>

ScheduleKinds == {"AdmissionDelay", "WorkScheduled", "RetryScheduled", "LeaseExpiration"}

NotViewed == [state |-> "Unknown", readyAt |-> None, kind |-> None, lease |-> None, attempt |-> None,
              worker |-> None, expires |-> None]

-----------------------------------------------------------------------------
(* From records to schedules *)

ScheduleKind_NoRenewals(r) ==
    CASE r.kind = "WorkAdmitted" /\ r.at # None   -> "AdmissionDelay"
      [] r.kind = "WorkScheduled"                  -> "WorkScheduled"
      [] r.kind = "RetryScheduled"                 -> "RetryScheduled"
      [] r.kind = "WorkClaimed"                    -> "LeaseExpiration"
      [] OTHER                                     -> None

\* Which schedule a record asks for.
ScheduleKind(r) ==
    CASE r.kind = "WorkAdmitted" /\ r.at # None   -> "AdmissionDelay"
      [] r.kind = "WorkScheduled"                  -> "WorkScheduled"
      [] r.kind = "RetryScheduled"                 -> "RetryScheduled"
      [] r.kind \in {"WorkClaimed", "LeaseRenewed"} -> "LeaseExpiration"
      [] OTHER                                     -> None

\* The schedule of a record, with the lease it is about.
ReadinessSchedule(r) ==
    [id |-> r.seq, work |-> r.work, kind |-> ScheduleKind(r), readyAt |-> r.at, deadline |-> r.deadline,
     lease |-> IF ScheduleKind(r) = "LeaseExpiration" THEN r.lease ELSE None,
     attempt |-> IF ScheduleKind(r) = "LeaseExpiration" THEN r.attempt ELSE None]

Translated(rs) == {ReadinessSchedule(rs[i]) : i \in {j \in DOMAIN rs : ScheduleKind(rs[j]) # None}}

\* retain_schedule: the first schedule of an id stays.
Retained(new) == schedules \cup {s \in new : \A old \in schedules : old.id # s.id}

-----------------------------------------------------------------------------
(* Schedules and the clock *)

Due(s, now) == now # None /\ now >= s.readyAt

\* evaluate_schedules: ready facts that are not out yet, in the order of the schedule ids.
KindRank(k) == CASE k = "AdmissionDelay" -> 1 [] k = "LeaseExpiration" -> 2 [] k = "RetryScheduled" -> 3
                 [] k = "WorkScheduled" -> 4 [] OTHER -> 5

InScheduleOrder(facts) == InOrderOf(facts, LAMBDA f : (Len(records) + 1) * KindRank(f.schedule.kind) + f.schedule.id)

NewlyReady(S, now) == {s \in S : Due(s, now) /\ \A f \in ready : f.schedule # s}

NewlyOverdue(S, now) == {s.id : s \in {x \in S : Due(x, now) /\ x.deadline # None /\ now > x.deadline}} \ overdue

-----------------------------------------------------------------------------
(* The handoff *)

Prune(cands, w) == {c \in cands : c.work # w}

\* apply_record: what the handoff believes of a work after a record.
ViewAfter(v, r) ==
    CASE r.kind = "WorkAdmitted" ->
            [NotViewed EXCEPT !.state = IF r.at # None THEN "Scheduled" ELSE "Ready",
                              !.readyAt = r.at, !.kind = ScheduleKind(r)]
      [] r.kind = "WorkScheduled" ->
            [NotViewed EXCEPT !.state = "Scheduled", !.readyAt = r.at, !.kind = ScheduleKind(r)]
      [] r.kind = "RetryScheduled" ->
            [NotViewed EXCEPT !.state = "RetryWait", !.readyAt = r.at, !.kind = ScheduleKind(r)]
      [] r.kind \in {"WorkClaimed", "LeaseRenewed"} ->
            [state |-> "Leased", readyAt |-> r.at, kind |-> ScheduleKind(r), lease |-> r.lease,
             attempt |-> r.attempt, worker |-> r.worker, expires |-> r.at]
      [] r.kind \in {"WorkReleased", "LeaseExpired"} -> [NotViewed EXCEPT !.state = "Ready"]
      [] r.kind = "WorkCompleted"    -> [NotViewed EXCEPT !.state = "Completed"]
      [] r.kind = "WorkCanceled"     -> [NotViewed EXCEPT !.state = "Canceled"]
      [] r.kind = "WorkDeadLettered" -> [NotViewed EXCEPT !.state = "DeadLettered"]
      [] OTHER -> v

Ignored == {"AttemptFailed", "AttemptCompleted", "AdmissionDeduped"}

ApplyRecord_KeepsLease(h, r) ==
    [view |-> [h.view EXCEPT ![r.work] = IF r.kind = "WorkReleased" THEN @ ELSE ViewAfter(@, r)],
     cands |-> IF r.kind \in Ignored THEN h.cands ELSE Prune(h.cands, r.work)]

ApplyRecord(h, r) ==
    [view |-> [h.view EXCEPT ![r.work] = ViewAfter(@, r)],
     cands |-> IF r.kind \in Ignored THEN h.cands ELSE Prune(h.cands, r.work)]

Superseded(v, s) ==
    \/ v.readyAt # s.readyAt
    \/ v.kind # None /\ v.kind # s.kind /\ v.state \in {"Scheduled", "RetryWait"}

Stale(v, s) ==
    IF s.kind = "LeaseExpiration"
    THEN v.state # "Leased" \/ v.lease # s.lease \/ v.attempt # s.attempt \/ v.expires # s.readyAt
    ELSE v.state \in Terminal \cup {"Leased"}

\* handoff_ready_inner: a ready fact is ignored, prunes the candidates of its work, or becomes one.
HandoffReady(h, fact) ==
    LET s == fact.schedule
        v == h.view[s.work]
    IN  CASE v.state = "Unknown"                    -> h
          [] s.kind # "LeaseExpiration" /\ Superseded(v, s)          -> h
          [] Stale(v, s)                                             -> [h EXCEPT !.cands = Prune(@, s.work)]
          [] OTHER -> [h EXCEPT !.cands = @ \cup {s}, !.told = @ \cup {fact}]

\* The runtime of the handoff: records first, then the facts it retains, then the new ones.
Handoff(rs, old, new) ==
    LET applied == FoldLeft(ApplyRecord, [view |-> view, cands |-> candidates], rs)
    IN  FoldLeft(HandoffReady, [view |-> applied.view, cands |-> applied.cands, told |-> {}],
                 InScheduleOrder(old) \o InScheduleOrder(new))

\* One wave through translator, projector and handoff.
React(rs, now) ==
    LET all == Retained(Translated(rs))
        fresh == {[schedule |-> s, now |-> now] : s \in NewlyReady(all, now)}
        late == NewlyOverdue(all, now)
        h == IF rs = <<>> /\ fresh = {} /\ late = {}
             THEN [view |-> view, cands |-> candidates, told |-> {}]
             ELSE Handoff(rs, ready, fresh)
    IN  /\ clock' = now
        /\ schedules' = all
        /\ ready' = ready \cup fresh
        /\ overdue' = overdue \cup late
        /\ view' = h.view
        /\ candidates' = h.cands
        /\ announced' = announced \cup {f \in ready' : f \in h.told /\ \A a \in announced : a.schedule # f.schedule}

-----------------------------------------------------------------------------
\* The records of a queue step reach the projectors.
Deliver ==
    /\ wave # <<>>
    /\ React(wave, clock)
    /\ wave' = <<>>
    /\ UNCHANGED <<works, records, leaseSeq, sources, ids, keys, deadLetters, unsent>>

\* A clock fact; one that is behind the clock is ignored, but schedules are evaluated all the same.
RetainClock(t) ==
    /\ wave = <<>>
    /\ React(<<>>, IF clock # None /\ t < clock THEN clock ELSE t)
    /\ UNCHANGED queueVars

\* work_queue_lease_expiration_command: an announced lease candidate becomes a command of the queue.
ExpireCandidate(f) ==
    /\ f.schedule.kind = "LeaseExpiration"
    /\ ExpireLeases(<<"readiness", f.schedule.id>>, <<"readiness", f.schedule.id>>, {f.schedule.work}, 1, f.now)
    /\ UNCHANGED readinessVars

Init ==
    /\ QueueInit
    /\ clock = None /\ schedules = {} /\ ready = {} /\ overdue = {}
    /\ view = [w \in Works |-> NotViewed]
    /\ candidates = {} /\ announced = {}

Expiring == \E f \in announced : ExpireCandidate(f)

Next ==
    \/ User /\ UNCHANGED readinessVars
    \/ Deliver
    \/ Expiring
    \/ \E t \in Times : RetainClock(t)

\* A wave that was emitted is delivered; only Deliver empties it.
Drains == wave # <<>> /\ wave' = <<>>

Fairness == WF_wave(Drains) /\ WF_vars(Expiring)

Spec == Init /\ [][Next]_vars /\ Fairness
-----------------------------------------------------------------------------
(* Properties *)

RecordsOf(w) == {i \in DOMAIN records : records[i].work = w /\ records[i].kind \notin Ignored}

Enders == {"WorkReleased", "LeaseExpired", "AttemptCompleted", "AttemptFailed", "WorkCanceled"}

\* A lease is given once and ends at most once, whatever completions, failures, cancellations, renewals and
\* expiries race for it, and a work ends once: no record about it follows the one of its outcome
\* (current_lease, materialize_lease_expired, is_terminal in work_queue.rs).
LeasesEndOnce ==
    /\ \A l \in 1..leaseSeq :
           LET about == {i \in DOMAIN records : records[i].lease = l}
               given == {i \in about : records[i].kind = "WorkClaimed"}
               ended == {i \in about : records[i].kind \in Enders}
           IN  /\ Cardinality(given) = 1 /\ Cardinality(ended) <= 1
               /\ \A i \in about, g \in given : i >= g
               /\ (ended = {}) <=> \E w \in Works : works[w].lease = l
               /\ \A i \in about, e \in ended : i > e => records[i].kind \in {"WorkCompleted", "RetryScheduled", "WorkDeadLettered", "AdmissionDeduped"}
    /\ \A i \in DOMAIN records :
           records[i].kind \in {"WorkCompleted", "WorkDeadLettered", "WorkCanceled"}
               => \A j \in RecordsOf(records[i].work) : j <= i

\* Reading page after page with the cursor of the last item shows every available work and every dead letter
\* exactly once and in order, and says at each page whether it was the last (available_page, dead_letter_page);
\* a dead letter is the last thing a reader of its work sees (work_snapshot).
PagesComplete ==
    /\ \A now \in Times \cup {None} :
          LET all == Available(now)
          IN  \A i \in DOMAIN all :
                  AvailablePage(now, IF i = 1 THEN None ELSE all[i - 1], 1) = [items |-> <<all[i]>>, more |-> i < Len(all)]
    /\ \A i \in DOMAIN deadLetters :
          /\ DeadLetterPage(IF i = 1 THEN None ELSE deadLetters[i - 1], 1)
                 = [items |-> <<deadLetters[i]>>, more |-> i < Len(deadLetters)]
          /\ LET seen == WorkSnapshot(records[deadLetters[i]].work)
             IN  seen.state = "DeadLettered" /\ seen.lease = None /\ records[deadLetters[i]] \in ToSet(seen.records)
    /\ {deadLetters[i] : i \in DOMAIN deadLetters} = {i \in DOMAIN records : records[i].kind = "WorkDeadLettered"}

SameWork(work, v) ==
    /\ \/ v.state = work.state
       \/ v.state = "Scheduled" /\ work.state = "Ready" /\ work.notBefore # None
       \/ v.state = "RetryWait" /\ work.state = "Ready"
    /\ <<v.lease, v.worker, v.expires>> = <<work.lease, work.worker, work.expires>>
    /\ v.state = "Leased" => v.attempt = work.attempt
    /\ v.state = "Scheduled" => v.readyAt = work.notBefore
    /\ v.state = "RetryWait" => v.readyAt = work.retryAt

\* The handoff rebuilds the queue's state from the records it saw: whenever the latest record of a work was
\* emitted, its view of the work is the queue's (apply_record in readiness.rs against the reducers of work_queue.rs).
HandoffAgrees ==
    wave = <<>> =>
        \A w \in Works :
            RecordsOf(w) # {} => \/ \E i \in RecordsOf(w) \cap unsent : \A j \in RecordsOf(w) : j <= i
                                \/ SameWork(works[w], view[w])

\* A candidate on offer is due and still current, although the facts behind candidates are retained and
\* evaluated again after every record (handoff_ready_inner, prune_candidates_for_work).
CandidatesCurrent ==
    \A s \in candidates : Due(s, clock) /\ ~Stale(view[s.work], s) /\ ~Superseded(view[s.work], s)

\* A lease the clock has run past does not last: the pipeline ends it, unless somebody ends or renews it first.
LeasesReclaimed ==
    \A w \in Works : []<>~(works[w].state = "Leased" /\ clock # None /\ works[w].expires <= clock)

\* What the handoff offers is right: it sees the works as the queue has them, and offers current candidates only.
CandidatesExact == HandoffAgrees /\ CandidatesCurrent
=============================================================================
