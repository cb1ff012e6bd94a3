---------------------------- MODULE QueuedCommands ----------------------------
(***************************************************************************)
(* Commands that travel through the work queue (cqrs/work_queue.rs): the   *)
(* recipe sees the records of the queue, dispatches the command of each    *)
(* work that is claimed to CQRS, and turns the status that comes back into *)
(* the disposition of the lease.  Leases end meanwhile and works are       *)
(* claimed again.  The process recipe (process/work_queue.rs) keeps        *)
(* evidence of the terminal records.  The command of a work is named by it.*)
(***************************************************************************)
EXTENDS WorkQueue, CommandRuntime

CONSTANTS Behaviours    \* what handlers may do with a command, anew at each dispatch

VARIABLES
    attached,     \* whether the recipe sees records already
    payloads,     \* CqrsQueueState.payloads
    claims,       \* CqrsQueueState.active_claims, by work
    terminalClaims,  \* CqrsQueueState.terminal_claims
    dispatches,   \* commands that wait for CQRS
    dispositions, \* queue commands of the recipe that wait for the queue
    cqrs,         \* the CQRS runtime
    statuses,     \* statuses CQRS has shown
    disposed,     \* leases a disposition was emitted for
    evidence      \* ProcessQueueState.terminal_records: records evidence was emitted for

recipeVars == <<attached, payloads, claims, terminalClaims, dispatches, dispositions, cqrs, statuses, disposed, evidence>>

RecipeInit ==
    /\ attached = FALSE /\ payloads = {} /\ claims = [w \in Works |-> <<>>] /\ terminalClaims = {}
    /\ dispatches = <<>> /\ dispositions = <<>> /\ cqrs = NewRuntime /\ statuses = <<>> /\ disposed = <<>> /\ evidence = {}

Attempt(r) == [work |-> r.work, lease |-> r.lease, attempt |-> r.attempt, worker |-> r.worker]

\* A command of the recipe about an attempt: its id is made from the attempt.
Disposition(a, op, retryable) ==
    [op |-> op, retryable |-> retryable, id |-> <<"cqrs", a.work, a.lease, op>>, key |-> None,
     work |-> a.work, lease |-> a.lease, attempt |-> a.attempt, worker |-> a.worker]

\* invalidate_claims_for_record: the claims that a record leaves active.
StillActive_ExpiryIgnored(r, a) ==
    CASE r.kind \in {"WorkReleased", "AttemptFailed", "AttemptCompleted", "WorkCompleted"} ->
             a # Attempt(r)
      [] r.kind = "WorkDeadLettered" -> a.work # r.work
      [] r.kind = "WorkCanceled" -> a.work # r.work \/ (r.lease # None /\ a.lease # r.lease) \/ a.attempt # r.attempt
      [] OTHER -> TRUE

StillActive(r, a) ==
    CASE r.kind \in {"WorkReleased", "LeaseExpired", "AttemptFailed", "AttemptCompleted", "WorkCompleted"} ->
             a # Attempt(r)
      [] r.kind = "WorkDeadLettered" -> a.work # r.work
      [] r.kind = "WorkCanceled" -> a.work # r.work \/ (r.lease # None /\ a.lease # r.lease) \/ a.attempt # r.attempt
      [] OTHER -> TRUE

\* reduce_record: a claim whose payload was never seen is given back, any other is dispatched.
ReduceRecord(h, r) ==
    CASE r.kind = "WorkAdmitted" -> [h EXCEPT !.payloads = @ \cup {r.work}]
      [] r.kind = "WorkClaimed" /\ r.work \notin h.payloads ->
             [h EXCEPT !.dispositions = Append(@, Disposition(Attempt(r), "release", None))]
      [] r.kind = "WorkClaimed" /\ r.work \in h.payloads ->
             [h EXCEPT !.claims[r.work] = Append(@, Attempt(r)), !.dispatches = Append(@, r.work)]
      [] OTHER -> [h EXCEPT !.claims = [w \in Works |-> SelectSeq(@[w], LAMBDA a : StillActive(r, a))]]

\* process/work_queue.rs: evidence of every terminal record of a known payload, once.
TerminalRecords == {"WorkCompleted", "AttemptCompleted", "AttemptFailed", "WorkDeadLettered", "WorkCanceled"}

Observe ==
    LET h == FoldLeft(ReduceRecord, [payloads |-> payloads, claims |-> claims, dispatches |-> dispatches,
                                     dispositions |-> dispositions], wave)
    IN  /\ wave # <<>>
        /\ wave' = <<>>
        /\ \/ /\ attached
              /\ payloads' = h.payloads /\ claims' = h.claims
              /\ dispatches' = h.dispatches /\ dispositions' = h.dispositions
              /\ evidence' = evidence \cup {wave[i].seq : i \in {j \in DOMAIN wave :
                     wave[j].kind \in TerminalRecords /\ wave[j].work \in h.payloads}}
           \/ /\ ~attached
              /\ UNCHANGED <<payloads, claims, dispatches, dispositions, evidence>>
        /\ UNCHANGED <<works, records, leaseSeq, sources, ids, keys, deadLetters, unsent>>
        /\ UNCHANGED <<attached, terminalClaims, cqrs, statuses, disposed>>

Attach ==
    /\ ~attached /\ attached' = TRUE
    /\ UNCHANGED <<queueVars, payloads, claims, terminalClaims, dispatches, dispositions, cqrs, statuses, disposed, evidence>>

\* cqrs_work_queue_disposition_command: what becomes of an attempt whose command had this status.
DispositionFor(a, o) ==
    CASE o.accepted -> Disposition(a, "complete", None)
      [] ~o.accepted /\ o.code \in {"HandlerThrew", "ClockThrew"} -> Disposition(a, "fail", TRUE)
      [] OTHER -> Disposition(a, "complete", None)

\* CQRS reduces a command; its status reaches the recipe, which disposes of the oldest active claim (reduce_status).
DispatchCommand(behaviour) ==
    LET w == Head(dispatches)
        o == ReduceCqrs(cqrs, <<w>>, behaviour)
        a == Head(claims[w])
    IN  /\ wave = <<>> /\ dispatches # <<>>
        /\ dispatches' = Tail(dispatches)
        /\ cqrs' = o.runtime
        /\ statuses' = Append(statuses, [work |-> w, code |-> o.code, events |-> o.events])
        /\ \/ /\ claims[w] = <<>>
              /\ UNCHANGED <<claims, terminalClaims, dispositions, disposed>>
           \/ /\ claims[w] # <<>>
              /\ claims' = [claims EXCEPT ![w] = Tail(@)]
              /\ terminalClaims' = terminalClaims \cup {a}
              /\ \/ a \in terminalClaims /\ UNCHANGED <<dispositions, disposed>>
                 \/ /\ a \notin terminalClaims
                    /\ dispositions' = Append(dispositions, DispositionFor(a, o))
                    /\ disposed' = Append(disposed, a.lease)
        /\ UNCHANGED <<queueVars, attached, payloads, evidence>>

\* The queue reduces a command of the recipe.
Dispose(now) ==
    LET d == Head(dispositions)
        c == [id |-> d.id, key |-> d.key, now |-> now, work |-> d.work, lease |-> d.lease,
              attempt |-> d.attempt, worker |-> d.worker]
    IN  /\ dispositions # <<>>
        /\ dispositions' = Tail(dispositions)
        /\ \/ d.op = "complete" /\ CompleteWork(c)
           \/ d.op = "fail" /\ FailWork(c, d.retryable)
           \/ d.op = "release" /\ ReleaseWork(c)
        /\ UNCHANGED <<attached, payloads, claims, terminalClaims, dispatches, cqrs, statuses, disposed, evidence>>

RecipeStep ==
    \/ Admitting /\ UNCHANGED recipeVars
    \/ Claiming /\ UNCHANGED recipeVars
    \/ Ending /\ UNCHANGED recipeVars
    \/ Attach
    \/ \E b \in Behaviours : DispatchCommand(b)
    \/ \E now \in Times : Dispose(now)

-----------------------------------------------------------------------------
(* Properties *)

\* What CQRS decided is what the queue records, once: a lease is disposed of at most once, a command emits its events at
\* most once although its work may be leased and dispatched many times, and a work that a disposition completed has
\* a status of CQRS behind it; leases and evidence of ended attempts agree with the records (reduce_status,
\* invalidate_claims_for_record, reduce_record of the process recipe).
DispositionsSound ==
    /\ Distinct(disposed)
    /\ \A i, j \in DOMAIN statuses : i # j /\ statuses[i].work = statuses[j].work =>
           statuses[i].events = <<>> \/ statuses[j].events = <<>>
    /\ wave = <<>> => \A w \in Works : \A i \in DOMAIN claims[w] :
           /\ works[w].state = "Leased" => claims[w][i].lease <= works[w].lease
           /\ \/ works[w].lease = claims[w][i].lease
              \/ \E r \in DOMAIN records : r \in unsent /\ records[r].lease = claims[w][i].lease
    /\ \A r \in DOMAIN records :
           records[r].kind = "WorkCompleted" /\ records[r].command[1] = "cqrs"
               => \E i \in DOMAIN statuses : statuses[i].work = records[r].work
    /\ \A r \in evidence : records[r].kind \in TerminalRecords
=============================================================================
