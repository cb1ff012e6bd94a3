------------------------------ MODULE WorkQueue ------------------------------
(***************************************************************************)
(* The work queue (work_queue.rs): works are admitted from the message     *)
(* bus, leased to workers, and end completed, canceled or dead-lettered.   *)
(* Every change appends a record to a log; the records of a step are the   *)
(* wave the rest of the graph sees before the next step.  Commands carry   *)
(* their own time, so time may differ from step to step in any direction.  *)
(* A lease id is the number of the lease, a record's number its position.  *)
(***************************************************************************)
EXTENDS Integers, Sequences, FiniteSets, SequencesExt

CONSTANTS
    Works,          \* work ids, ordered as the BTreeMap orders them
    Workers,
    None,           \* an absent option
    Keys,           \* idempotency keys
    MaxCommands,    \* bound: command ids the user makes up
    MaxMessages,    \* bound: messages of the admission topic
    Times,          \* the times a command or clock may carry
    TimeMax,        \* the largest timestamp
    Durations,      \* lease durations a command may ask for
    Requests,       \* sets of works a claim or expiry may ask for
    Submits,        \* what is submitted: a work, its not-before time and its deadline
    Schedules,      \* what works are scheduled for: a not-before time and a deadline
    MaxAttempts, Backoff

ASSUME WorkQueueAssumption ==
    /\ Works \subseteq Nat /\ IsFiniteSet(Works)
    /\ Times \subseteq Nat /\ TimeMax \in Nat
    /\ None \notin Nat /\ None \notin Workers /\ None \notin Keys
    /\ Requests \subseteq SUBSET Works /\ \A s \in Submits : s.work \in Works
    /\ MaxAttempts \in Nat \ {0}
    /\ Backoff \in [1..MaxAttempts -> Nat]

VARIABLES
    works,      \* RuntimeState.works
    records,    \* RuntimeState.records
    leaseSeq,   \* RuntimeState.lease_seq
    sources,    \* RuntimeState.source_seqs: messages already admitted
    ids, keys,  \* RuntimeState.command_ids, idempotency_keys
    deadLetters,\* RuntimeState.dead_letters, as record numbers
    unsent,     \* record numbers that were appended but never emitted
    wave        \* records emitted and not yet seen by the graph

queueVars == <<works, records, leaseSeq, sources, ids, keys, deadLetters, unsent, wave>>

States == {"Unknown", "Scheduled", "Ready", "Leased", "RetryWait", "Completed", "Canceled", "DeadLettered"}
Terminal == {"Completed", "Canceled", "DeadLettered"}

Absent == [state |-> "Unknown", seq |-> 0, notBefore |-> None, retryAt |-> None, deadline |-> None,
           attempt |-> 0, lease |-> None, worker |-> None, expires |-> None]

Kinds == {"WorkAdmitted", "AdmissionDeduped", "WorkScheduled", "WorkClaimed", "LeaseRenewed", "WorkReleased",
          "LeaseExpired", "AttemptCompleted", "WorkCompleted", "AttemptFailed", "RetryScheduled",
          "WorkDeadLettered", "WorkCanceled"}

\* A record of the given kind about the work as it is before the step; "at" is the time the record announces.
Record(kind, w, command, at) ==
    [seq |-> 0, kind |-> kind, work |-> w, command |-> command, at |-> at, deadline |-> None,
     lease |-> works[w].lease, attempt |-> works[w].attempt, worker |-> works[w].worker]

Numbered(s, first) == [i \in DOMAIN s |-> [s[i] EXCEPT !.seq = first + i]]

\* The same for a step that a lease command takes: the lease is the one the command names.
LeaseRecord(kind, c, at) ==
    [Record(kind, c.work, c.id, at) EXCEPT !.lease = c.lease, !.attempt = c.attempt, !.worker = c.worker]

ClearLease(work) == [work EXCEPT !.lease = None, !.worker = None, !.expires = None]

IsReady(work, now) ==
    \/ work.state = "Ready"
    \/ work.state = "Scheduled" /\ work.notBefore # None /\ work.notBefore <= now
    \/ work.state = "RetryWait" /\ work.retryAt # None /\ work.retryAt <= now

IsExpired(work, now) == work.state = "Leased" /\ work.expires # None /\ work.expires <= now

IsTerminal(work) == work.state \in Terminal

Overflows(now, delta) == now + delta > TimeMax

\* Records that are appended and emitted.
EmitRecords(s) ==
    LET new == Numbered(s, Len(records))
    IN  /\ records' = records \o new
        /\ wave' = new
        /\ UNCHANGED unsent

\* Records that are appended, while the step returns other events than theirs.
DropRecords(s) ==
    LET new == Numbered(s, Len(records))
    IN  /\ records' = records \o new
        /\ unsent' = unsent \cup {new[i].seq : i \in DOMAIN new}
        /\ UNCHANGED wave

Silent == UNCHANGED <<records, wave, unsent>>

-----------------------------------------------------------------------------
(* Admission *)

\* A page of the admission subscription delivers message m, possibly not for the first time.
AdmitMessage(m, w, now, notBefore, deadline) ==
    /\ wave = <<>> /\ m \notin sources
    /\ sources' = sources \cup {m}
    /\ \/ /\ works[w].state # "Unknown"
          /\ EmitRecords(<<Record("AdmissionDeduped", w, None, None)>>)
          /\ UNCHANGED works
       \/ /\ works[w].state = "Unknown"
          /\ works' = [works EXCEPT ![w] = [Absent EXCEPT
                 !.state = IF notBefore # None /\ notBefore > now THEN "Scheduled" ELSE "Ready",
                 !.seq = m, !.notBefore = notBefore, !.deadline = deadline]]
          /\ EmitRecords(<<[Record("WorkAdmitted", w, None, notBefore) EXCEPT !.deadline = deadline]>>)
    /\ UNCHANGED <<leaseSeq, ids, keys, deadLetters>>

-----------------------------------------------------------------------------
(* Commands *)

\* A command is reduced when it is well-formed and neither its id nor its idempotency key was seen;
\* both are spent whatever the command then does.
Reduces(id, key) ==
    /\ wave = <<>>
    /\ id \notin ids
    /\ key = None \/ key \notin keys
    /\ ids' = ids \cup {id}
    /\ keys' = IF key = None THEN keys ELSE keys \cup {key}
    /\ UNCHANGED sources

ExpiredWork(work) == ClearLease([work EXCEPT !.state = "Ready"])

\* The elements of S in the order of their keys, which differ.
InOrderOf(S, Key(_)) ==
    [i \in 1..Cardinality(S) |-> CHOOSE x \in S : Cardinality({y \in S : Key(y) < Key(x)}) = i - 1]

InOrder(S) == InOrderOf(S, LAMBDA w : w)

ByAdmission(S) == InOrderOf(S, LAMBDA w : works[w].seq)

Take(s, n) == SubSeq(s, 1, IF Len(s) < n THEN Len(s) ELSE n)

Index(s, x) == CHOOSE i \in DOMAIN s : s[i] = x

ExpiryRecords(S, id) ==
    LET expired == InOrder(S)
    IN  [i \in DOMAIN expired |-> Record("LeaseExpired", expired[i], id, works[expired[i]].expires)]

\* validate_queue_command: limits and durations are positive when given.
WellFormed(limit, duration) == limit > 0 /\ duration > 0

\* claim_work: expired leases in scope end first, then the oldest ready works are leased.
ClaimWork(id, key, worker, requested, limit, duration, now) ==
    LET scope == IF requested = {} THEN Works ELSE requested
        expired == {w \in scope : IsExpired(works[w], now)}
        freed == [w \in Works |-> IF w \in expired THEN ExpiredWork(works[w]) ELSE works[w]]
        chosen == Take(ByAdmission({w \in scope : IsReady(freed[w], now)}), limit)
        leased == [w \in Works |->
                     IF w \in ToSet(chosen)
                     THEN [freed[w] EXCEPT !.state = "Leased", !.attempt = @ + 1, !.worker = worker,
                              !.lease = leaseSeq + Index(chosen, w), !.expires = now + duration]
                     ELSE freed[w]]
        claim(i) == [Record("WorkClaimed", chosen[i], id, now + duration) EXCEPT
                        !.lease = leaseSeq + i, !.attempt = leased[chosen[i]].attempt, !.worker = worker]
    IN  /\ WellFormed(limit, duration)
        /\ Reduces(id, key)
        /\ \/ /\ chosen = <<>>
              /\ works' = freed
              /\ EmitRecords(ExpiryRecords(expired, id))
              /\ UNCHANGED leaseSeq
           \/ /\ chosen # <<>> /\ Overflows(now, duration)
              /\ works' = freed
              /\ DropRecords(ExpiryRecords(expired, id))
              /\ UNCHANGED leaseSeq
           \/ /\ chosen # <<>> /\ ~Overflows(now, duration)
              /\ works' = leased
              /\ leaseSeq' = leaseSeq + Len(chosen)
              /\ EmitRecords(ExpiryRecords(expired, id) \o [i \in DOMAIN chosen |-> claim(i)])
        /\ UNCHANGED deadLetters

Holds_AnyLease(c) ==
    /\ works[c.work].state = "Leased"
    /\ works[c.work].attempt = c.attempt
    /\ works[c.work].worker = c.worker

\* current_lease: the lease named by the command is the work's, and has not expired.
Holds(c) ==
    /\ works[c.work].state = "Leased"
    /\ works[c.work].lease = c.lease
    /\ works[c.work].attempt = c.attempt
    /\ works[c.work].worker = c.worker

\* A lease command that is refused; a lease found expired is ended on the way.
Refused(c) ==
    /\ \/ /\ Holds(c) /\ IsExpired(works[c.work], c.now)
          /\ works' = [works EXCEPT ![c.work] = ExpiredWork(@)]
          /\ EmitRecords(ExpiryRecords({c.work}, c.id))
       \/ /\ ~Holds(c)
          /\ UNCHANGED works /\ Silent
    /\ UNCHANGED <<leaseSeq, deadLetters>>

Current(c) == Holds(c) /\ ~IsExpired(works[c.work], c.now)

RenewLease(c, expiresAt, duration) ==
    LET next == IF expiresAt # None THEN expiresAt ELSE c.now + duration
    IN  /\ WellFormed(1, duration)
        /\ Reduces(c.id, c.key)
        /\ \/ Refused(c)
           \/ /\ Current(c)
              /\ expiresAt = None /\ Overflows(c.now, duration)
              /\ UNCHANGED <<works, leaseSeq, deadLetters>> /\ Silent
           \/ /\ Current(c)
              /\ expiresAt # None \/ ~Overflows(c.now, duration)
              /\ works' = [works EXCEPT ![c.work].expires = next]
              /\ EmitRecords(<<LeaseRecord("LeaseRenewed", c, next)>>)
              /\ UNCHANGED <<leaseSeq, deadLetters>>

ReleaseWork(c) ==
    /\ Reduces(c.id, c.key)
    /\ \/ Refused(c)
       \/ /\ Current(c)
          /\ works' = [works EXCEPT ![c.work] = ClearLease([@ EXCEPT !.state = "Ready"])]
          /\ EmitRecords(<<LeaseRecord("WorkReleased", c, None)>>)
          /\ UNCHANGED <<leaseSeq, deadLetters>>

CompleteWork(c) ==
    /\ Reduces(c.id, c.key)
    /\ \/ Refused(c)
       \/ /\ Current(c)
          /\ works' = [works EXCEPT ![c.work] = ClearLease([@ EXCEPT !.state = "Completed"])]
          /\ EmitRecords(<<LeaseRecord("AttemptCompleted", c, None), LeaseRecord("WorkCompleted", c, None)>>)
          /\ UNCHANGED <<leaseSeq, deadLetters>>

ShouldRetry(attempt) == attempt < MaxAttempts

FailWork(c, retryable) ==
    LET again == retryable # FALSE /\ ShouldRetry(works[c.work].attempt)
        delay == Backoff[works[c.work].attempt + 1]
        failed == LeaseRecord("AttemptFailed", c, None)
    IN  /\ Reduces(c.id, c.key)
        /\ \/ Refused(c)
           \/ /\ Current(c) /\ again /\ Overflows(c.now, delay)
              /\ UNCHANGED <<works, leaseSeq, deadLetters>> /\ Silent
           \/ /\ Current(c) /\ again /\ ~Overflows(c.now, delay)
              /\ works' = [works EXCEPT ![c.work] = ClearLease([@ EXCEPT
                     !.state = IF delay > 0 THEN "RetryWait" ELSE "Ready", !.retryAt = c.now + delay])]
              /\ EmitRecords(<<failed, Record("RetryScheduled", c.work, c.id, c.now + delay)>>)
              /\ UNCHANGED <<leaseSeq, deadLetters>>
           \/ /\ Current(c) /\ ~again
              /\ works' = [works EXCEPT ![c.work] = ClearLease([@ EXCEPT !.state = "DeadLettered"])]
              /\ EmitRecords(<<failed, Record("WorkDeadLettered", c.work, c.id, None)>>)
              /\ deadLetters' = Append(deadLetters, Len(records) + 2)
              /\ UNCHANGED leaseSeq

CancelWork(id, key, w) ==
    /\ Reduces(id, key)
    /\ \/ /\ works[w].state \in Terminal \cup {"Unknown"}
          /\ UNCHANGED works /\ Silent
       \/ /\ works[w].state \notin Terminal \cup {"Unknown"}
          /\ works' = [works EXCEPT ![w] = ClearLease([@ EXCEPT !.state = "Canceled"])]
          /\ EmitRecords(<<Record("WorkCanceled", w, id, None)>>)
    /\ UNCHANGED <<leaseSeq, deadLetters>>

ScheduleWork(id, key, w, notBefore, deadline) ==
    /\ Reduces(id, key)
    /\ \/ /\ works[w].state \in Terminal \cup {"Unknown", "Leased"}
          /\ UNCHANGED works /\ Silent
       \/ /\ works[w].state \notin Terminal \cup {"Unknown", "Leased"}
          /\ works' = [works EXCEPT ![w] = [@ EXCEPT !.state = "Scheduled", !.notBefore = notBefore, !.deadline = deadline]]
          /\ EmitRecords(<<[Record("WorkScheduled", w, id, notBefore) EXCEPT !.deadline = deadline]>>)
    /\ UNCHANGED <<leaseSeq, deadLetters>>

ExpireLeases(id, key, requested, limit, now) ==
    LET scope == IF requested = {} THEN Works ELSE requested
        expired == ToSet(Take(InOrder({w \in scope : IsExpired(works[w], now)}), limit))
    IN  /\ WellFormed(limit, 1)
        /\ Reduces(id, key)
        /\ works' = [w \in Works |-> IF w \in expired THEN ExpiredWork(works[w]) ELSE works[w]]
        /\ EmitRecords(ExpiryRecords(expired, id))
        /\ UNCHANGED <<leaseSeq, deadLetters>>

-----------------------------------------------------------------------------
(* Projections: pages of what the queue holds, read with a cursor *)

\* is_ready_for_projection, in the order of a page.
Available(now) ==
    ByAdmission({w \in Works : \/ works[w].state = "Ready"
                               \/ now # None /\ works[w].state # "Unknown" /\ IsReady(works[w], now)})

\* available_page: the first works after the cursor (a work, or None), and whether there are more.
AvailablePage_NoCursor(now, after, limit) ==
    [items |-> Take(Available(now), limit), more |-> Len(Available(now)) > limit]

AvailablePage(now, after, limit) ==
    LET rest == SelectSeq(Available(now), LAMBDA w : after = None \/ works[w].seq > works[after].seq)
    IN  [items |-> Take(rest, limit), more |-> Len(rest) > limit]

\* dead_letter_page: the first dead letters after a record number.
DeadLetterPage(after, limit) ==
    LET rest == SelectSeq(deadLetters, LAMBDA i : after = None \/ i > after)
    IN  [items |-> Take(rest, limit), more |-> Len(rest) > limit]

\* work_snapshot: what a reader of one work sees.
WorkSnapshot(w) ==
    [state |-> works[w].state,
     lease |-> IF works[w].state = "Leased" THEN works[w].lease ELSE None,
     records |-> SelectSeq(records, LAMBDA r : r.work = w)]

-----------------------------------------------------------------------------
QueueInit ==
    /\ works = [w \in Works |-> Absent]
    /\ records = <<>> /\ wave = <<>> /\ unsent = {}
    /\ leaseSeq = 0 /\ sources = {} /\ ids = {} /\ keys = {} /\ deadLetters = <<>>

\* Commands of users name an id of theirs, used before or the next one.
UserId == {<<"user", i>> : i \in 1..MaxCommands}
NextId == {id \in UserId : id[2] = 1 + Cardinality(ids \cap UserId)}

\* A worker speaks of a lease that was given out at some time, to it or to another.
LeaseCommand ==
    [id : NextId, key : Keys \cup {None}, now : Times, worker : Workers,
     work : Works, lease : 1..leaseSeq, attempt : {works[w].attempt : w \in Works} \ {0}]

Admitting ==
    \E m \in (1..MaxMessages) \cap (sources \cup {Cardinality(sources) + 1}), now \in Times, s \in Submits :
        AdmitMessage(m, s.work, now, s.notBefore, s.deadline)

Claiming ==
    \E id \in NextId, key \in Keys \cup {None}, worker \in Workers, requested \in Requests,
       limit \in 1..2, duration \in Durations, now \in Times :
        ClaimWork(id, key, worker, requested, limit, duration, now)

Working ==
    \E c \in LeaseCommand :
        \/ \E expiresAt \in Times \cup {None}, duration \in Durations : RenewLease(c, expiresAt, duration)
        \/ ReleaseWork(c)
        \/ CompleteWork(c)
        \/ \E retryable \in {None, FALSE} : FailWork(c, retryable)

Scheduling ==
    \E id \in NextId, key \in Keys \cup {None}, w \in Works, s \in Schedules :
        ScheduleWork(id, key, w, s.notBefore, s.deadline)

Ending ==
    \E id \in NextId, key \in Keys \cup {None} :
        \/ \E w \in Works : CancelWork(id, key, w)
        \/ \E requested \in Requests, limit \in 1..2, now \in Times : ExpireLeases(id, key, requested, limit, now)

User == Admitting \/ Claiming \/ Working \/ Scheduling \/ Ending
=============================================================================
