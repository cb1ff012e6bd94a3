----------------------------- MODULE QueueProofs -----------------------------
(***************************************************************************)
(* The work queue keeps its leases apart: a lease is given once, ends at   *)
(* most once, and a work has one outcome, for any works, workers, times,   *)
(* requests and numbers of commands.                                       *)
(***************************************************************************)
EXTENDS Readiness, SequenceTheorems, FunctionTheorems, FiniteSetTheorems, TLAPS

-----------------------------------------------------------------------------
(* The invariant.  It speaks of the works ws, the log rs and the number of leases n, *)
(* so that a step with several parts can be taken apart.                             *)

After == {"WorkCompleted", "RetryScheduled", "WorkDeadLettered", "AdmissionDeduped"}
Outcomes == {"WorkCompleted", "WorkDeadLettered", "WorkCanceled"}

\* A record names a work and no lease that was not given yet.
RecordOK(r, n) == r.kind \in Kinds /\ r.work \in Works /\ (r.lease = None \/ r.lease \in 1..n)

LogOK(rs, n) == rs \in Seq(ToSet(rs)) /\ \A i \in 1..Len(rs) : RecordOK(rs[i], n)

\* A work has a lease exactly while it is leased, and no two works have the same.
LeasesApart(ws, n) ==
    /\ \A w \in Works : /\ ws[w].lease = None \/ ws[w].lease \in 1..n
                        /\ ws[w].lease # None <=> ws[w].state = "Leased"
    /\ \A v, w \in Works : ws[v].lease # None /\ ws[v].lease = ws[w].lease => v = w

Held(ws, l) == \E w \in Works : ws[w].lease = l

Ends(rs, i, l) == rs[i].lease = l /\ rs[i].kind \in Enders

\* The record that gave lease l is the first one about it, and the only one of its kind.
GivenOnce(rs, l) ==
    \E g \in 1..Len(rs) : /\ rs[g].lease = l /\ rs[g].kind = "WorkClaimed"
                          /\ \A i \in 1..Len(rs) : rs[i].lease = l => i >= g /\ (rs[i].kind = "WorkClaimed" => i = g)

\* Lease l is held and nothing ended it, or one record ended it and only its consequences follow.
EndedOnce(ws, rs, l) ==
    \/ Held(ws, l) /\ \A i \in 1..Len(rs) : ~Ends(rs, i, l)
    \/ /\ ~Held(ws, l)
       /\ \E e \in 1..Len(rs) : /\ Ends(rs, e, l)
                                /\ \A i \in 1..Len(rs) : /\ Ends(rs, i, l) => i = e
                                                         /\ rs[i].lease = l /\ i > e => rs[i].kind \in After

\* The outcome of a work is the last that happens to it.
LastOutcome(ws, rs, i) ==
    rs[i].kind \in Outcomes =>
        /\ IsTerminal(ws[rs[i].work])
        /\ \A j \in 1..Len(rs) : rs[j].work = rs[i].work /\ rs[j].kind \notin Ignored => j <= i

QueueOK(ws, rs, n) ==
    /\ n \in Nat /\ LogOK(rs, n) /\ LeasesApart(ws, n)
    /\ \A l \in 1..n : GivenOnce(rs, l) /\ EndedOnce(ws, rs, l)
    /\ \A i \in 1..Len(rs) : LastOutcome(ws, rs, i)

-----------------------------------------------------------------------------
(* What a step may append, and what it may do to leases meanwhile. *)

\* As far as leases go: records differ in the number they get and in what they announce.
Same(r, a) == r.kind = a.kind /\ r.work = a.work /\ r.lease = a.lease

\* The log rt is the log rs with the records new after it.
Appended(rs, new, rt) ==
    /\ rt \in Seq(ToSet(rt)) /\ Len(new) \in Nat /\ Len(rt) = Len(rs) + Len(new)
    /\ \A i \in 1..Len(rs) : rt[i] = rs[i]
    /\ \A k \in 1..Len(new) : Same(rt[Len(rs) + k], new[k])

\* New leases are named by the claim only, old ones by works that hold them.
NamesOK(ws, new, n) ==
    \A k \in 1..Len(new) :
        new[k].lease # None => \/ new[k].lease > n /\ new[k].kind = "WorkClaimed"
                               \/ new[k].lease <= n /\ new[k].kind # "WorkClaimed" /\ Held(ws, new[k].lease)

\* Every new lease is given by one record, to a work.
GivesOK(wt, new, n, m) ==
    \A l \in (n + 1)..m :
        /\ Held(wt, l)
        /\ \E g \in 1..Len(new) : new[g].lease = l /\ \A k \in 1..Len(new) : new[k].lease = l => k = g

\* A work keeps its lease, or the first new record about the lease ends it.
KeepsOrEnds(ws, wt, new, w) ==
    \/ wt[w].lease = ws[w].lease /\ \A k \in 1..Len(new) : ~Ends(new, k, ws[w].lease)
    \/ /\ wt[w].lease # ws[w].lease
       /\ \E e \in 1..Len(new) : /\ Ends(new, e, ws[w].lease)
                                 /\ \A k \in 1..Len(new) : new[k].lease = ws[w].lease
                                                              => k >= e /\ (k > e => new[k].kind \in After)

\* A lease a work has after the step is new or was its own.
NoSwap(ws, wt, n) == \A w \in Works : wt[w].lease \in {None, ws[w].lease} \/ wt[w].lease > n

\* Nothing happens to a work that ended, and what ends it comes last.
OutcomesOK(ws, wt, new) ==
    /\ \A w \in Works : IsTerminal(ws[w]) => /\ IsTerminal(wt[w])
                                             /\ \A k \in 1..Len(new) : new[k].work = w => new[k].kind \in Ignored
    /\ \A k \in 1..Len(new) :
           new[k].kind \in Outcomes =>
               /\ IsTerminal(wt[new[k].work])
               /\ \A j \in 1..Len(new) : new[j].work = new[k].work /\ new[j].kind \notin Ignored => j <= k

StepOK(ws, wt, new, n, m) ==
    /\ m \in Nat /\ n <= m /\ LeasesApart(wt, m) /\ \A k \in 1..Len(new) : RecordOK(new[k], m)
    /\ NamesOK(ws, new, n) /\ GivesOK(wt, new, n, m) /\ NoSwap(ws, wt, n)
    /\ \A w \in Works : ws[w].lease # None => KeepsOrEnds(ws, wt, new, w)
    /\ OutcomesOK(ws, wt, new)

\* Where a record of the longer log comes from.
Places(rs, new, rt) ==
    /\ Len(rs) \in Nat /\ Len(new) \in Nat /\ Len(rt) = Len(rs) + Len(new)
    /\ \A i \in 1..Len(rs) : i \in 1..Len(rt) /\ rt[i] = rs[i]
    /\ \A k \in 1..Len(new) : Len(rs) + k \in 1..Len(rt) /\ Same(rt[Len(rs) + k], new[k])
    /\ \A i \in 1..Len(rt) : i \in 1..Len(rs) \/ \E k \in 1..Len(new) : i = Len(rs) + k

\* Every record of the longer log is an old one, or a new one moved behind them.
LEMMA PlacesOf ==
    ASSUME NEW rs, NEW new, NEW rt, Len(rs) \in Nat, Appended(rs, new, rt)
    PROVE  Places(rs, new, rt)
<1>1. Len(rs) \in Nat /\ Len(new) \in Nat /\ Len(rt) = Len(rs) + Len(new)
  BY DEF Appended
<1>2. ASSUME NEW i \in 1..Len(rt), i \notin 1..Len(rs) PROVE \E k \in 1..Len(new) : i = Len(rs) + k
  <2>1. i - Len(rs) \in 1..Len(new) /\ i = Len(rs) + (i - Len(rs))
    BY <1>1, <1>2
  <2> QED BY <2>1
<1> QED BY <1>1, <1>2 DEF Appended, Places

\* Such a step keeps the invariant: first what it says of one lease, then of one outcome.
LEMMA GivenKept ==
    ASSUME NEW ws, NEW wt, NEW rs, NEW new, NEW rt, NEW n, NEW m, QueueOK(ws, rs, n), StepOK(ws, wt, new, n, m),
           Appended(rs, new, rt), NEW l \in 1..m
    PROVE  GivenOnce(rt, l)
<1>1. n \in Nat /\ m \in Nat /\ n <= m /\ Len(rs) \in Nat
  BY DEF QueueOK, StepOK, LogOK
<1>2. Places(rs, new, rt)
  BY <1>1, PlacesOf
<1>c. None \notin Nat
  BY WorkQueueAssumption
<1>3. CASE l <= n
  <2>1. PICK g \in 1..Len(rs) : /\ rs[g].lease = l /\ rs[g].kind = "WorkClaimed"
                                /\ \A i \in 1..Len(rs) : rs[i].lease = l => i >= g /\ (rs[i].kind = "WorkClaimed" => i = g)
    BY <1>1, <1>3 DEF QueueOK, GivenOnce
  <2>2. \A k \in 1..Len(new) : new[k].lease = l => new[k].kind # "WorkClaimed"
    BY <1>1, <1>3, <1>c DEF StepOK, NamesOK
  <2>3. ASSUME NEW i \in 1..Len(rt), rt[i].lease = l PROVE i >= g /\ (rt[i].kind = "WorkClaimed" => i = g)
    <3>1. CASE i \in 1..Len(rs)
      BY <2>1, <2>3, <3>1, <1>2 DEF Places
    <3>2. CASE \E k \in 1..Len(new) : i = Len(rs) + k
      BY <2>2, <2>3, <3>2, <1>1, <1>2 DEF Places, Same
    <3> QED BY <3>1, <3>2, <1>2 DEF Places
  <2> QED BY <2>1, <2>3, <1>2 DEF GivenOnce, Places
<1>4. CASE l > n
  <2>1. PICK g \in 1..Len(new) : new[g].lease = l /\ \A k \in 1..Len(new) : new[k].lease = l => k = g
    BY <1>1, <1>4 DEF StepOK, GivesOK
  <2>2. new[g].kind = "WorkClaimed"
    BY <2>1, <1>1, <1>4, <1>c DEF StepOK, NamesOK
  <2>3. \A i \in 1..Len(rs) : rt[i].lease # l
    <3>1. \A i \in 1..Len(rs) : rs[i].lease = None \/ rs[i].lease \in 1..n
      BY DEF QueueOK, LogOK, RecordOK
    <3>2. \A i \in 1..Len(rs) : rt[i] = rs[i]
      BY <1>2 DEF Places
    <3>3. l # None /\ l \notin 1..n
      BY <1>1, <1>4, <1>c
    <3> QED BY <3>1, <3>2, <3>3
  <2>4. ASSUME NEW i \in 1..Len(rt), rt[i].lease = l PROVE i = Len(rs) + g
    <3>1. PICK k \in 1..Len(new) : i = Len(rs) + k
      BY <2>3, <2>4, <1>2 DEF Places
    <3>2. new[k].lease = l
      BY <3>1, <2>4, <1>2 DEF Places, Same
    <3> QED BY <3>1, <3>2, <2>1
  <2>5. Len(rs) + g \in 1..Len(rt) /\ rt[Len(rs) + g].lease = l /\ rt[Len(rs) + g].kind = "WorkClaimed"
    BY <2>1, <2>2, <1>2 DEF Places, Same
  <2>6. \A i \in 1..Len(rt) : i = Len(rs) + g => i >= Len(rs) + g
    BY <1>1
  <2> QED BY <2>4, <2>5, <2>6 DEF GivenOnce
<1> QED BY <1>1, <1>3, <1>4

\* Lease l is held, or was ended once, after the step as before it.
LEMMA EndedKept ==
    ASSUME NEW ws, NEW wt, NEW rs, NEW new, NEW rt, NEW n, NEW m, QueueOK(ws, rs, n), StepOK(ws, wt, new, n, m),
           Appended(rs, new, rt), NEW l \in 1..m
    PROVE  EndedOnce(wt, rt, l)
<1>1. n \in Nat /\ m \in Nat /\ n <= m /\ Len(rs) \in Nat
  BY DEF QueueOK, StepOK, LogOK
<1>2. Places(rs, new, rt)
  BY <1>1, PlacesOf
<1>c. None \notin Nat /\ "WorkClaimed" \notin Enders /\ \A k \in Enders : k \notin After
  BY WorkQueueAssumption DEF Enders, After
<1>n. \A k \in 1..Len(new) : Ends(rt, Len(rs) + k, l) <=> Ends(new, k, l)
  BY <1>2 DEF Places, Same, Ends
<1>o. \A i \in 1..Len(rs) : Ends(rt, i, l) <=> Ends(rs, i, l)
  BY <1>2 DEF Places, Ends
<1>3. CASE l <= n /\ Held(ws, l)
  <2>1. PICK w \in Works : ws[w].lease = l
    BY <1>3 DEF Held
  <2>2. KeepsOrEnds(ws, wt, new, w) /\ l # None
    BY <2>1, <1>c DEF StepOK
  <2>3. \A i \in 1..Len(rs) : ~Ends(rt, i, l)
    <3>1. EndedOnce(ws, rs, l)
      BY <1>1, <1>3 DEF QueueOK
    <3> QED BY <3>1, <1>o, <1>3 DEF EndedOnce
  <2>4. CASE wt[w].lease = l
    <3>1. \A k \in 1..Len(new) : ~Ends(new, k, l)
      BY <2>1, <2>2, <2>4 DEF KeepsOrEnds
    <3>2. \A i \in 1..Len(rt) : ~Ends(rt, i, l)
      BY <3>1, <2>3, <1>n, <1>2 DEF Places
    <3> QED BY <3>2, <2>4 DEF EndedOnce, Held
  <2>5. CASE wt[w].lease # l
    <3>1. PICK e \in 1..Len(new) : /\ Ends(new, e, l)
                                   /\ \A k \in 1..Len(new) : new[k].lease = l => k >= e /\ (k > e => new[k].kind \in After)
      BY <2>1, <2>2, <2>5 DEF KeepsOrEnds
    <3>2. ~Held(wt, l)
      <4> SUFFICES ASSUME NEW v \in Works, wt[v].lease = l PROVE FALSE
        BY DEF Held
      <4>1. ws[v].lease = l
        BY <1>1, <1>3, <2>2 DEF StepOK, NoSwap
      <4>2. v = w
        BY <4>1, <2>1, <2>2 DEF QueueOK, LeasesApart
      <4> QED BY <4>2, <2>5
    <3>3. ASSUME NEW i \in 1..Len(rt), Ends(rt, i, l) PROVE i = Len(rs) + e
      <4>1. PICK k \in 1..Len(new) : i = Len(rs) + k
        BY <2>3, <3>3, <1>2 DEF Places
      <4>2. Ends(new, k, l)
        BY <4>1, <3>3, <1>n
      <4>3. k = e
        BY <4>2, <3>1, <1>c DEF Ends
      <4> QED BY <4>1, <4>3
    <3>4. ASSUME NEW i \in 1..Len(rt), rt[i].lease = l, i > Len(rs) + e PROVE rt[i].kind \in After
      <4>1. PICK k \in 1..Len(new) : i = Len(rs) + k
        BY <3>4, <1>1, <1>2 DEF Places
      <4>2. k > e
        BY <4>1, <3>4, <1>1
      <4>3. rt[i].kind = new[k].kind /\ new[k].lease = l
        BY <4>1, <3>4, <1>2 DEF Places, Same
      <4> QED BY <4>2, <4>3, <3>1
    <3>5. Len(rs) + e \in 1..Len(rt) /\ Ends(rt, Len(rs) + e, l)
      BY <3>1, <1>n, <1>2 DEF Places
    <3> QED BY <3>2, <3>3, <3>4, <3>5 DEF EndedOnce
  <2> QED BY <2>4, <2>5
<1>4. CASE l <= n /\ ~Held(ws, l)
  <2>1. PICK e \in 1..Len(rs) : /\ Ends(rs, e, l)
                                /\ \A i \in 1..Len(rs) : /\ Ends(rs, i, l) => i = e
                                                         /\ rs[i].lease = l /\ i > e => rs[i].kind \in After
    <3>1. EndedOnce(ws, rs, l)
      BY <1>1, <1>4 DEF QueueOK
    <3> QED BY <3>1, <1>4 DEF EndedOnce
  <2>2. \A k \in 1..Len(new) : new[k].lease # l
    BY <1>1, <1>4, <1>c DEF StepOK, NamesOK
  <2>3. \A i \in 1..Len(rt) : rt[i].lease = l => i \in 1..Len(rs) /\ rt[i] = rs[i]
    <3> SUFFICES ASSUME NEW i \in 1..Len(rt), rt[i].lease = l PROVE i \in 1..Len(rs) /\ rt[i] = rs[i]
      OBVIOUS
    <3>1. ASSUME NEW k \in 1..Len(new), i = Len(rs) + k PROVE FALSE
      BY <3>1, <2>2, <1>2 DEF Places, Same
    <3> QED BY <3>1, <1>2 DEF Places
  <2>4. ~Held(wt, l)
    BY <1>1, <1>4, <1>c DEF StepOK, NoSwap, Held
  <2>5. e \in 1..Len(rt) /\ Ends(rt, e, l)
    BY <2>1, <1>o, <1>2 DEF Places
  <2> QED BY <2>1, <2>3, <2>4, <2>5 DEF EndedOnce, Ends
<1>5. CASE l > n
  <2>1. Held(wt, l)
    BY <1>1, <1>5 DEF StepOK, GivesOK
  <2>2. \A i \in 1..Len(rs) : ~Ends(rt, i, l)
    BY <1>1, <1>2, <1>5, <1>c DEF QueueOK, LogOK, RecordOK, Places, Ends
  <2>3. \A k \in 1..Len(new) : ~Ends(new, k, l)
    BY <1>1, <1>5, <1>c DEF StepOK, NamesOK, Ends
  <2>4. \A i \in 1..Len(rt) : ~Ends(rt, i, l)
    BY <2>2, <2>3, <1>n, <1>2 DEF Places
  <2> QED BY <2>1, <2>4 DEF EndedOnce
<1> QED BY <1>1, <1>3, <1>4, <1>5

\* The outcome of a work stays the last thing that happens to it.
LEMMA OutcomeKept ==
    ASSUME NEW ws, NEW wt, NEW rs, NEW new, NEW rt, NEW n, NEW m, QueueOK(ws, rs, n), StepOK(ws, wt, new, n, m),
           Appended(rs, new, rt), NEW i \in 1..Len(rt)
    PROVE  LastOutcome(wt, rt, i)
<1>1. Len(rs) \in Nat
  BY DEF QueueOK, LogOK
<1>2. Places(rs, new, rt)
  BY <1>1, PlacesOf
<1> SUFFICES ASSUME rt[i].kind \in Outcomes
             PROVE  /\ IsTerminal(wt[rt[i].work])
                    /\ \A j \in 1..Len(rt) : rt[j].work = rt[i].work /\ rt[j].kind \notin Ignored => j <= i
  BY DEF LastOutcome
<1>3. CASE i \in 1..Len(rs)
  <2>1. /\ IsTerminal(ws[rt[i].work]) /\ rt[i].work \in Works
        /\ \A j \in 1..Len(rs) : rs[j].work = rt[i].work /\ rs[j].kind \notin Ignored => j <= i
    BY <1>2, <1>3 DEF QueueOK, LastOutcome, LogOK, RecordOK, Places
  <2>2. /\ IsTerminal(wt[rt[i].work])
        /\ \A k \in 1..Len(new) : new[k].work = rt[i].work => new[k].kind \in Ignored
    BY <2>1 DEF StepOK, OutcomesOK
  <2>3. ASSUME NEW j \in 1..Len(rt), rt[j].work = rt[i].work, rt[j].kind \notin Ignored PROVE j <= i
    <3>1. j \in 1..Len(rs)
      <4>1. ASSUME NEW k \in 1..Len(new), j = Len(rs) + k PROVE FALSE
        BY <4>1, <2>2, <2>3, <1>2 DEF Places, Same
      <4> QED BY <4>1, <1>2 DEF Places
    <3> QED BY <3>1, <2>1, <2>3, <1>2 DEF Places
  <2> QED BY <2>2, <2>3
<1>4. CASE \E k \in 1..Len(new) : i = Len(rs) + k
  <2>1. PICK k \in 1..Len(new) : i = Len(rs) + k
    BY <1>4
  <2>2. new[k].kind \in Outcomes /\ new[k].work = rt[i].work
    BY <2>1, <1>2 DEF Places, Same
  <2>3. /\ IsTerminal(wt[rt[i].work])
        /\ \A j \in 1..Len(new) : new[j].work = rt[i].work /\ new[j].kind \notin Ignored => j <= k
    BY <2>2 DEF StepOK, OutcomesOK
  <2>4. ASSUME NEW j \in 1..Len(rt), rt[j].work = rt[i].work, rt[j].kind \notin Ignored PROVE j <= i
    <3>1. CASE j \in 1..Len(rs)
      BY <3>1, <2>1, <1>1
    <3>2. CASE \E h \in 1..Len(new) : j = Len(rs) + h
      <4>1. PICK h \in 1..Len(new) : j = Len(rs) + h
        BY <3>2
      <4>2. h <= k
        BY <4>1, <2>3, <2>4, <1>2 DEF Places, Same
      <4> QED BY <4>1, <4>2, <2>1, <1>1
    <3> QED BY <3>1, <3>2, <1>2 DEF Places
  <2> QED BY <2>3, <2>4
<1> QED BY <1>3, <1>4, <1>2 DEF Places

\* The longer log has only records about works and leases that were given.
LEMMA LogKept ==
    ASSUME NEW ws, NEW wt, NEW rs, NEW new, NEW rt, NEW n, NEW m, QueueOK(ws, rs, n), StepOK(ws, wt, new, n, m),
           Appended(rs, new, rt)
    PROVE  LogOK(rt, m)
<1>1. n \in Nat /\ m \in Nat /\ n <= m /\ Len(rs) \in Nat
  BY DEF QueueOK, StepOK, LogOK
<1>2. Places(rs, new, rt) /\ rt \in Seq(ToSet(rt))
  BY <1>1, PlacesOf DEF Appended
<1>3. ASSUME NEW i \in 1..Len(rt) PROVE RecordOK(rt[i], m)
  <2>1. CASE i \in 1..Len(rs)
    BY <2>1, <1>1, <1>2 DEF QueueOK, LogOK, RecordOK, Places
  <2>2. CASE \E k \in 1..Len(new) : i = Len(rs) + k
    <3>1. PICK k \in 1..Len(new) : i = Len(rs) + k
      BY <2>2
    <3>2. Same(rt[i], new[k]) /\ RecordOK(new[k], m)
      BY <3>1, <1>2 DEF StepOK, Places
    <3> QED BY <3>2 DEF RecordOK, Same
  <2> QED BY <2>1, <2>2, <1>2 DEF Places
<1> QED BY <1>2, <1>3 DEF LogOK

\* The bulk of the proof: a step that does what StepOK says keeps the invariant.
LEMMA StepKeeps ==
    ASSUME NEW ws, NEW wt, NEW rs, NEW new, NEW rt, NEW n, NEW m, QueueOK(ws, rs, n), StepOK(ws, wt, new, n, m),
           Appended(rs, new, rt)
    PROVE  QueueOK(wt, rt, m)
<1>1. m \in Nat /\ LogOK(rt, m) /\ LeasesApart(wt, m)
  BY LogKept DEF StepOK
<1>2. \A l \in 1..m : GivenOnce(rt, l) /\ EndedOnce(wt, rt, l)
  BY GivenKept, EndedKept
<1>3. \A i \in 1..Len(rt) : LastOutcome(wt, rt, i)
  BY OutcomeKept
<1> QED BY <1>1, <1>2, <1>3 DEF QueueOK

-----------------------------------------------------------------------------
(* Appending records. *)

\* A record is what its fields are.
Whole(r) == r = [seq |-> r.seq, kind |-> r.kind, work |-> r.work, command |-> r.command, at |-> r.at,
                 deadline |-> r.deadline, lease |-> r.lease, attempt |-> r.attempt, worker |-> r.worker]

\* Giving a record its number leaves its kind, work and lease alone (append_record).
LEMMA SameNumbered ==
    ASSUME NEW r, Whole(r), NEW x PROVE Same([r EXCEPT !.seq = x], r)
BY DEF Whole, Same

\* What EmitRecords and DropRecords do to the log.
LEMMA AppendNumbered ==
    ASSUME NEW rs, rs \in Seq(ToSet(rs)), NEW S, NEW new \in Seq(S), \A k \in 1..Len(new) : Whole(new[k]),
           NEW first
    PROVE  Appended(rs, new, rs \o Numbered(new, first))
<1> DEFINE s == Numbered(new, first)
           rt == rs \o s
<1>1. DOMAIN new = 1..Len(new) /\ Len(new) \in Nat
  OBVIOUS
<1>2. s = [k \in 1..Len(new) |-> [new[k] EXCEPT !.seq = first + k]]
  BY <1>1 DEF Numbered
<1>3. s \in Seq(ToSet(s)) /\ Len(s) = Len(new)
  <2>1. s \in [1..Len(new) -> ToSet(s)]
    BY <1>2 DEF ToSet
  <2> QED BY <2>1, <1>1, SeqDef, LenProperties
<1>4. \A k \in 1..Len(new) : Same(s[k], new[k])
  <2> SUFFICES ASSUME NEW k \in 1..Len(new) PROVE Same(s[k], new[k])
    OBVIOUS
  <2>1. s[k] = [new[k] EXCEPT !.seq = first + k]
    BY <1>2
  <2>2. Same([new[k] EXCEPT !.seq = first + k], new[k])
    BY SameNumbered
  <2> QED BY <2>1, <2>2
<1> HIDE DEF s
<1>5. /\ rt \in Seq(ToSet(rs) \cup ToSet(s)) /\ Len(rt) = Len(rs) + Len(new)
      /\ \A i \in 1..Len(rs) : rt[i] = rs[i]
      /\ \A k \in 1..Len(new) : rt[Len(rs) + k] = s[k]
  <2>1. rs \in Seq(ToSet(rs) \cup ToSet(s)) /\ s \in Seq(ToSet(rs) \cup ToSet(s))
    BY <1>3
  <2> QED BY <2>1, <1>3
<1>6. rt \in Seq(ToSet(rt))
  <2> HIDE DEF rt
  <2>1. rt \in [1..Len(rt) -> ToSet(rt)] /\ Len(rt) \in Nat
    BY <1>5 DEF ToSet
  <2> QED BY <2>1, SeqDef
<1>7. \A k \in 1..Len(new) : Same(rt[Len(rs) + k], new[k])
  BY <1>4, <1>5
<1>8. Appended(rs, new, rt)
  <2> HIDE DEF rt
  <2> QED BY <1>1, <1>5, <1>6, <1>7 DEF Appended
<1> QED BY <1>8 DEF s

-----------------------------------------------------------------------------
(* Steps about one work. *)

Others(ws, wt, w) == \A v \in Works : v # w => wt[v] = ws[v]

\* Something is noted about a work, which keeps its lease.
Notes(ws, wt, w, new) ==
    /\ Others(ws, wt, w) /\ wt[w].lease = ws[w].lease /\ (wt[w].state = "Leased" <=> ws[w].state = "Leased")
    /\ Len(new) = 1 /\ new[1].work = w /\ new[1].lease = ws[w].lease
    /\ new[1].kind \in Kinds /\ new[1].kind \notin Enders \cup Outcomes \cup {"WorkClaimed"}
    /\ IsTerminal(ws[w]) => IsTerminal(wt[w]) /\ new[1].kind \in Ignored

\* A work that has not ended loses its lease, if it has one.
Loses(ws, wt, w, new) ==
    /\ Others(ws, wt, w) /\ ~IsTerminal(ws[w])
    /\ wt[w].lease = None /\ wt[w].state # "Leased"
    /\ Len(new) \in {1, 2}
    /\ \A k \in 1..Len(new) : /\ new[k].work = w /\ new[k].lease = ws[w].lease
                              /\ new[k].kind \in Kinds \ {"WorkClaimed"}
                              /\ new[k].kind \in Outcomes => k = Len(new) /\ IsTerminal(wt[w])
    /\ new[1].kind \in Enders /\ (Len(new) = 2 => new[2].kind \in After)

\* Renewing, scheduling and admitting are steps the invariant allows.
LEMMA NotesOK ==
    ASSUME NEW n \in Nat, NEW ws, LeasesApart(ws, n), NEW wt, NEW w \in Works, NEW new, Notes(ws, wt, w, new)
    PROVE  StepOK(ws, wt, new, n, n)
<1>c. None \notin Nat
  BY WorkQueueAssumption
<1>n. 1..Len(new) = {1} /\ (n + 1)..n = {}
  BY DEF Notes
<1>1. \A v \in Works : wt[v].lease = ws[v].lease /\ (wt[v].state = "Leased" <=> ws[v].state = "Leased")
  BY DEF Notes, Others
<1>2. LeasesApart(wt, n)
  BY <1>1 DEF LeasesApart
<1>3. \A k \in 1..Len(new) : RecordOK(new[k], n)
  BY <1>n DEF Notes, RecordOK, LeasesApart
<1>4. NamesOK(ws, new, n)
  BY <1>n, <1>c DEF NamesOK, Notes, LeasesApart, Held
<1>5. GivesOK(wt, new, n, n) /\ NoSwap(ws, wt, n)
  BY <1>n, <1>1 DEF GivesOK, NoSwap
<1>6. \A v \in Works : KeepsOrEnds(ws, wt, new, v)
  BY <1>n, <1>1 DEF KeepsOrEnds, Ends, Notes
<1>7. OutcomesOK(ws, wt, new)
  BY <1>n DEF OutcomesOK, Notes, Others
<1> QED BY <1>2, <1>3, <1>4, <1>5, <1>6, <1>7 DEF StepOK

\* Releasing, completing, failing and canceling are such steps.
LEMMA LosesOK ==
    ASSUME NEW n \in Nat, NEW ws, LeasesApart(ws, n), NEW wt, NEW w \in Works, NEW new, Loses(ws, wt, w, new)
    PROVE  StepOK(ws, wt, new, n, n)
<1>c. None \notin Nat
  BY WorkQueueAssumption
<1>n. (1..Len(new) = {1} \/ (1..Len(new) = {1, 2} /\ Len(new) = 2)) /\ (n + 1)..n = {} /\ 1 \in 1..Len(new)
  <2>1. Len(new) = 1 \/ Len(new) = 2
    BY DEF Loses
  <2>2. 1..1 = {1} /\ 1..2 = {1, 2} /\ (n + 1)..n = {}
    OBVIOUS
  <2>3. CASE Len(new) = 1
    BY <2>2, <2>3
  <2>4. CASE Len(new) = 2
    BY <2>2, <2>4
  <2> QED BY <2>1, <2>3, <2>4
<1>1. \A v \in Works : v # w => wt[v] = ws[v]
  BY DEF Loses, Others
<1>2. LeasesApart(wt, n)
  BY <1>1 DEF LeasesApart, Loses
<1>3. \A k \in 1..Len(new) : RecordOK(new[k], n)
  BY DEF Loses, RecordOK, LeasesApart
<1>4. NamesOK(ws, new, n)
  BY <1>c DEF NamesOK, Loses, LeasesApart, Held
<1>5. GivesOK(wt, new, n, n) /\ NoSwap(ws, wt, n)
  BY <1>n, <1>1 DEF GivesOK, NoSwap, Loses
<1>6. ASSUME NEW v \in Works, ws[v].lease # None PROVE KeepsOrEnds(ws, wt, new, v)
  <2>1. CASE v = w
    <3>1. Ends(new, 1, ws[w].lease)
      BY <1>n DEF Loses, Ends
    <3>2. \A k \in 1..Len(new) : k >= 1 /\ (k > 1 => new[k].kind \in After)
      BY <1>n DEF Loses
    <3> QED BY <3>1, <3>2, <2>1, <1>6, <1>n DEF KeepsOrEnds, Loses
  <2>2. CASE v # w
    <3>1. wt[v].lease = ws[v].lease /\ ws[v].lease # ws[w].lease
      BY <2>2, <1>1, <1>6 DEF LeasesApart
    <3>2. \A k \in 1..Len(new) : new[k].lease = ws[w].lease
      BY DEF Loses
    <3> QED BY <3>1, <3>2 DEF KeepsOrEnds, Ends
  <2> QED BY <2>1, <2>2
<1>7. OutcomesOK(ws, wt, new)
  <2>1. \A v \in Works : IsTerminal(ws[v]) => v # w /\ IsTerminal(wt[v])
    BY <1>1 DEF Loses
  <2>2. \A k \in 1..Len(new) : new[k].work = w /\ (new[k].kind \in Outcomes => k = Len(new) /\ IsTerminal(wt[w]))
    BY DEF Loses
  <2>3. \A j \in 1..Len(new) : j <= Len(new)
    BY <1>n DEF Loses
  <2> QED BY <2>1, <2>2, <2>3 DEF OutcomesOK
<1> QED BY <1>2, <1>3, <1>4, <1>5, <1>6, <1>7 DEF StepOK

-----------------------------------------------------------------------------
(* What records say. *)

\* A record is about the work as it was before the step.
LEMMA RecordSays ==
    ASSUME NEW kind, NEW w, NEW command, NEW at
    PROVE  /\ Whole(Record(kind, w, command, at))
           /\ Record(kind, w, command, at).kind = kind /\ Record(kind, w, command, at).work = w
           /\ Record(kind, w, command, at).lease = works[w].lease
BY DEF Record, Whole

\* A deadline changes nothing else of a record.
LEMMA DeadlineSays ==
    ASSUME NEW r, Whole(r), NEW x
    PROVE  Whole([r EXCEPT !.deadline = x]) /\ Same([r EXCEPT !.deadline = x], r)
BY DEF Whole, Same

\* A record of a lease command names the lease of the command.
LEMMA LeaseRecordSays ==
    ASSUME NEW kind, NEW c, NEW at
    PROVE  /\ Whole(LeaseRecord(kind, c, at))
           /\ LeaseRecord(kind, c, at).kind = kind /\ LeaseRecord(kind, c, at).work = c.work
           /\ LeaseRecord(kind, c, at).lease = c.lease
<1> DEFINE r == Record(kind, c.work, c.id, at)
           r1 == [r EXCEPT !.lease = c.lease]
           r2 == [r1 EXCEPT !.attempt = c.attempt]
           r3 == [r2 EXCEPT !.worker = c.worker]
<1>1. Whole(r) /\ r.kind = kind /\ r.work = c.work
  BY RecordSays
<1>2. LeaseRecord(kind, c, at) = r3
  BY <1>1 DEF LeaseRecord
<1> HIDE DEF r
<1>3. Whole(r1) /\ r1.kind = kind /\ r1.work = c.work /\ r1.lease = c.lease
  BY <1>1 DEF Whole
<1> HIDE DEF r1
<1>4. Whole(r2) /\ r2.kind = kind /\ r2.work = c.work /\ r2.lease = c.lease
  BY <1>3 DEF Whole
<1> HIDE DEF r2
<1>5. Whole(r3) /\ r3.kind = kind /\ r3.work = c.work /\ r3.lease = c.lease
  BY <1>4 DEF Whole
<1> QED BY <1>2, <1>5

-----------------------------------------------------------------------------
(* Putting a set in order. *)

\* How many elements of S come before x.
Before(S, key, x) == Cardinality({y \in S : key[y] < key[x]})

Ranks(S, key) == \A x \in S : Before(S, key, x) \in Nat /\ Before(S, key, x) < Cardinality(S)

RanksDiffer(S, key) == \A x, y \in S : Before(S, key, x) = Before(S, key, y) => x = y

RanksOnto(S, key) == \A k \in 1..Cardinality(S) : \E x \in S : Before(S, key, x) = k - 1

Orders(key, S) == key \in [S -> Nat] /\ \A x, y \in S : key[x] = key[y] => x = y

\* Elements with different keys have different ranks, and every rank below the size of the set is taken.
LEMMA RanksExact ==
    ASSUME NEW S, IsFiniteSet(S), NEW key, Orders(key, S)
    PROVE  Cardinality(S) \in Nat /\ Ranks(S, key) /\ RanksDiffer(S, key) /\ RanksOnto(S, key)
<1> DEFINE below(x) == {y \in S : key[y] < key[x]}
           N == Cardinality(S)
<1>k. \A x \in S : key[x] \in Nat
  BY DEF Orders
<1>1. N \in Nat
  BY FS_CardinalityType
<1>2. ASSUME NEW x \in S
      PROVE  /\ IsFiniteSet(below(x)) /\ Cardinality(below(x)) \in Nat /\ Cardinality(below(x)) < N
             /\ Cardinality(below(x) \cup {x}) = Cardinality(below(x)) + 1
  <2>1. below(x) \in SUBSET S /\ x \notin below(x) /\ below(x) \cup {x} \in SUBSET S
    BY <1>k
  <2> HIDE DEF below
  <2>2. IsFiniteSet(below(x)) /\ Cardinality(below(x)) \in Nat
    BY <2>1, FS_Subset, FS_CardinalityType
  <2>3. Cardinality(below(x) \cup {x}) = Cardinality(below(x)) + 1
    BY <2>1, <2>2, FS_AddElement
  <2>4. Cardinality(below(x) \cup {x}) <= N
    BY <2>1, FS_Subset
  <2> QED BY <1>1, <2>2, <2>3, <2>4
<1>3. ASSUME NEW x \in S, NEW y \in S, key[x] < key[y]
      PROVE  Cardinality(below(x)) < Cardinality(below(y))
  <2>1. below(x) \cup {x} \in SUBSET below(y)
    BY <1>k, <1>3
  <2>2. IsFiniteSet(below(y)) /\ Cardinality(below(x) \cup {x}) = Cardinality(below(x)) + 1
        /\ Cardinality(below(x)) \in Nat /\ Cardinality(below(y)) \in Nat
    BY <1>2
  <2> HIDE DEF below
  <2>3. Cardinality(below(x) \cup {x}) <= Cardinality(below(y))
    BY <2>1, <2>2, FS_Subset
  <2> QED BY <2>2, <2>3
<1>4. Ranks(S, key)
  BY <1>2 DEF Ranks, Before
<1>5. RanksDiffer(S, key)
  <2> SUFFICES ASSUME NEW x \in S, NEW y \in S, Cardinality(below(x)) = Cardinality(below(y)), x # y PROVE FALSE
    BY DEF RanksDiffer, Before
  <2>1. key[x] # key[y] /\ key[x] \in Nat /\ key[y] \in Nat
    BY DEF Orders
  <2>2. key[x] < key[y] \/ key[y] < key[x]
    BY <2>1
  <2>3. Cardinality(below(x)) < Cardinality(below(y)) \/ Cardinality(below(y)) < Cardinality(below(x))
    BY <2>2, <1>3
  <2>4. Cardinality(below(x)) \in Nat /\ Cardinality(below(y)) \in Nat
    BY <1>2
  <2> HIDE DEF below
  <2> QED BY <2>3, <2>4
<1>6. RanksOnto(S, key)
  <2> DEFINE f == [x \in S |-> Before(S, key, x) + 1]
  <2>1. f \in [S -> 1..N]
    <3>1. \A x \in S : Before(S, key, x) + 1 \in 1..N
      BY <1>1, <1>4 DEF Ranks
    <3> QED BY <3>1
  <2>2. \A x, y \in S : f[x] = f[y] => x = y
    BY <1>4, <1>5 DEF Ranks, RanksDiffer
  <2>3. f \in Injection(S, 1..N)
    <3> HIDE DEF f
    <3> QED BY <2>1, <2>2 DEF Injection, IsInjective
  <2>4. IsFiniteSet(1..N) /\ Cardinality(1..N) = N
    BY <1>1, FS_Interval
  <2>5. f \in Surjection(S, 1..N)
    <3> HIDE DEF f
    <3> QED BY <2>3, <2>4, FS_Injection
  <2>6. \A k \in 1..N : \E x \in S : f[x] = k
    <3> HIDE DEF f
    <3> QED BY <2>5 DEF Surjection
  <2>7. \A k \in 1..N : \E x \in S : Before(S, key, x) = k - 1
    <3> SUFFICES ASSUME NEW k \in 1..N PROVE \E x \in S : Before(S, key, x) = k - 1
      OBVIOUS
    <3>1. PICK x \in S : f[x] = k
      BY <2>6
    <3>2. Before(S, key, x) + 1 = k /\ Before(S, key, x) \in Nat
      BY <3>1, <1>4 DEF Ranks
    <3> QED BY <3>2, <1>1
  <2> QED BY <2>7 DEF RanksOnto
<1> QED BY <1>1, <1>4, <1>5, <1>6

IsOrder(s, S, key) == s = [i \in 1..Cardinality(S) |-> CHOOSE x \in S : Before(S, key, x) = i - 1]

\* s lists the elements of S, each once.
Lists(s, S) ==
    /\ s \in Seq(S)
    /\ \A i, j \in 1..Len(s) : s[i] = s[j] => i = j
    /\ \A x \in S : \E i \in 1..Len(s) : s[i] = x

\* A function on 1..N is a sequence of length N.
LEMMA TableIsSeq == ASSUME NEW S, NEW N \in Nat, NEW s \in [1..N -> S] PROVE s \in Seq(S) /\ Len(s) = N
<1>1. s \in Seq(S)
  BY SeqDef
<1> QED BY <1>1, LenProperties

\* Taking the elements by their rank lists the set.
LEMMA OrderLists ==
    ASSUME NEW S, IsFiniteSet(S), NEW key, Orders(key, S),
           NEW s, IsOrder(s, S, key)
    PROVE  Lists(s, S)
<1>1. Cardinality(S) \in Nat /\ Ranks(S, key) /\ RanksDiffer(S, key) /\ RanksOnto(S, key)
  BY RanksExact
<1>2. ASSUME NEW i \in 1..Cardinality(S) PROVE s[i] \in S /\ Before(S, key, s[i]) = i - 1
  <2>1. \E x \in S : Before(S, key, x) = i - 1
    BY <1>1 DEF RanksOnto
  <2>2. s[i] = CHOOSE x \in S : Before(S, key, x) = i - 1
    BY DEF IsOrder
  <2> QED BY <2>1, <2>2
<1>3. s \in Seq(S) /\ Len(s) = Cardinality(S)
  <2>1. s \in [1..Cardinality(S) -> S]
    BY <1>2 DEF IsOrder
  <2> QED BY <2>1, <1>1, TableIsSeq
<1>4. \A i, j \in 1..Len(s) : s[i] = s[j] => i = j
  <2> SUFFICES ASSUME NEW i \in 1..Len(s), NEW j \in 1..Len(s), s[i] = s[j] PROVE i = j
    OBVIOUS
  <2>1. Before(S, key, s[i]) = i - 1 /\ Before(S, key, s[j]) = j - 1
    BY <1>2, <1>3
  <2>2. i - 1 = j - 1
    BY <2>1
  <2> QED BY <2>2, <1>1, <1>3
<1>5. ASSUME NEW x \in S PROVE \E i \in 1..Len(s) : s[i] = x
  <2> DEFINE i == Before(S, key, x) + 1
  <2>1. i \in 1..Cardinality(S) /\ i - 1 = Before(S, key, x)
    BY <1>1 DEF Ranks
  <2>2. s[i] \in S /\ Before(S, key, s[i]) = Before(S, key, x)
    BY <1>2, <2>1
  <2>3. s[i] = x
    BY <2>2, <1>1 DEF RanksDiffer
  <2> QED BY <2>1, <2>3, <1>3
<1> QED BY <1>3, <1>4, <1>5 DEF Lists

\* InOrder lists a set of works, and so does ByAdmission when they were admitted with different messages.
LEMMA InOrderLists ==
    ASSUME NEW S, S \subseteq Works
    PROVE  Lists(InOrder(S), S)
<1> DEFINE key == [x \in S |-> x]
<1>1. IsFiniteSet(S) /\ S \subseteq Nat
  BY WorkQueueAssumption, FS_Subset
<1>2. Orders(key, S)
  BY <1>1 DEF Orders
<1>3. \A x \in S : {y \in S : key[y] < key[x]} = {y \in S : y < x}
  OBVIOUS
<1>4. InOrder(S) = [i \in 1..Cardinality(S) |-> CHOOSE x \in S : Cardinality({y \in S : y < x}) = i - 1]
  BY DEF InOrder, InOrderOf
<1>5. \A i \in 1..Cardinality(S) : (CHOOSE x \in S : Cardinality({y \in S : y < x}) = i - 1)
                                      = CHOOSE x \in S : Before(S, key, x) = i - 1
  BY <1>3 DEF Before
<1>6. IsOrder(InOrder(S), S, key)
  BY <1>4, <1>5 DEF IsOrder
<1> HIDE DEF key
<1> QED BY <1>1, <1>2, <1>6, OrderLists

\* The same for the order of admission.
LEMMA ByAdmissionLists ==
    ASSUME NEW S, S \subseteq Works, \A x \in S : works[x].seq \in Nat,
           \A x, y \in S : works[x].seq = works[y].seq => x = y
    PROVE  Lists(ByAdmission(S), S)
<1> DEFINE key == [x \in S |-> works[x].seq]
<1>1. IsFiniteSet(S)
  BY WorkQueueAssumption, FS_Subset
<1>2. Orders(key, S)
  BY DEF Orders
<1>3. \A x \in S : {y \in S : key[y] < key[x]} = {y \in S : works[y].seq < works[x].seq}
  OBVIOUS
<1>4. ByAdmission(S) = [i \in 1..Cardinality(S) |-> CHOOSE x \in S : Cardinality({y \in S : works[y].seq < works[x].seq}) = i - 1]
  BY DEF ByAdmission, InOrderOf
<1>5. \A i \in 1..Cardinality(S) : (CHOOSE x \in S : Cardinality({y \in S : works[y].seq < works[x].seq}) = i - 1)
                                      = CHOOSE x \in S : Before(S, key, x) = i - 1
  BY <1>3 DEF Before
<1>6. IsOrder(ByAdmission(S), S, key)
  BY <1>4, <1>5 DEF IsOrder
<1> HIDE DEF key
<1> QED BY <1>1, <1>2, <1>6, OrderLists

-----------------------------------------------------------------------------
(* Steps about several works. *)

\* The works of X, which e lists, lose their leases.
Expires(ws, wt, X, e, new) ==
    /\ X \subseteq Works /\ Lists(e, X) /\ Len(new) = Len(e)
    /\ \A w \in X : ws[w].state = "Leased" /\ wt[w].lease = None /\ wt[w].state = "Ready"
    /\ \A w \in Works : w \notin X => wt[w] = ws[w]
    /\ \A k \in 1..Len(new) : new[k].kind = "LeaseExpired" /\ new[k].work = e[k] /\ new[k].lease = ws[e[k]].lease

\* The works that chosen lists are leased, in this order.
Claims(ws, wt, n, chosen, new) ==
    /\ chosen \in Seq(Works) /\ Len(new) = Len(chosen)
    /\ \A i, j \in 1..Len(chosen) : chosen[i] = chosen[j] => i = j
    /\ \A k \in 1..Len(chosen) : /\ ws[chosen[k]].state # "Leased" /\ ~IsTerminal(ws[chosen[k]])
                                 /\ wt[chosen[k]].lease = n + k /\ wt[chosen[k]].state = "Leased"
    /\ \A w \in Works : (\A k \in 1..Len(chosen) : chosen[k] # w) => wt[w] = ws[w]
    /\ \A k \in 1..Len(new) : new[k].kind = "WorkClaimed" /\ new[k].work = chosen[k] /\ new[k].lease = n + k

\* Ending the leases of several works, one record for each, is a step the invariant allows.
LEMMA ExpiresOK ==
    ASSUME NEW n \in Nat, NEW ws, LeasesApart(ws, n), NEW wt, NEW X, NEW e, NEW new, Expires(ws, wt, X, e, new)
    PROVE  StepOK(ws, wt, new, n, n)
<1>c. None \notin Nat /\ (n + 1)..n = {}
  BY WorkQueueAssumption
<1>n. Len(new) \in Nat /\ Len(e) = Len(new) /\ \A k \in 1..Len(new) : e[k] \in X /\ e[k] \in Works
  BY DEF Expires, Lists
<1>k. \A k \in 1..Len(new) : new[k].kind = "LeaseExpired" /\ new[k].work = e[k] /\ new[k].lease = ws[e[k]].lease
  BY DEF Expires
<1>1. \A w \in Works : w \notin X => wt[w] = ws[w]
  BY DEF Expires
<1>x. \A w \in X : w \in Works /\ ws[w].state = "Leased" /\ wt[w].lease = None /\ wt[w].state = "Ready" /\ ws[w].lease \in 1..n
  BY DEF Expires, LeasesApart
<1>2. LeasesApart(wt, n)
  BY <1>1, <1>x DEF LeasesApart
<1>3. \A k \in 1..Len(new) : RecordOK(new[k], n)
  BY <1>n, <1>k, <1>x DEF RecordOK, Kinds
<1>4. NamesOK(ws, new, n)
  BY <1>c, <1>n, <1>k, <1>x DEF NamesOK, Held
<1>5. GivesOK(wt, new, n, n) /\ NoSwap(ws, wt, n)
  BY <1>c, <1>1, <1>x DEF GivesOK, NoSwap
<1>6. ASSUME NEW w \in Works, ws[w].lease # None PROVE KeepsOrEnds(ws, wt, new, w)
  <2>1. \A k \in 1..Len(new) : new[k].lease = ws[w].lease => e[k] = w
    BY <1>n, <1>k, <1>6 DEF LeasesApart
  <2>2. CASE w \in X
    <3>1. PICK g \in 1..Len(new) : e[g] = w
      BY <2>2, <1>n DEF Expires, Lists
    <3>2. \A k \in 1..Len(new) : e[k] = w => k = g
      BY <3>1, <1>n DEF Expires, Lists
    <3>3. Ends(new, g, ws[w].lease)
      BY <3>1, <1>k DEF Ends, Enders
    <3>4. \A k \in 1..Len(new) : new[k].lease = ws[w].lease => k >= g /\ (k > g => new[k].kind \in After)
      <4> SUFFICES ASSUME NEW k \in 1..Len(new), new[k].lease = ws[w].lease
                   PROVE  k >= g /\ ~(k > g)
        OBVIOUS
      <4>1. k = g
        BY <2>1, <3>2
      <4> QED BY <4>1, <1>n
    <3> QED BY <3>3, <3>4, <2>2, <1>x, <1>c DEF KeepsOrEnds
  <2>3. CASE w \notin X
    <3>1. wt[w].lease = ws[w].lease /\ \A k \in 1..Len(new) : ~Ends(new, k, ws[w].lease)
      BY <2>1, <2>3, <1>1, <1>n DEF Ends
    <3> QED BY <3>1 DEF KeepsOrEnds
  <2> QED BY <2>2, <2>3
<1>7. OutcomesOK(ws, wt, new)
  <2>1. \A w \in Works : IsTerminal(ws[w]) => w \notin X /\ IsTerminal(wt[w])
    BY <1>1, <1>x DEF IsTerminal, Terminal
  <2>2. \A k \in 1..Len(new) : new[k].work \in X /\ new[k].kind \notin Outcomes
    BY <1>k, <1>n DEF Outcomes
  <2> QED BY <2>1, <2>2 DEF OutcomesOK
<1> QED BY <1>2, <1>3, <1>4, <1>5, <1>6, <1>7 DEF StepOK

\* Giving new leases to several works, one record for each, is such a step.
LEMMA ClaimsOK ==
    ASSUME NEW n \in Nat, NEW ws, LeasesApart(ws, n), NEW wt, NEW chosen, NEW new, Claims(ws, wt, n, chosen, new)
    PROVE  StepOK(ws, wt, new, n, n + Len(chosen))
<1> DEFINE m == n + Len(chosen)
<1>n. Len(new) \in Nat /\ Len(chosen) = Len(new) /\ \A k \in 1..Len(new) : chosen[k] \in Works
  BY DEF Claims
<1>c. None \notin Nat /\ m \in Nat /\ n <= m
  BY <1>n, WorkQueueAssumption
<1>k. \A k \in 1..Len(new) : new[k].kind = "WorkClaimed" /\ new[k].work = chosen[k] /\ new[k].lease = n + k
  BY DEF Claims
<1>1. \A w \in Works : (\A k \in 1..Len(new) : chosen[k] # w) => wt[w] = ws[w]
  BY <1>n DEF Claims
<1>x. \A k \in 1..Len(new) : /\ ws[chosen[k]].lease = None /\ ~IsTerminal(ws[chosen[k]])
                             /\ wt[chosen[k]].lease = n + k /\ wt[chosen[k]].state = "Leased"
  BY <1>n DEF Claims, LeasesApart
<1>y. \A k \in 1..Len(new) : n + k \in 1..m /\ n + k > n /\ n + k # None
  BY <1>n, <1>c
<1> HIDE DEF m
<1>2. LeasesApart(wt, m)
  <2>1. ASSUME NEW w \in Works
        PROVE  (wt[w].lease = None \/ wt[w].lease \in 1..m) /\ (wt[w].lease # None <=> wt[w].state = "Leased")
    <3>1. CASE \E k \in 1..Len(new) : chosen[k] = w
      BY <3>1, <1>x, <1>y
    <3>2. CASE \A k \in 1..Len(new) : chosen[k] # w
      BY <3>2, <1>1, <1>c DEF LeasesApart
    <3> QED BY <3>1, <3>2
  <2>2. ASSUME NEW v \in Works, NEW w \in Works, wt[v].lease # None, wt[v].lease = wt[w].lease PROVE v = w
    <3>1. ASSUME NEW u \in Works, NEW k \in 1..Len(new), \A j \in 1..Len(new) : chosen[j] # u
          PROVE  wt[u].lease # n + k
      BY <3>1, <1>1, <1>y DEF LeasesApart
    <3>2. CASE \E i, j \in 1..Len(new) : chosen[i] = v /\ chosen[j] = w
      <4>1. PICK i \in 1..Len(new), j \in 1..Len(new) : chosen[i] = v /\ chosen[j] = w
        BY <3>2
      <4>2. n + i = n + j
        BY <4>1, <2>2, <1>x
      <4>3. i = j
        BY <4>2, <1>n
      <4> QED BY <4>1, <4>3
    <3>3. CASE (\A i \in 1..Len(new) : chosen[i] # v) /\ (\A i \in 1..Len(new) : chosen[i] # w)
      BY <3>3, <2>2, <1>1 DEF LeasesApart
    <3>4. CASE \E i \in 1..Len(new) : chosen[i] = v /\ \A j \in 1..Len(new) : chosen[j] # w
      BY <3>4, <3>1, <2>2, <1>x
    <3>5. CASE \E i \in 1..Len(new) : chosen[i] = w /\ \A j \in 1..Len(new) : chosen[j] # v
      BY <3>5, <3>1, <2>2, <1>x
    <3> QED BY <3>2, <3>3, <3>4, <3>5
  <2> QED BY <2>1, <2>2 DEF LeasesApart
<1>3. \A k \in 1..Len(new) : RecordOK(new[k], m)
  BY <1>n, <1>k, <1>y DEF RecordOK, Kinds
<1>4. NamesOK(ws, new, n)
  BY <1>k, <1>y DEF NamesOK
<1>5. GivesOK(wt, new, n, m)
  <2> SUFFICES ASSUME NEW l \in (n + 1)..m
               PROVE  Held(wt, l) /\ \E g \in 1..Len(new) : new[g].lease = l /\ \A k \in 1..Len(new) : new[k].lease = l => k = g
    BY DEF GivesOK
  <2>1. l - n \in 1..Len(new) /\ n + (l - n) = l
    BY <1>n DEF m
  <2>2. wt[chosen[l - n]].lease = l /\ new[l - n].lease = l /\ chosen[l - n] \in Works
    BY <2>1, <1>n, <1>x, <1>k
  <2>3. \A k \in 1..Len(new) : new[k].lease = l => k = l - n
    BY <2>1, <1>n, <1>k
  <2> QED BY <2>1, <2>2, <2>3 DEF Held
<1>6. NoSwap(ws, wt, n) /\ \A w \in Works : ws[w].lease # None => KeepsOrEnds(ws, wt, new, w)
  <2>1. ASSUME NEW w \in Works PROVE wt[w].lease \in {None, ws[w].lease} \/ wt[w].lease > n
    <3>1. CASE \E k \in 1..Len(new) : chosen[k] = w
      BY <3>1, <1>x, <1>y
    <3>2. CASE \A k \in 1..Len(new) : chosen[k] # w
      BY <3>2, <1>1
    <3> QED BY <3>1, <3>2
  <2>2. ASSUME NEW w \in Works, ws[w].lease # None PROVE KeepsOrEnds(ws, wt, new, w)
    <3>1. \A k \in 1..Len(new) : chosen[k] # w
      BY <2>2, <1>x
    <3>2. wt[w].lease = ws[w].lease
      BY <3>1, <1>1
    <3>3. \A k \in 1..Len(new) : ~Ends(new, k, ws[w].lease)
      BY <1>k DEF Ends, Enders
    <3> QED BY <3>2, <3>3 DEF KeepsOrEnds
  <2> QED BY <2>1, <2>2 DEF NoSwap
<1>7. OutcomesOK(ws, wt, new)
  <2>1. \A w \in Works : IsTerminal(ws[w]) => (\A k \in 1..Len(new) : chosen[k] # w) /\ IsTerminal(wt[w])
    BY <1>1, <1>x
  <2>2. \A k \in 1..Len(new) : new[k].work = chosen[k] /\ new[k].kind \notin Outcomes
    BY <1>k DEF Outcomes
  <2> QED BY <2>1, <2>2 DEF OutcomesOK
<1>8. StepOK(ws, wt, new, n, m)
  BY <1>c, <1>2, <1>3, <1>4, <1>5, <1>6, <1>7 DEF StepOK
<1> QED BY <1>8 DEF m

-----------------------------------------------------------------------------
(* The invariant of the queue. *)

WholeWork(r) == r = [state |-> r.state, seq |-> r.seq, notBefore |-> r.notBefore, retryAt |-> r.retryAt,
                     deadline |-> r.deadline, attempt |-> r.attempt, lease |-> r.lease, worker |-> r.worker,
                     expires |-> r.expires]

WorksWhole(ws) == ws = [w \in Works |-> ws[w]] /\ \A w \in Works : WholeWork(ws[w])

\* Works were admitted with messages that differ.
Admissions(ws, seqs) ==
    /\ seqs \subseteq Nat
    /\ \A w \in Works : ws[w].state # "Unknown" => ws[w].seq \in seqs
    /\ \A v, w \in Works : ws[v].state # "Unknown" /\ ws[w].state # "Unknown" /\ ws[v].seq = ws[w].seq => v = w

WaveOK(rs) == \A i \in DOMAIN rs : rs[i].work \in Works

LogPart == QueueOK(works, records, leaseSeq) /\ WaveOK(wave)

WorkPart == WorksWhole(works) /\ Admissions(works, sources)

QueueInv == LogPart /\ WorkPart

\* Records that fit what happens to the works keep the log right, whether they are emitted or not.
LEMMA LogStep ==
    ASSUME LogPart, NEW S, NEW new \in Seq(S), \A k \in 1..Len(new) : Whole(new[k]),
           StepOK(works, works', new, leaseSeq, leaseSeq'), EmitRecords(new) \/ DropRecords(new)
    PROVE  LogPart'
<1>1. records' = records \o Numbered(new, Len(records))
  BY DEF EmitRecords, DropRecords
<1>2. Appended(records, new, records')
  <2>1. records \in Seq(ToSet(records))
    BY DEF LogPart, QueueOK, LogOK
  <2> QED BY <1>1, <2>1, AppendNumbered
<1>3. QueueOK(works', records', leaseSeq')
  BY <1>2, StepKeeps DEF LogPart
<1>4. WaveOK(wave')
  <2>1. CASE wave' = wave
    BY <2>1 DEF LogPart
  <2>2. CASE wave' = Numbered(new, Len(records))
    <3>1. ASSUME NEW i \in DOMAIN wave' PROVE wave'[i].work \in Works
      <4>1. i \in 1..Len(new) /\ wave'[i] = [new[i] EXCEPT !.seq = Len(records) + i]
        BY <2>2, <3>1 DEF Numbered
      <4>2. Same([new[i] EXCEPT !.seq = Len(records) + i], new[i])
        BY <4>1, SameNumbered
      <4>3. RecordOK(new[i], leaseSeq')
        BY <4>1 DEF StepOK
      <4> QED BY <4>1, <4>2, <4>3 DEF Same, RecordOK
    <3> QED BY <3>1 DEF WaveOK
  <2> QED BY <2>1, <2>2 DEF EmitRecords, DropRecords
<1> QED BY <1>3, <1>4 DEF LogPart

\* A step that appends nothing and changes no work keeps the log right.
LEMMA LogStays ==
    ASSUME LogPart, UNCHANGED <<works, records, leaseSeq, wave>> PROVE LogPart'
BY DEF LogPart, QueueOK, LogOK, LeasesApart, GivenOnce, EndedOnce, LastOutcome, Held, Ends, WaveOK

\* A record that ends nothing keeps the log right.
LEMMA LogNotes ==
    ASSUME LogPart, NEW w \in Works, NEW r, Whole(r), Notes(works, works', w, <<r>>),
           UNCHANGED leaseSeq, EmitRecords(<<r>>)
    PROVE  LogPart'
<1> DEFINE new == <<r>>
<1>1. new \in Seq({r}) /\ \A k \in 1..Len(new) : Whole(new[k])
  OBVIOUS
<1>2. leaseSeq \in Nat /\ LeasesApart(works, leaseSeq) /\ Notes(works, works', w, new) /\ EmitRecords(new)
  BY DEF LogPart, QueueOK
<1> HIDE DEF new
<1>3. StepOK(works, works', new, leaseSeq, leaseSeq)
  BY <1>2, NotesOK
<1>4. StepOK(works, works', new, leaseSeq, leaseSeq')
  BY <1>3
<1> QED BY <1>1, <1>2, <1>4, LogStep

\* Records that end the lease of one work keep the log right.
LEMMA LogLoses ==
    ASSUME LogPart, NEW w \in Works, NEW S, NEW new \in Seq(S), \A k \in 1..Len(new) : Whole(new[k]),
           Loses(works, works', w, new), UNCHANGED leaseSeq, EmitRecords(new)
    PROVE  LogPart'
<1>2. leaseSeq \in Nat /\ LeasesApart(works, leaseSeq)
  BY DEF LogPart, QueueOK
<1>3. StepOK(works, works', new, leaseSeq, leaseSeq)
  BY <1>2, LosesOK
<1>4. StepOK(works, works', new, leaseSeq, leaseSeq')
  BY <1>3
<1> QED BY <1>4, LogStep

\* A work that is set aside for others keeps the message it was admitted with.
LEMMA WorkStep ==
    ASSUME WorkPart, UNCHANGED sources, NEW w \in Works, NEW r, WholeWork(r), works' = [works EXCEPT ![w] = r],
           r.seq = works[w].seq, works[w].state # "Unknown"
    PROVE  WorkPart'
<1>1. works'[w] = r /\ \A v \in Works : v # w => works'[v] = works[v]
  BY DEF WorkPart, WorksWhole
<1>2. WorksWhole(works')
  <2>1. works' = [v \in Works |-> works'[v]]
    BY DEF WorkPart, WorksWhole
  <2> QED BY <2>1, <1>1 DEF WorkPart, WorksWhole
<1>3. Admissions(works', sources')
  BY <1>1 DEF WorkPart, Admissions
<1> QED BY <1>2, <1>3 DEF WorkPart

\* Setting one work leaves the others alone.
LEMMA WorkSet ==
    ASSUME WorkPart, NEW w \in Works, NEW r, works' = [works EXCEPT ![w] = r]
    PROVE  works'[w] = r /\ Others(works, works', w)
BY DEF WorkPart, WorksWhole, Others

\* What the fields of a work become.
LEMMA StateSet ==
    ASSUME NEW r, WholeWork(r), NEW x
    PROVE  /\ WholeWork([r EXCEPT !.state = x]) /\ [r EXCEPT !.state = x].state = x
           /\ [r EXCEPT !.state = x].seq = r.seq /\ [r EXCEPT !.state = x].lease = r.lease
BY DEF WholeWork

\* clear_lease takes the lease and leaves state and message.
LEMMA Cleared ==
    ASSUME NEW r, WholeWork(r)
    PROVE  /\ WholeWork(ClearLease(r)) /\ ClearLease(r).state = r.state
           /\ ClearLease(r).seq = r.seq /\ ClearLease(r).lease = None
<1> DEFINE r1 == [r EXCEPT !.lease = None]
           r2 == [r1 EXCEPT !.worker = None]
           r3 == [r2 EXCEPT !.expires = None]
<1>1. ClearLease(r) = r3
  BY DEF ClearLease
<1>2. WholeWork(r1) /\ r1.state = r.state /\ r1.seq = r.seq /\ r1.lease = None
  BY DEF WholeWork
<1> HIDE DEF r1
<1>3. WholeWork(r2) /\ r2.state = r.state /\ r2.seq = r.seq /\ r2.lease = None
  BY <1>2 DEF WholeWork
<1> HIDE DEF r2
<1>4. WholeWork(r3) /\ r3.state = r.state /\ r3.seq = r.seq /\ r3.lease = None
  BY <1>3 DEF WholeWork
<1> QED BY <1>1, <1>4

-----------------------------------------------------------------------------
(* The actions. *)

\* Admission, of a new work or of a known one.
LEMMA AdmitKeeps ==
    ASSUME QueueInv, NEW m \in Nat, NEW w \in Works, NEW now, NEW notBefore, NEW deadline,
           AdmitMessage(m, w, now, notBefore, deadline)
    PROVE  QueueInv'
<1>0. LogPart /\ WorkPart /\ m \notin sources /\ sources' = sources \cup {m} /\ leaseSeq' = leaseSeq
  BY DEF QueueInv, AdmitMessage
<1>1. CASE works[w].state # "Unknown" /\ EmitRecords(<<Record("AdmissionDeduped", w, None, None)>>) /\ works' = works
  <2> DEFINE r == Record("AdmissionDeduped", w, None, None)
  <2>1. Whole(r) /\ r.kind = "AdmissionDeduped" /\ r.work = w /\ r.lease = works[w].lease
    BY RecordSays
  <2>2. EmitRecords(<<r>>)
    BY <1>1
  <2> HIDE DEF r
  <2>3. Len(<<r>>) = 1 /\ <<r>>[1] = r
    OBVIOUS
  <2>4. Notes(works, works', w, <<r>>)
    BY <1>1, <2>1, <2>3 DEF Notes, Others, Kinds, Enders, Outcomes, Ignored
  <2>5. LogPart'
    BY <1>0, <2>1, <2>2, <2>4, LogNotes
  <2>6. WorkPart'
    BY <1>0, <1>1 DEF WorkPart, Admissions
  <2> QED BY <2>5, <2>6 DEF QueueInv
<1>2. CASE works[w].state = "Unknown" /\ ~(works[w].state # "Unknown")
  <2> DEFINE st == IF notBefore # None /\ notBefore > now THEN "Scheduled" ELSE "Ready"
             q1 == [Absent EXCEPT !.state = st]
             q2 == [q1 EXCEPT !.seq = m]
             q3 == [q2 EXCEPT !.notBefore = notBefore]
             q == [q3 EXCEPT !.deadline = deadline]
             r0 == Record("WorkAdmitted", w, None, notBefore)
             r == [r0 EXCEPT !.deadline = deadline]
  <2>1. works' = [works EXCEPT ![w] = q] /\ EmitRecords(<<r>>)
    BY <1>2 DEF AdmitMessage, Absent
  <2>2. st \in {"Scheduled", "Ready"}
    OBVIOUS
  <2> HIDE DEF st
  <2>3. WholeWork(q) /\ q.state = st /\ q.seq = m /\ q.lease = None
    <3>1. WholeWork(q1) /\ q1.state = st /\ q1.lease = None
      BY DEF Absent, WholeWork
    <3> HIDE DEF q1
    <3>2. WholeWork(q2) /\ q2.state = st /\ q2.lease = None /\ q2.seq = m
      BY <3>1 DEF WholeWork
    <3> HIDE DEF q2
    <3>3. WholeWork(q3) /\ q3.state = st /\ q3.lease = None /\ q3.seq = m
      BY <3>2 DEF WholeWork
    <3> HIDE DEF q3
    <3> QED BY <3>3 DEF WholeWork
  <2>4. Whole(r) /\ r.kind = "WorkAdmitted" /\ r.work = w /\ r.lease = works[w].lease
    <3>1. Whole(r0) /\ r0.kind = "WorkAdmitted" /\ r0.work = w /\ r0.lease = works[w].lease
      BY RecordSays
    <3> HIDE DEF r0
    <3> QED BY <3>1, DeadlineSays DEF Same
  <2> HIDE DEF q, r
  <2>5. works'[w] = q /\ Others(works, works', w)
    BY <1>0, <2>1, WorkSet
  <2>6. works[w].lease = None /\ ~IsTerminal(works[w])
    BY <1>0, <1>2 DEF LogPart, QueueOK, LeasesApart, IsTerminal, Terminal
  <2>7. Len(<<r>>) = 1 /\ <<r>>[1] = r
    OBVIOUS
  <2>8. Notes(works, works', w, <<r>>)
    BY <1>2, <2>2, <2>3, <2>4, <2>5, <2>6, <2>7 DEF Notes, Kinds, Enders, Outcomes
  <2>9. LogPart'
    BY <1>0, <2>1, <2>4, <2>8, LogNotes
  <2>10. WorksWhole(works')
    <3>1. works' = [v \in Works |-> works'[v]]
      BY <1>0, <2>1 DEF WorkPart, WorksWhole
    <3> QED BY <3>1, <1>0, <2>3, <2>5 DEF WorkPart, WorksWhole, Others
  <2>11. Admissions(works', sources')
    <3>1. \A v \in Works : v # w => works'[v] = works[v]
      BY <2>5 DEF Others
    <3>2. sources \subseteq Nat /\ \A v \in Works : works[v].state # "Unknown" => works[v].seq \in sources
      BY <1>0 DEF WorkPart, Admissions
    <3> QED BY <3>1, <3>2, <1>0, <2>3, <2>5 DEF WorkPart, Admissions
  <2> QED BY <2>9, <2>10, <2>11 DEF QueueInv, WorkPart
<1> QED BY <1>1, <1>2 DEF AdmitMessage

\* The leases of X end: the works, and the records.
Freed(X) == [w \in Works |-> IF w \in X THEN ExpiredWork(works[w]) ELSE works[w]]

\* A work whose lease expired is ready and has no lease (materialize_lease_expired).
LEMMA ExpiredSays ==
    ASSUME WorkPart, NEW w \in Works
    PROVE  /\ WholeWork(ExpiredWork(works[w])) /\ ExpiredWork(works[w]).state = "Ready"
           /\ ExpiredWork(works[w]).lease = None /\ ExpiredWork(works[w]).seq = works[w].seq
<1> DEFINE r == [works[w] EXCEPT !.state = "Ready"]
<1>1. WholeWork(r) /\ r.state = "Ready" /\ r.seq = works[w].seq
  BY StateSet DEF WorkPart, WorksWhole
<1>2. ExpiredWork(works[w]) = ClearLease(r)
  BY DEF ExpiredWork
<1> HIDE DEF r
<1> QED BY <1>1, <1>2, Cleared

\* The records of an expiry fit what it does to the works.
LEMMA FreedExpires ==
    ASSUME WorkPart, NEW X, X \subseteq Works, \A w \in X : works[w].state = "Leased", NEW id
    PROVE  /\ Expires(works, Freed(X), X, InOrder(X), ExpiryRecords(X, id))
           /\ ExpiryRecords(X, id) \in Seq(ToSet(ExpiryRecords(X, id)))
           /\ \A k \in 1..Len(ExpiryRecords(X, id)) : Whole(ExpiryRecords(X, id)[k])
<1> DEFINE e == InOrder(X)
           new == ExpiryRecords(X, id)
<1>1. Lists(e, X)
  BY InOrderLists
<1>2. new = [i \in DOMAIN e |-> Record("LeaseExpired", e[i], id, works[e[i]].expires)]
  BY DEF ExpiryRecords
<1>3. DOMAIN e = 1..Len(e) /\ Len(e) \in Nat
  BY <1>1 DEF Lists
<1> HIDE DEF e, new
<1>4. new \in [1..Len(e) -> ToSet(new)]
  BY <1>2, <1>3 DEF ToSet
<1>5. new \in Seq(ToSet(new)) /\ Len(new) = Len(e)
  BY <1>3, <1>4, TableIsSeq
<1>6. ASSUME NEW k \in 1..Len(new)
      PROVE  Whole(new[k]) /\ new[k].kind = "LeaseExpired" /\ new[k].work = e[k] /\ new[k].lease = works[e[k]].lease
  <2>1. new[k] = Record("LeaseExpired", e[k], id, works[e[k]].expires)
    BY <1>2, <1>3, <1>5
  <2> QED BY <2>1, RecordSays
<1>7. /\ \A w \in X : Freed(X)[w].lease = None /\ Freed(X)[w].state = "Ready"
      /\ \A w \in Works : w \notin X => Freed(X)[w] = works[w]
  BY ExpiredSays DEF Freed
<1>8. Expires(works, Freed(X), X, e, new)
  BY <1>1, <1>5, <1>6, <1>7 DEF Expires
<1> QED BY <1>5, <1>6, <1>8 DEF e, new

\* An expiry leaves the messages of admission alone.
LEMMA FreedWorks ==
    ASSUME WorkPart, NEW X, X \subseteq Works, \A w \in X : works[w].state = "Leased"
    PROVE  WorksWhole(Freed(X)) /\ Admissions(Freed(X), sources)
<1>1. \A w \in Works : WholeWork(Freed(X)[w]) /\ Freed(X)[w].seq = works[w].seq
  BY ExpiredSays DEF Freed, WorkPart, WorksWhole
<1>2. \A w \in Works : Freed(X)[w].state # "Unknown" => works[w].state # "Unknown"
  BY DEF Freed
<1>3. Freed(X) = [w \in Works |-> Freed(X)[w]]
  BY DEF Freed
<1> QED BY <1>1, <1>2, <1>3 DEF WorkPart, WorksWhole, Admissions

\* Expired leases end, and their records are emitted or, when a claim then fails, only kept.
LEMMA ExpiryKeeps ==
    ASSUME QueueInv, NEW X, X \subseteq Works, \A w \in X : works[w].state = "Leased", NEW id,
           works' = Freed(X), EmitRecords(ExpiryRecords(X, id)) \/ DropRecords(ExpiryRecords(X, id)),
           UNCHANGED <<leaseSeq, sources>>
    PROVE  QueueInv'
<1> DEFINE new == ExpiryRecords(X, id)
<1>1. /\ Expires(works, works', X, InOrder(X), new)
      /\ new \in Seq(ToSet(new)) /\ \A k \in 1..Len(new) : Whole(new[k])
  BY FreedExpires DEF QueueInv
<1>2. leaseSeq \in Nat /\ LeasesApart(works, leaseSeq) /\ LogPart /\ WorkPart
  BY DEF QueueInv, LogPart, QueueOK
<1>3. EmitRecords(new) \/ DropRecords(new)
  OBVIOUS
<1> HIDE DEF new
<1>4. StepOK(works, works', new, leaseSeq, leaseSeq)
  BY <1>1, <1>2, ExpiresOK
<1>5. StepOK(works, works', new, leaseSeq, leaseSeq')
  BY <1>4
<1>6. LogPart'
  BY <1>1, <1>2, <1>3, <1>5, LogStep
<1>7. WorkPart'
  BY <1>2, FreedWorks DEF WorkPart
<1> QED BY <1>6, <1>7 DEF QueueInv

\* A refused or failed command that does nothing.
LEMMA QueueStays ==
    ASSUME QueueInv, UNCHANGED <<works, leaseSeq, sources>>, Silent PROVE QueueInv'
<1>1. LogPart'
  BY LogStays DEF QueueInv, Silent
<1>2. WorkPart'
  BY DEF QueueInv, WorkPart, WorksWhole, Admissions
<1> QED BY <1>1, <1>2 DEF QueueInv

\* A lease command that is refused, the lease it names possibly having expired (current_lease).
LEMMA RefusedKeeps ==
    ASSUME QueueInv, NEW c, c.work \in Works, Refused(c), UNCHANGED sources
    PROVE  QueueInv'
<1>1. CASE /\ Holds(c) /\ works' = [works EXCEPT ![c.work] = ExpiredWork(@)]
           /\ EmitRecords(ExpiryRecords({c.work}, c.id))
  <2> DEFINE X == {c.work}
  <2>1. X \subseteq Works /\ \A w \in X : works[w].state = "Leased"
    BY <1>1 DEF Holds
  <2>2. works' = Freed(X)
    BY <1>1 DEF QueueInv, WorkPart, WorksWhole, Freed
  <2>3. EmitRecords(ExpiryRecords(X, c.id)) /\ UNCHANGED <<leaseSeq, sources>>
    BY <1>1 DEF Refused
  <2> HIDE DEF X
  <2> QED BY <2>1, <2>2, <2>3, ExpiryKeeps
<1>2. CASE UNCHANGED works /\ Silent
  BY <1>2, QueueStays DEF Refused
<1> QED BY <1>1, <1>2 DEF Refused

\* The records of a step that takes the lease of work w, which becomes q.
Fits(w, q, new) ==
    /\ Len(new) \in {1, 2}
    /\ \A k \in 1..Len(new) : /\ Whole(new[k]) /\ new[k].work = w /\ new[k].lease = works[w].lease
                              /\ new[k].kind \in Kinds \ {"WorkClaimed"}
                              /\ new[k].kind \in Outcomes => k = Len(new) /\ IsTerminal(q)
    /\ new[1].kind \in Enders /\ (Len(new) = 2 => new[2].kind \in After)

\* Any step that ends the lease of one work.
LEMMA LosesKeeps ==
    ASSUME QueueInv, NEW w \in Works, works[w].state \notin Terminal \cup {"Unknown"},
           NEW q, WholeWork(q), q.seq = works[w].seq, q.lease = None, q.state # "Leased",
           works' = [works EXCEPT ![w] = q], UNCHANGED <<leaseSeq, sources>>,
           NEW S, NEW new \in Seq(S), Fits(w, q, new), EmitRecords(new)
    PROVE  QueueInv'
<1>0. LogPart /\ WorkPart
  BY DEF QueueInv
<1>1. works'[w] = q /\ Others(works, works', w)
  BY <1>0, WorkSet
<1>2. Loses(works, works', w, new) /\ \A k \in 1..Len(new) : Whole(new[k])
  BY <1>1 DEF Loses, Fits, IsTerminal
<1>3. LogPart'
  BY <1>0, <1>2, LogLoses
<1>4. WorkPart'
  BY <1>0, WorkStep
<1> QED BY <1>3, <1>4 DEF QueueInv

\* The records of one or two parts.
LEMMA FitsOne ==
    ASSUME NEW w, NEW q, NEW r, Whole(r), r.work = w, r.lease = works[w].lease, r.kind \in Enders,
           r.kind = "WorkCanceled" => IsTerminal(q)
    PROVE  <<r>> \in Seq({r}) /\ Fits(w, q, <<r>>)
<1>1. Len(<<r>>) = 1 /\ <<r>>[1] = r /\ 1..1 = {1} /\ <<r>> \in Seq({r})
  OBVIOUS
<1>2. r.kind \in Kinds \ {"WorkClaimed"} /\ (r.kind \in Outcomes => r.kind = "WorkCanceled")
  BY DEF Enders, Outcomes, Kinds
<1>3. \A k \in 1..Len(<<r>>) : k = 1
  BY <1>1
<1> QED BY <1>1, <1>2, <1>3 DEF Fits

\* Two records: the attempt ends, and what follows for the work.
LEMMA FitsTwo ==
    ASSUME NEW w, NEW q, NEW r, Whole(r), r.work = w, r.lease = works[w].lease,
           r.kind \in {"AttemptCompleted", "AttemptFailed"},
           NEW t, Whole(t), t.work = w, t.lease = works[w].lease,
           t.kind \in {"WorkCompleted", "WorkDeadLettered", "RetryScheduled"},
           t.kind \in Outcomes => IsTerminal(q)
    PROVE  <<r, t>> \in Seq({r, t}) /\ Fits(w, q, <<r, t>>)
<1>1. Len(<<r, t>>) = 2 /\ <<r, t>>[1] = r /\ <<r, t>>[2] = t /\ 1..2 = {1, 2} /\ <<r, t>> \in Seq({r, t})
  OBVIOUS
<1>2. /\ r.kind \in Kinds \ {"WorkClaimed"} /\ r.kind \notin Outcomes /\ r.kind \in Enders
      /\ t.kind \in Kinds \ {"WorkClaimed"} /\ t.kind \in After
  BY DEF Enders, Outcomes, Kinds, After
<1>3. \A k \in 1..Len(<<r, t>>) : k = 1 \/ k = 2
  BY <1>1
<1> QED BY <1>1, <1>2, <1>3 DEF Fits

\* A work that got a new state and lost its lease.
LEMMA EndedWork ==
    ASSUME QueueInv, NEW w \in Works, NEW x
    PROVE  LET q == ClearLease([works[w] EXCEPT !.state = x])
           IN  WholeWork(q) /\ q.seq = works[w].seq /\ q.lease = None /\ q.state = x
<1> DEFINE r == [works[w] EXCEPT !.state = x]
<1>1. WholeWork(r) /\ r.state = x /\ r.seq = works[w].seq
  BY StateSet DEF QueueInv, WorkPart, WorksWhole
<1> HIDE DEF r
<1>2. WholeWork(ClearLease(r)) /\ ClearLease(r).seq = works[w].seq /\ ClearLease(r).lease = None /\ ClearLease(r).state = x
  BY <1>1, Cleared
<1> QED BY <1>2 DEF r

\* release_work.
LEMMA ReleaseKeeps ==
    ASSUME QueueInv, NEW c, c.work \in Works, ReleaseWork(c) PROVE QueueInv'
<1>s. UNCHANGED sources
  BY DEF ReleaseWork, Reduces
<1>1. CASE Refused(c)
  BY <1>1, <1>s, RefusedKeeps
<1>2. CASE ~Refused(c)
  <2> DEFINE w == c.work
             q == ClearLease([works[w] EXCEPT !.state = "Ready"])
             r == LeaseRecord("WorkReleased", c, None)
  <2>1. works[w].state = "Leased" /\ works[w].lease = c.lease
    BY <1>2 DEF ReleaseWork, Current, Holds
  <2>2. works' = [works EXCEPT ![w] = q] /\ EmitRecords(<<r>>) /\ UNCHANGED leaseSeq
    BY <1>2 DEF ReleaseWork
  <2>3. WholeWork(q) /\ q.seq = works[w].seq /\ q.lease = None /\ q.state = "Ready"
    BY EndedWork
  <2>4. Whole(r) /\ r.work = w /\ r.lease = works[w].lease /\ r.kind = "WorkReleased"
    BY <2>1, LeaseRecordSays
  <2> HIDE DEF q, r, w
  <2>5. w \in Works
    BY DEF w
  <2>6. <<r>> \in Seq({r}) /\ Fits(w, q, <<r>>)
    BY <2>4, FitsOne DEF Enders
  <2>7. works[w].state \notin Terminal \cup {"Unknown"} /\ q.state # "Leased"
    BY <2>1, <2>3 DEF Terminal
  <2> QED BY <1>s, <2>2, <2>3, <2>5, <2>6, <2>7, LosesKeeps
<1> QED BY <1>1, <1>2

\* complete_work.
LEMMA CompleteKeeps ==
    ASSUME QueueInv, NEW c, c.work \in Works, CompleteWork(c) PROVE QueueInv'
<1>s. UNCHANGED sources
  BY DEF CompleteWork, Reduces
<1>1. CASE Refused(c)
  BY <1>1, <1>s, RefusedKeeps
<1>2. CASE ~Refused(c)
  <2> DEFINE w == c.work
             q == ClearLease([works[w] EXCEPT !.state = "Completed"])
             r == LeaseRecord("AttemptCompleted", c, None)
             t == LeaseRecord("WorkCompleted", c, None)
  <2>1. works[w].state = "Leased" /\ works[w].lease = c.lease
    BY <1>2 DEF CompleteWork, Current, Holds
  <2>2. works' = [works EXCEPT ![w] = q] /\ EmitRecords(<<r, t>>) /\ UNCHANGED leaseSeq
    BY <1>2 DEF CompleteWork
  <2>3. WholeWork(q) /\ q.seq = works[w].seq /\ q.lease = None /\ q.state = "Completed"
    BY EndedWork
  <2>4. Whole(r) /\ r.work = w /\ r.lease = works[w].lease /\ r.kind = "AttemptCompleted"
    BY <2>1, LeaseRecordSays
  <2>5. Whole(t) /\ t.work = w /\ t.lease = works[w].lease /\ t.kind = "WorkCompleted"
    BY <2>1, LeaseRecordSays
  <2> HIDE DEF q, r, t, w
  <2>6. w \in Works
    BY DEF w
  <2>7. IsTerminal(q)
    BY <2>3 DEF IsTerminal, Terminal
  <2>8. <<r, t>> \in Seq({r, t}) /\ Fits(w, q, <<r, t>>)
    BY <2>4, <2>5, <2>7, FitsTwo
  <2>9. works[w].state \notin Terminal \cup {"Unknown"} /\ q.state # "Leased"
    BY <2>1, <2>3 DEF Terminal
  <2> QED BY <1>s, <2>2, <2>3, <2>6, <2>8, <2>9, LosesKeeps
<1> QED BY <1>1, <1>2

\* fail_work: retried, or dead-lettered, or too late to compute the retry.
LEMMA FailKeeps ==
    ASSUME QueueInv, NEW c, c.work \in Works, NEW retryable, FailWork(c, retryable) PROVE QueueInv'
<1> DEFINE w == c.work
           again == retryable # FALSE /\ ShouldRetry(works[c.work].attempt)
           delay == Backoff[works[c.work].attempt + 1]
           r == LeaseRecord("AttemptFailed", c, None)
<1>s. UNCHANGED sources
  BY DEF FailWork, Reduces
<1>1. CASE Refused(c)
  BY <1>1, <1>s, RefusedKeeps
<1>2. CASE UNCHANGED <<works, leaseSeq, deadLetters>> /\ Silent
  BY <1>2, <1>s, QueueStays
<1>r. Whole(r) /\ r.work = w /\ r.lease = c.lease /\ r.kind = "AttemptFailed"
  BY LeaseRecordSays
<1>3. CASE /\ Current(c) /\ again /\ ~Overflows(c.now, delay)
           /\ works' = [works EXCEPT ![c.work] = ClearLease([@ EXCEPT
                  !.state = IF delay > 0 THEN "RetryWait" ELSE "Ready", !.retryAt = c.now + delay])]
           /\ EmitRecords(<<r, Record("RetryScheduled", c.work, c.id, c.now + delay)>>)
           /\ UNCHANGED <<leaseSeq, deadLetters>>
  <2> DEFINE st == IF delay > 0 THEN "RetryWait" ELSE "Ready"
             at == c.now + delay
             q1 == [works[w] EXCEPT !.state = st]
             q2 == [q1 EXCEPT !.retryAt = at]
             q == ClearLease(q2)
             t == Record("RetryScheduled", c.work, c.id, at)
  <2>1. works[w].state = "Leased" /\ works[w].lease = c.lease /\ WholeWork(works[w])
    BY <1>3 DEF Current, Holds, QueueInv, WorkPart, WorksWhole
  <2>2. works' = [works EXCEPT ![w] = q] /\ EmitRecords(<<r, t>>) /\ UNCHANGED leaseSeq
    BY <1>3 DEF QueueInv, WorkPart, WorksWhole
  <2>3. st \in {"RetryWait", "Ready"}
    OBVIOUS
  <2>4. Whole(t) /\ t.work = w /\ t.lease = works[w].lease /\ t.kind = "RetryScheduled"
    BY RecordSays
  <2> HIDE DEF st, at, t, r, w
  <2>5. WholeWork(q) /\ q.seq = works[w].seq /\ q.lease = None /\ q.state = st
    <3>1. WholeWork(q1) /\ q1.seq = works[w].seq /\ q1.state = st
      BY <2>1, StateSet
    <3> HIDE DEF q1
    <3>2. WholeWork(q2) /\ q2.seq = works[w].seq /\ q2.state = st
      BY <3>1 DEF WholeWork
    <3> HIDE DEF q2
    <3> QED BY <3>2, Cleared
  <2> HIDE DEF q
  <2>6. w \in Works
    BY DEF w
  <2>7. t.kind \notin Outcomes
    BY <2>4 DEF Outcomes
  <2>8. <<r, t>> \in Seq({r, t}) /\ Fits(w, q, <<r, t>>)
    BY <1>r, <2>1, <2>4, <2>7, FitsTwo
  <2>9. works[w].state \notin Terminal \cup {"Unknown"} /\ q.state # "Leased"
    BY <2>1, <2>3, <2>5 DEF Terminal
  <2> QED BY <1>s, <2>2, <2>5, <2>6, <2>8, <2>9, LosesKeeps
<1>4. CASE /\ Current(c) /\ ~again
           /\ works' = [works EXCEPT ![c.work] = ClearLease([@ EXCEPT !.state = "DeadLettered"])]
           /\ EmitRecords(<<r, Record("WorkDeadLettered", c.work, c.id, None)>>)
           /\ UNCHANGED leaseSeq
  <2> DEFINE q == ClearLease([works[w] EXCEPT !.state = "DeadLettered"])
             t == Record("WorkDeadLettered", c.work, c.id, None)
  <2>1. works[w].state = "Leased" /\ works[w].lease = c.lease
    BY <1>4 DEF Current, Holds
  <2>2. works' = [works EXCEPT ![w] = q] /\ EmitRecords(<<r, t>>) /\ UNCHANGED leaseSeq
    BY <1>4
  <2>3. WholeWork(q) /\ q.seq = works[w].seq /\ q.lease = None /\ q.state = "DeadLettered"
    BY EndedWork
  <2>4. Whole(t) /\ t.work = w /\ t.lease = works[w].lease /\ t.kind = "WorkDeadLettered"
    BY RecordSays
  <2> HIDE DEF q, r, t, w
  <2>6. w \in Works
    BY DEF w
  <2>7. IsTerminal(q)
    BY <2>3 DEF IsTerminal, Terminal
  <2>8. <<r, t>> \in Seq({r, t}) /\ Fits(w, q, <<r, t>>)
    BY <1>r, <2>1, <2>4, <2>7, FitsTwo
  <2>9. works[w].state \notin Terminal \cup {"Unknown"} /\ q.state # "Leased"
    BY <2>1, <2>3 DEF Terminal
  <2> QED BY <1>s, <2>2, <2>3, <2>6, <2>8, <2>9, LosesKeeps
<1> QED BY <1>1, <1>2, <1>3, <1>4 DEF FailWork

\* cancel_work, of a leased work or of one that waits.
LEMMA CancelKeeps ==
    ASSUME QueueInv, NEW id, NEW key, NEW w \in Works, CancelWork(id, key, w) PROVE QueueInv'
<1>s. UNCHANGED <<sources, leaseSeq>>
  BY DEF CancelWork, Reduces
<1>1. CASE UNCHANGED works /\ Silent
  BY <1>1, <1>s, QueueStays
<1>2. CASE /\ works[w].state \notin Terminal \cup {"Unknown"}
           /\ works' = [works EXCEPT ![w] = ClearLease([@ EXCEPT !.state = "Canceled"])]
           /\ EmitRecords(<<Record("WorkCanceled", w, id, None)>>)
  <2> DEFINE q == ClearLease([works[w] EXCEPT !.state = "Canceled"])
             r == Record("WorkCanceled", w, id, None)
  <2>2. works' = [works EXCEPT ![w] = q] /\ EmitRecords(<<r>>)
    BY <1>2
  <2>3. WholeWork(q) /\ q.seq = works[w].seq /\ q.lease = None /\ q.state = "Canceled"
    BY EndedWork
  <2>4. Whole(r) /\ r.work = w /\ r.lease = works[w].lease /\ r.kind = "WorkCanceled"
    BY RecordSays
  <2> HIDE DEF q, r
  <2>5. IsTerminal(q) /\ q.state # "Leased" /\ r.kind \in Enders
    BY <2>3, <2>4 DEF IsTerminal, Terminal, Enders
  <2>6. <<r>> \in Seq({r}) /\ Fits(w, q, <<r>>)
    BY <2>4, <2>5, FitsOne
  <2> QED BY <1>s, <1>2, <2>2, <2>3, <2>5, <2>6, LosesKeeps
<1> QED BY <1>1, <1>2 DEF CancelWork

\* A step that notes something about a work and leaves it its lease.
LEMMA NotesKeeps ==
    ASSUME QueueInv, NEW w \in Works, works[w].state \notin Terminal \cup {"Unknown"},
           NEW q, WholeWork(q), q.seq = works[w].seq, q.lease = works[w].lease,
           q.state = "Leased" <=> works[w].state = "Leased",
           works' = [works EXCEPT ![w] = q], UNCHANGED <<leaseSeq, sources>>,
           NEW r, Whole(r), r.work = w, r.lease = works[w].lease, r.kind \in {"LeaseRenewed", "WorkScheduled"},
           EmitRecords(<<r>>)
    PROVE  QueueInv'
<1>0. LogPart /\ WorkPart
  BY DEF QueueInv
<1>1. works'[w] = q /\ Others(works, works', w)
  BY <1>0, WorkSet
<1>2. Len(<<r>>) = 1 /\ <<r>>[1] = r
  OBVIOUS
<1>3. r.kind \in Kinds /\ r.kind \notin Enders \cup Outcomes \cup {"WorkClaimed"} /\ ~IsTerminal(works[w])
  BY DEF Kinds, Enders, Outcomes, IsTerminal
<1>4. Notes(works, works', w, <<r>>)
  BY <1>1, <1>2, <1>3 DEF Notes
<1>5. LogPart'
  BY <1>0, <1>4, LogNotes
<1>6. WorkPart'
  BY <1>0, WorkStep
<1> QED BY <1>5, <1>6 DEF QueueInv

\* schedule_work.
LEMMA ScheduleKeeps ==
    ASSUME QueueInv, NEW id, NEW key, NEW w \in Works, NEW notBefore, NEW deadline,
           ScheduleWork(id, key, w, notBefore, deadline)
    PROVE  QueueInv'
<1>s. UNCHANGED <<sources, leaseSeq>>
  BY DEF ScheduleWork, Reduces
<1>1. CASE UNCHANGED works /\ Silent
  BY <1>1, <1>s, QueueStays
<1>2. CASE /\ works[w].state \notin Terminal \cup {"Unknown", "Leased"}
           /\ works' = [works EXCEPT ![w] = [@ EXCEPT !.state = "Scheduled", !.notBefore = notBefore, !.deadline = deadline]]
           /\ EmitRecords(<<[Record("WorkScheduled", w, id, notBefore) EXCEPT !.deadline = deadline]>>)
  <2> DEFINE q1 == [works[w] EXCEPT !.state = "Scheduled"]
             q2 == [q1 EXCEPT !.notBefore = notBefore]
             q == [q2 EXCEPT !.deadline = deadline]
             r0 == Record("WorkScheduled", w, id, notBefore)
             r == [r0 EXCEPT !.deadline = deadline]
  <2>w. WholeWork(works[w])
    BY DEF QueueInv, WorkPart, WorksWhole
  <2>2. works' = [works EXCEPT ![w] = q] /\ EmitRecords(<<r>>)
    BY <1>2, <2>w DEF QueueInv, WorkPart, WorksWhole
  <2>3. WholeWork(q) /\ q.seq = works[w].seq /\ q.lease = works[w].lease /\ q.state = "Scheduled"
    <3>1. WholeWork(q1) /\ q1.seq = works[w].seq /\ q1.lease = works[w].lease /\ q1.state = "Scheduled"
      BY <2>w, StateSet
    <3> HIDE DEF q1
    <3>2. WholeWork(q2) /\ q2.seq = works[w].seq /\ q2.lease = works[w].lease /\ q2.state = "Scheduled"
      BY <3>1 DEF WholeWork
    <3> HIDE DEF q2
    <3> QED BY <3>2 DEF WholeWork
  <2>4. Whole(r) /\ r.kind = "WorkScheduled" /\ r.work = w /\ r.lease = works[w].lease
    <3>1. Whole(r0) /\ r0.kind = "WorkScheduled" /\ r0.work = w /\ r0.lease = works[w].lease
      BY RecordSays
    <3> HIDE DEF r0
    <3> QED BY <3>1, DeadlineSays DEF Same
  <2> HIDE DEF q, r
  <2>5. works[w].state \notin Terminal \cup {"Unknown"} /\ (q.state = "Leased" <=> works[w].state = "Leased")
    BY <1>2, <2>3
  <2> QED BY <1>s, <2>2, <2>3, <2>4, <2>5, NotesKeeps
<1> QED BY <1>1, <1>2 DEF ScheduleWork

\* renew_lease.
LEMMA RenewKeeps ==
    ASSUME QueueInv, NEW c, c.work \in Works, NEW expiresAt, NEW duration, RenewLease(c, expiresAt, duration)
    PROVE  QueueInv'
<1> DEFINE w == c.work
           next == IF expiresAt # None THEN expiresAt ELSE c.now + duration
<1>s. UNCHANGED sources
  BY DEF RenewLease, Reduces
<1>1. CASE Refused(c)
  BY <1>1, <1>s, RefusedKeeps
<1>2. CASE UNCHANGED <<works, leaseSeq, deadLetters>> /\ Silent
  BY <1>2, <1>s, QueueStays
<1>3. CASE /\ Current(c)
           /\ works' = [works EXCEPT ![c.work].expires = next]
           /\ EmitRecords(<<LeaseRecord("LeaseRenewed", c, next)>>)
           /\ UNCHANGED <<leaseSeq, deadLetters>>
  <2> HIDE DEF next
  <2> DEFINE q == [works[w] EXCEPT !.expires = next]
             r == LeaseRecord("LeaseRenewed", c, next)
  <2>1. works[w].state = "Leased" /\ works[w].lease = c.lease /\ WholeWork(works[w])
    BY <1>3 DEF Current, Holds, QueueInv, WorkPart, WorksWhole
  <2>2. works' = [works EXCEPT ![w] = q] /\ EmitRecords(<<r>>)
    BY <1>3
  <2>3. WholeWork(q) /\ q.seq = works[w].seq /\ q.lease = works[w].lease /\ q.state = "Leased"
    BY <2>1 DEF WholeWork
  <2>4. Whole(r) /\ r.kind = "LeaseRenewed" /\ r.work = w /\ r.lease = works[w].lease
    BY <2>1, LeaseRecordSays
  <2> HIDE DEF q, r, w
  <2>5. works[w].state \notin Terminal \cup {"Unknown"} /\ (q.state = "Leased" <=> works[w].state = "Leased") /\ w \in Works
    BY <2>1, <2>3 DEF Terminal, w
  <2> QED BY <1>s, <1>3, <2>2, <2>3, <2>4, <2>5, NotesKeeps
<1> QED BY <1>1, <1>2, <1>3 DEF RenewLease

\* Take returns the first elements.
LEMMA TakeFacts ==
    ASSUME NEW S, NEW s \in Seq(S), NEW limit \in Nat
    PROVE  /\ Take(s, limit) \in Seq(S) /\ Len(Take(s, limit)) <= Len(s)
           /\ \A i \in 1..Len(Take(s, limit)) : Take(s, limit)[i] = s[i]
<1> DEFINE h == IF Len(s) < limit THEN Len(s) ELSE limit
<1>1. h \in 0..Len(s) /\ Take(s, limit) = SubSeq(s, 1, h)
  BY DEF Take
<1> HIDE DEF h
<1> QED BY <1>1

\* expire_leases, for users and for the readiness pipeline.
LEMMA ExpireKeeps ==
    ASSUME QueueInv, NEW id, NEW key, NEW requested, requested \subseteq Works, NEW limit \in Nat, NEW now,
           ExpireLeases(id, key, requested, limit, now)
    PROVE  QueueInv'
<1> DEFINE scope == IF requested = {} THEN Works ELSE requested
           due == {w \in scope : IsExpired(works[w], now)}
           X == ToSet(Take(InOrder(due), limit))
<1>1. due \subseteq Works /\ \A w \in due : works[w].state = "Leased"
  BY DEF IsExpired
<1>2. works' = Freed(X) /\ EmitRecords(ExpiryRecords(X, id)) /\ UNCHANGED <<leaseSeq, sources>>
  BY DEF ExpireLeases, Freed, Reduces
<1>3. X \subseteq due
  <2> HIDE DEF due
  <2>1. InOrder(due) \in Seq(due)
    BY <1>1, InOrderLists DEF Lists
  <2>2. Take(InOrder(due), limit) \in Seq(due)
    BY <2>1, TakeFacts
  <2> QED BY <2>2 DEF ToSet
<1> HIDE DEF X, due
<1>4. X \subseteq Works /\ \A w \in X : works[w].state = "Leased"
  BY <1>1, <1>3
<1> QED BY <1>2, <1>4, ExpiryKeeps

\* Records appended together are appended one part after the other.
LEMMA AppendTwice ==
    ASSUME NEW rs, rs \in Seq(ToSet(rs)), NEW first,
           NEW S, NEW a \in Seq(S), \A k \in 1..Len(a) : Whole(a[k]),
           NEW T, NEW b \in Seq(T), \A k \in 1..Len(b) : Whole(b[k])
    PROVE  Appended(rs \o Numbered(a, first), b, rs \o Numbered(a \o b, first))
<1> DEFINE both == a \o b
           mid == rs \o Numbered(a, first)
           rt == rs \o Numbered(both, first)
           h == Len(rs)
<1>1. /\ both \in Seq(S \cup T) /\ Len(both) = Len(a) + Len(b) /\ Len(a) \in Nat /\ Len(b) \in Nat
      /\ \A k \in 1..Len(a) : both[k] = a[k]
      /\ \A k \in 1..Len(b) : both[Len(a) + k] = b[k]
  <2>1. a \in Seq(S \cup T) /\ b \in Seq(S \cup T)
    OBVIOUS
  <2> QED BY <2>1
<1>2. \A k \in 1..Len(both) : Whole(both[k])
  <2> SUFFICES ASSUME NEW k \in 1..Len(both) PROVE Whole(both[k])
    OBVIOUS
  <2> HIDE DEF both
  <2>1. CASE k \in 1..Len(a)
    BY <2>1, <1>1
  <2>2. CASE k \notin 1..Len(a)
    <3>1. k - Len(a) \in 1..Len(b) /\ k = Len(a) + (k - Len(a))
      BY <2>2, <1>1
    <3> QED BY <3>1, <1>1
  <2> QED BY <2>1, <2>2
<1> HIDE DEF both
<1>3. Appended(rs, both, rt)
  BY <1>1, <1>2, AppendNumbered
<1>4. Appended(rs, a, mid)
  BY AppendNumbered
<1>5. h \in Nat /\ Len(mid) = h + Len(a) /\ Len(rt) = Len(mid) + Len(b)
  BY <1>1, <1>3, <1>4 DEF Appended
<1>6. ASSUME NEW i \in 1..Len(mid) PROVE rt[i] = mid[i]
  <2>1. CASE i \in 1..h
    BY <2>1, <1>3, <1>4 DEF Appended
  <2>2. CASE i \notin 1..h
    <3> DEFINE k == i - h
    <3>1. k \in 1..Len(a) /\ k \in 1..Len(both) /\ i = h + k
      BY <2>2, <1>1, <1>5
    <3> HIDE DEF k
    <3>2. /\ Numbered(a, first) = [j \in 1..Len(a) |-> [a[j] EXCEPT !.seq = first + j]]
          /\ Numbered(both, first) = [j \in 1..Len(both) |-> [both[j] EXCEPT !.seq = first + j]]
      BY <1>1 DEF Numbered
    <3>3. Numbered(a, first)[k] = Numbered(both, first)[k]
      <4>1. Numbered(a, first)[k] = [a[k] EXCEPT !.seq = first + k]
        BY <3>1, <3>2
      <4>2. Numbered(both, first)[k] = [both[k] EXCEPT !.seq = first + k]
        BY <3>1, <3>2
      <4>3. both[k] = a[k]
        BY <3>1, <1>1
      <4> QED BY <4>1, <4>2, <4>3
    <3>4. Numbered(a, first) \in Seq(ToSet(Numbered(a, first))) /\ Len(Numbered(a, first)) = Len(a)
      <4>1. Numbered(a, first) \in [1..Len(a) -> ToSet(Numbered(a, first))]
        BY <3>2 DEF ToSet
      <4> QED BY <4>1, <1>1, TableIsSeq
    <3>5. Numbered(both, first) \in Seq(ToSet(Numbered(both, first))) /\ Len(Numbered(both, first)) = Len(both)
      <4>1. Numbered(both, first) \in [1..Len(both) -> ToSet(Numbered(both, first))]
        BY <3>2 DEF ToSet
      <4>2. Len(both) \in Nat
        BY <1>1
      <4> QED BY <4>1, <4>2, TableIsSeq
    <3>6. mid[h + k] = Numbered(a, first)[k]
      BY <3>1, <3>4, ConcatProperties
    <3>7. rt[h + k] = Numbered(both, first)[k]
      BY <3>1, <3>5, ConcatProperties
    <3> QED BY <3>1, <3>3, <3>6, <3>7
  <2> QED BY <2>1, <2>2
<1>7. ASSUME NEW k \in 1..Len(b) PROVE Same(rt[Len(mid) + k], b[k])
  <2>1. Len(a) + k \in 1..Len(both) /\ Len(mid) + k = h + (Len(a) + k)
    BY <1>1, <1>5
  <2>2. Same(rt[h + (Len(a) + k)], both[Len(a) + k])
    BY <2>1, <1>3 DEF Appended
  <2> QED BY <2>1, <2>2, <1>1
<1>8. rt \in Seq(ToSet(rt))
  BY <1>3 DEF Appended
<1> HIDE DEF mid, rt
<1>9. Appended(mid, b, rt)
  BY <1>1, <1>5, <1>6, <1>7, <1>8 DEF Appended
<1> QED BY <1>9 DEF mid, rt, both

\* The work after a claim, and the record of the claim.
Leased(f, worker, lease, expires) ==
    [f EXCEPT !.state = "Leased", !.attempt = @ + 1, !.worker = worker, !.lease = lease, !.expires = expires]

\* A claimed work has the new lease.
LEMMA LeasedSays ==
    ASSUME NEW f, WholeWork(f), NEW worker, NEW lease, NEW expires
    PROVE  LET q == Leased(f, worker, lease, expires)
           IN  WholeWork(q) /\ q.state = "Leased" /\ q.lease = lease /\ q.seq = f.seq
<1> DEFINE tries == f.attempt + 1
           q1 == [f EXCEPT !.state = "Leased"]
           q2 == [q1 EXCEPT !.attempt = tries]
           q3 == [q2 EXCEPT !.worker = worker]
           q4 == [q3 EXCEPT !.lease = lease]
           q == [q4 EXCEPT !.expires = expires]
<1>1. Leased(f, worker, lease, expires) = q
  BY DEF Leased, WholeWork
<1> HIDE DEF tries
<1>2. WholeWork(q1) /\ q1.state = "Leased" /\ q1.seq = f.seq
  BY StateSet
<1> HIDE DEF q1
<1>3. WholeWork(q2) /\ q2.state = "Leased" /\ q2.seq = f.seq
  BY <1>2 DEF WholeWork
<1> HIDE DEF q2
<1>4. WholeWork(q3) /\ q3.state = "Leased" /\ q3.seq = f.seq
  BY <1>3 DEF WholeWork
<1> HIDE DEF q3
<1>5. WholeWork(q4) /\ q4.state = "Leased" /\ q4.seq = f.seq /\ q4.lease = lease
  BY <1>4 DEF WholeWork
<1> HIDE DEF q4
<1>6. WholeWork(q) /\ q.state = "Leased" /\ q.seq = f.seq /\ q.lease = lease
  BY <1>5 DEF WholeWork
<1> HIDE DEF q
<1> QED BY <1>1, <1>6

Claimed(w, id, at, lease, attempt, worker) ==
    [Record("WorkClaimed", w, id, at) EXCEPT !.lease = lease, !.attempt = attempt, !.worker = worker]

\* The record of a claim names the new lease.
LEMMA ClaimedSays ==
    ASSUME NEW w, NEW id, NEW at, NEW lease, NEW attempt, NEW worker
    PROVE  LET r == Claimed(w, id, at, lease, attempt, worker)
           IN  Whole(r) /\ r.kind = "WorkClaimed" /\ r.work = w /\ r.lease = lease
<1> DEFINE r0 == Record("WorkClaimed", w, id, at)
           r1 == [r0 EXCEPT !.lease = lease]
           r2 == [r1 EXCEPT !.attempt = attempt]
           r == [r2 EXCEPT !.worker = worker]
<1>1. Claimed(w, id, at, lease, attempt, worker) = r
  BY RecordSays DEF Claimed
<1>2. Whole(r0) /\ r0.kind = "WorkClaimed" /\ r0.work = w
  BY RecordSays
<1> HIDE DEF r0
<1>3. Whole(r1) /\ r1.kind = "WorkClaimed" /\ r1.work = w /\ r1.lease = lease
  BY <1>2 DEF Whole
<1> HIDE DEF r1
<1>4. Whole(r2) /\ r2.kind = "WorkClaimed" /\ r2.work = w /\ r2.lease = lease
  BY <1>3 DEF Whole
<1> HIDE DEF r2
<1>5. Whole(r) /\ r.kind = "WorkClaimed" /\ r.work = w /\ r.lease = lease
  BY <1>4 DEF Whole
<1> HIDE DEF r
<1> QED BY <1>1, <1>5

\* claim_work: expired leases end, then works are leased, in one step; the log is taken through the state between.
LEMMA ClaimKeeps ==
    ASSUME QueueInv, NEW id, NEW key, NEW worker, NEW requested, requested \subseteq Works, NEW limit \in Nat,
           NEW duration, NEW now, ClaimWork(id, key, worker, requested, limit, duration, now)
    PROVE  QueueInv'
<1> DEFINE scope == IF requested = {} THEN Works ELSE requested
           X == {w \in scope : IsExpired(works[w], now)}
           freed == Freed(X)
           able == {w \in scope : IsReady(freed[w], now)}
           chosen == Take(ByAdmission(able), limit)
           expires == now + duration
           leased == [w \in Works |-> IF w \in ToSet(chosen)
                                      THEN Leased(freed[w], worker, leaseSeq + Index(chosen, w), expires)
                                      ELSE freed[w]]
           claim(i) == Claimed(chosen[i], id, expires, leaseSeq + i, leased[chosen[i]].attempt, worker)
           a == ExpiryRecords(X, id)
           b == [i \in DOMAIN chosen |-> claim(i)]
<1>0. LogPart /\ WorkPart /\ leaseSeq \in Nat /\ LeasesApart(works, leaseSeq) /\ QueueOK(works, records, leaseSeq)
  BY DEF QueueInv, LogPart, QueueOK
<1>s. UNCHANGED sources /\ scope \subseteq Works
  BY DEF ClaimWork, Reduces
<1>1. X \subseteq Works /\ \A w \in X : works[w].state = "Leased"
  BY <1>s DEF IsExpired
<1>2. \/ works' = freed /\ (EmitRecords(a) \/ DropRecords(a)) /\ UNCHANGED leaseSeq
      \/ works' = leased /\ leaseSeq' = leaseSeq + Len(chosen) /\ EmitRecords(a \o b)
  BY DEF ClaimWork, Freed, Leased, Claimed
<1>3. CASE works' = freed /\ (EmitRecords(a) \/ DropRecords(a)) /\ UNCHANGED leaseSeq
  <2> HIDE DEF X
  <2> QED BY <1>1, <1>3, <1>s, ExpiryKeeps
<1>4. CASE works' = leased /\ leaseSeq' = leaseSeq + Len(chosen) /\ EmitRecords(a \o b)
  <2>f. \A w \in Works : /\ w \in X => freed[w].state = "Ready"
                         /\ w \notin X => freed[w] = works[w]
    BY <1>0, <1>1, ExpiredSays DEF Freed
  <2>1. able \subseteq Works /\ \A w \in able : freed[w].state \in {"Ready", "Scheduled", "RetryWait"}
    BY <1>s DEF IsReady
  <2> HIDE DEF X, scope
  <2>w. WorksWhole(freed) /\ Admissions(freed, sources)
    BY <1>0, <1>1, FreedWorks
  <2>2. /\ Expires(works, freed, X, InOrder(X), a)
        /\ a \in Seq(ToSet(a)) /\ \A k \in 1..Len(a) : Whole(a[k])
    BY <1>0, <1>1, FreedExpires
  <2> HIDE DEF a, able
  <2>3. Lists(ByAdmission(able), able)
    <3>1. \A x \in able : x \in Works /\ works[x].state # "Unknown"
      BY <2>1, <2>f, <1>1
    <3>2. /\ able \subseteq Works /\ \A x \in able : works[x].seq \in Nat
          /\ \A x, y \in able : works[x].seq = works[y].seq => x = y
      BY <3>1, <1>0 DEF WorkPart, Admissions
    <3> QED BY <3>2, ByAdmissionLists
  <2>4. /\ chosen \in Seq(able) /\ chosen \in Seq(Works) /\ Len(chosen) \in Nat /\ DOMAIN chosen = 1..Len(chosen)
        /\ \A i, j \in 1..Len(chosen) : chosen[i] = chosen[j] => i = j
    <3> DEFINE all == ByAdmission(able)
    <3>1. all \in Seq(able) /\ \A i, j \in 1..Len(all) : all[i] = all[j] => i = j
      BY <2>3 DEF Lists
    <3> HIDE DEF all
    <3>2. chosen = Take(all, limit)
      BY DEF all
    <3> HIDE DEF chosen
    <3>3. chosen \in Seq(able) /\ Len(chosen) <= Len(all) /\ \A i \in 1..Len(chosen) : chosen[i] = all[i]
      BY <3>1, <3>2, TakeFacts
    <3>4. chosen \in Seq(Works)
      BY <3>3, <2>1
    <3>5. Len(chosen) \in Nat /\ DOMAIN chosen = 1..Len(chosen) /\ \A i \in 1..Len(chosen) : i \in 1..Len(all)
      BY <3>1, <3>3
    <3> QED BY <3>1, <3>3, <3>4, <3>5
  <2> HIDE DEF chosen
  <2>5. \A k \in 1..Len(chosen) : chosen[k] \in able /\ chosen[k] \in Works /\ chosen[k] \in ToSet(chosen)
    BY <2>4 DEF ToSet
  <2>6. ASSUME NEW k \in 1..Len(chosen) PROVE Index(chosen, chosen[k]) = k
    BY <2>4 DEF Index
  <2> HIDE DEF freed
  <2>7. ASSUME NEW k \in 1..Len(chosen)
        PROVE  leased[chosen[k]].lease = leaseSeq + k /\ leased[chosen[k]].state = "Leased"
    <3> DEFINE w == chosen[k]
               l == leaseSeq + Index(chosen, w)
    <3>1. w \in Works /\ w \in ToSet(chosen) /\ l = leaseSeq + k
      BY <2>5, <2>6
    <3> HIDE DEF l
    <3>2. leased[w] = Leased(freed[w], worker, l, expires)
      BY <3>1 DEF l
    <3>3. WholeWork(freed[w])
      BY <3>1, <2>w DEF WorksWhole
    <3> HIDE DEF w, leased, expires
    <3>4. leased[w].lease = l /\ leased[w].state = "Leased"
      BY <3>2, <3>3, LeasedSays
    <3> QED BY <3>1, <3>4 DEF w
  <2>8. ASSUME NEW w \in Works PROVE WholeWork(leased[w]) /\ leased[w].seq = freed[w].seq
    <3>1. WholeWork(freed[w])
      BY <2>w DEF WorksWhole
    <3>2. CASE w \in ToSet(chosen)
      <4> DEFINE l == leaseSeq + Index(chosen, w)
      <4> HIDE DEF l
      <4>1. leased[w] = Leased(freed[w], worker, l, expires)
        BY <3>2 DEF l
      <4> HIDE DEF leased, expires
      <4> QED BY <4>1, <3>1, LeasedSays
    <3>3. CASE w \notin ToSet(chosen)
      BY <3>1, <3>3
    <3> QED BY <3>2, <3>3
  <2>9. \A w \in Works : w \notin ToSet(chosen) => leased[w] = freed[w]
    OBVIOUS
  <2>10. leased = [w \in Works |-> leased[w]]
    OBVIOUS
  <2> HIDE DEF leased, expires
  <2>11. \A w \in Works : (\A k \in 1..Len(chosen) : chosen[k] # w) => w \notin ToSet(chosen)
    BY <2>4 DEF ToSet
  <2>12. b \in Seq(ToSet(b)) /\ Len(b) = Len(chosen)
    <3>1. b \in [1..Len(chosen) -> ToSet(b)]
      BY <2>4 DEF ToSet
    <3> HIDE DEF b
    <3> QED BY <3>1, <2>4, TableIsSeq
  <2>13. ASSUME NEW k \in 1..Len(chosen)
         PROVE  Whole(b[k]) /\ b[k].kind = "WorkClaimed" /\ b[k].work = chosen[k] /\ b[k].lease = leaseSeq + k
    <3>1. b[k] = claim(k)
      BY <2>4
    <3> HIDE DEF b
    <3> QED BY <3>1, ClaimedSays
  <2> HIDE DEF b
  <2>14. Claims(freed, leased, leaseSeq, chosen, b)
    <3>1. \A k \in 1..Len(chosen) : freed[chosen[k]].state # "Leased" /\ ~IsTerminal(freed[chosen[k]])
      BY <2>1, <2>5 DEF IsTerminal, Terminal
    <3> QED BY <3>1, <2>4, <2>7, <2>9, <2>11, <2>12, <2>13 DEF Claims
  <2> DEFINE mid == records \o Numbered(a, Len(records))
  <2>15. records \in Seq(ToSet(records))
    BY <1>0 DEF QueueOK, LogOK
  <2>16. QueueOK(freed, mid, leaseSeq)
    <3>1. StepOK(works, freed, a, leaseSeq, leaseSeq)
      BY <1>0, <2>2, ExpiresOK
    <3>2. Appended(records, a, mid)
      BY <2>2, <2>15, AppendNumbered
    <3> HIDE DEF mid
    <3> QED BY <3>1, <3>2, <1>0, StepKeeps
  <2>17. Appended(mid, b, records')
    <3>1. records' = records \o Numbered(a \o b, Len(records))
      BY <1>4 DEF EmitRecords
    <3>2. \A k \in 1..Len(b) : Whole(b[k])
      BY <2>12, <2>13
    <3>3. Appended(mid, b, records \o Numbered(a \o b, Len(records)))
      BY <3>2, <2>2, <2>12, <2>15, AppendTwice
    <3> QED BY <3>1, <3>3
  <2> HIDE DEF mid
  <2>18. StepOK(freed, leased, b, leaseSeq, leaseSeq + Len(chosen))
    <3>1. LeasesApart(freed, leaseSeq)
      BY <2>16 DEF QueueOK
    <3> QED BY <3>1, <1>0, <2>14, ClaimsOK
  <2>19. QueueOK(works', records', leaseSeq')
    <3>1. QueueOK(leased, records', leaseSeq + Len(chosen))
      BY <2>16, <2>17, <2>18, StepKeeps
    <3> QED BY <3>1, <1>4
  <2>20. WaveOK(wave')
    <3> DEFINE both == a \o b
    <3>1. wave' = Numbered(both, Len(records))
      BY <1>4 DEF EmitRecords
    <3>2. /\ Len(both) = Len(a) + Len(b) /\ Len(a) \in Nat /\ Len(b) \in Nat /\ DOMAIN both = 1..Len(both)
          /\ \A k \in 1..Len(a) : both[k] = a[k]
          /\ \A k \in 1..Len(b) : both[Len(a) + k] = b[k]
      <4>1. a \in Seq(ToSet(a) \cup ToSet(b)) /\ b \in Seq(ToSet(a) \cup ToSet(b))
        BY <2>2, <2>12
      <4> QED BY <4>1
    <3> HIDE DEF both
    <3>3. \A k \in 1..Len(a) : Whole(a[k]) /\ a[k].work \in Works
      BY <2>2 DEF Expires, Lists
    <3>4. \A k \in 1..Len(b) : Whole(b[k]) /\ b[k].work \in Works
      BY <2>5, <2>12, <2>13
    <3>5. ASSUME NEW i \in 1..Len(both) PROVE Whole(both[i]) /\ both[i].work \in Works
      <4>1. CASE i \in 1..Len(a)
        BY <4>1, <3>2, <3>3
      <4>2. CASE i \notin 1..Len(a)
        <5>1. i - Len(a) \in 1..Len(b) /\ i = Len(a) + (i - Len(a))
          BY <4>2, <3>2
        <5> QED BY <5>1, <3>2, <3>4
      <4> QED BY <4>1, <4>2
    <3>6. ASSUME NEW i \in DOMAIN wave' PROVE wave'[i].work \in Works
      <4>1. i \in 1..Len(both) /\ wave'[i] = [both[i] EXCEPT !.seq = Len(records) + i]
        BY <3>1, <3>2, <3>6 DEF Numbered
      <4>2. Whole(both[i]) /\ both[i].work \in Works
        BY <4>1, <3>5
      <4>3. Same([both[i] EXCEPT !.seq = Len(records) + i], both[i])
        BY <4>2, SameNumbered
      <4> QED BY <4>1, <4>2, <4>3 DEF Same
    <3> QED BY <3>6 DEF WaveOK
  <2>21. WorksWhole(works') /\ Admissions(works', sources')
    <3>1. \A w \in Works : leased[w].state # "Unknown" => freed[w].state # "Unknown"
      <4> SUFFICES ASSUME NEW w \in Works, leased[w].state # "Unknown" PROVE freed[w].state # "Unknown"
        OBVIOUS
      <4>1. CASE \E k \in 1..Len(chosen) : chosen[k] = w
        BY <4>1, <2>1, <2>5
      <4>2. CASE \A k \in 1..Len(chosen) : chosen[k] # w
        BY <4>2, <2>9, <2>11
      <4> QED BY <4>1, <4>2
    <3>2. WorksWhole(leased)
      BY <2>8, <2>10 DEF WorksWhole
    <3>3. Admissions(leased, sources)
      BY <3>1, <2>8, <2>w DEF Admissions
    <3> QED BY <3>2, <3>3, <1>4, <1>s
  <2> QED BY <2>19, <2>20, <2>21 DEF QueueInv, LogPart, WorkPart
<1> QED BY <1>2, <1>3, <1>4

-----------------------------------------------------------------------------
(* The pipeline asks only about works of the queue. *)

ReadyOK ==
    /\ \A s \in schedules : s.work \in Works
    /\ \A f \in ready \cup announced : f.schedule.work \in Works

\* Schedules, facts and candidates come from records, so they are about works of the queue.
LEMMA ReactKeeps ==
    ASSUME ReadyOK, NEW rs, WaveOK(rs), NEW now, React(rs, now) PROVE ReadyOK'
<1> DEFINE all == Retained(Translated(rs))
           fresh == {[schedule |-> s, now |-> now] : s \in NewlyReady(all, now)}
<1>1. schedules' = all /\ ready' = ready \cup fresh
  BY DEF React
<1>2. \A f \in announced' : f \in announced \/ f \in ready'
  BY DEF React
<1>3. \A s \in Translated(rs) : s.work \in Works
  BY DEF Translated, ReadinessSchedule, WaveOK
<1>4. \A s \in all : s.work \in Works
  BY <1>3 DEF Retained, ReadyOK
<1> HIDE DEF all
<1>5. \A f \in fresh : f.schedule.work \in Works
  BY <1>4 DEF NewlyReady
<1> QED BY <1>1, <1>2, <1>4, <1>5 DEF ReadyOK

Inv == QueueInv /\ ReadyOK

\* The invariant holds at the start.
LEMMA InitInv == Init => Inv
<1> SUFFICES ASSUME Init PROVE Inv
  OBVIOUS
<1>1. works = [w \in Works |-> Absent] /\ records = <<>> /\ wave = <<>> /\ leaseSeq = 0 /\ sources = {}
  BY DEF Init, QueueInit
<1>2. \A w \in Works : works[w].state = "Unknown" /\ works[w].lease = None /\ WholeWork(works[w])
  BY <1>1 DEF Absent, WholeWork
<1>3. Len(records) = 0 /\ records \in Seq(ToSet(records)) /\ DOMAIN wave = {} /\ 1..0 = {}
  BY <1>1
<1>4. QueueOK(works, records, leaseSeq)
  BY <1>1, <1>2, <1>3 DEF QueueOK, LogOK, LeasesApart
<1>5. WorkPart
  BY <1>1, <1>2 DEF WorkPart, WorksWhole, Admissions
<1>6. ReadyOK
  BY DEF Init, ReadyOK
<1> QED BY <1>3, <1>4, <1>5, <1>6 DEF Inv, QueueInv, LogPart, WaveOK

\* Admissions and commands of users keep the invariant.
LEMMA UserKeeps == ASSUME QueueInv, User PROVE QueueInv'
<1>1. CASE Admitting
  <2>1. PICK m \in 1..MaxMessages, now \in Times, s \in Submits : AdmitMessage(m, s.work, now, s.notBefore, s.deadline)
    BY <1>1 DEF Admitting
  <2>2. m \in Nat /\ s.work \in Works
    BY WorkQueueAssumption
  <2> QED BY <2>1, <2>2, AdmitKeeps
<1>2. CASE Claiming
  <2>1. PICK id \in NextId, key \in Keys \cup {None}, worker \in Workers, requested \in Requests,
             limit \in 1..2, duration \in Durations, now \in Times :
             ClaimWork(id, key, worker, requested, limit, duration, now)
    BY <1>2 DEF Claiming
  <2>2. requested \subseteq Works /\ limit \in Nat
    BY WorkQueueAssumption
  <2> QED BY <2>1, <2>2, ClaimKeeps
<1>3. CASE Working
  <2>1. PICK c \in LeaseCommand :
             \/ \E expiresAt \in Times \cup {None}, duration \in Durations : RenewLease(c, expiresAt, duration)
             \/ ReleaseWork(c)
             \/ CompleteWork(c)
             \/ \E retryable \in {None, FALSE} : FailWork(c, retryable)
    BY <1>3 DEF Working
  <2>2. c.work \in Works
    BY DEF LeaseCommand
  <2> QED BY <2>1, <2>2, RenewKeeps, ReleaseKeeps, CompleteKeeps, FailKeeps
<1>4. CASE Scheduling
  BY <1>4, ScheduleKeeps DEF Scheduling
<1>5. CASE Ending
  <2>1. PICK id \in NextId, key \in Keys \cup {None} :
             \/ \E w \in Works : CancelWork(id, key, w)
             \/ \E requested \in Requests, limit \in 1..2, now \in Times : ExpireLeases(id, key, requested, limit, now)
    BY <1>5 DEF Ending
  <2>2. CASE \E w \in Works : CancelWork(id, key, w)
    BY <2>2, CancelKeeps
  <2>3. CASE \E requested \in Requests, limit \in 1..2, now \in Times : ExpireLeases(id, key, requested, limit, now)
    <3>1. PICK requested \in Requests, limit \in 1..2, now \in Times : ExpireLeases(id, key, requested, limit, now)
      BY <2>3
    <3>2. requested \subseteq Works /\ limit \in Nat
      BY WorkQueueAssumption
    <3> QED BY <3>1, <3>2, ExpireKeeps
  <2> QED BY <2>1, <2>2, <2>3
<1> QED BY <1>1, <1>2, <1>3, <1>4, <1>5 DEF User

\* Every step keeps the invariant.
LEMMA NextInv == Inv /\ [Next]_vars => Inv'
<1> SUFFICES ASSUME Inv, [Next]_vars PROVE Inv'
  OBVIOUS
<1>0. QueueInv /\ ReadyOK /\ LogPart /\ WaveOK(wave)
  BY DEF Inv, QueueInv, LogPart
<1>1. CASE User /\ UNCHANGED readinessVars
  <2>1. QueueInv'
    BY <1>0, <1>1, UserKeeps
  <2>2. ReadyOK'
    BY <1>0, <1>1 DEF readinessVars, ReadyOK
  <2> QED BY <2>1, <2>2 DEF Inv
<1>2. CASE Deliver
  <2>1. React(wave, clock) /\ wave' = <<>> /\ UNCHANGED <<works, records, leaseSeq, sources>>
    BY <1>2 DEF Deliver
  <2>2. ReadyOK'
    BY <1>0, <2>1, ReactKeeps
  <2>3. QueueOK(works', records', leaseSeq')
    BY <1>0, <2>1 DEF LogPart
  <2>4. WaveOK(wave')
    BY <2>1 DEF WaveOK
  <2>5. WorkPart'
    BY <1>0, <2>1 DEF QueueInv, WorkPart
  <2> QED BY <2>2, <2>3, <2>4, <2>5 DEF Inv, QueueInv, LogPart
<1>3. CASE Expiring
  <2>1. PICK f \in announced : ExpireCandidate(f)
    BY <1>3 DEF Expiring
  <2> DEFINE id == <<"readiness", f.schedule.id>>
             asked == {f.schedule.work}
  <2>2. ExpireLeases(id, id, asked, 1, f.now) /\ UNCHANGED readinessVars
    BY <2>1 DEF ExpireCandidate
  <2>3. asked \subseteq Works
    BY <1>0 DEF ReadyOK
  <2> HIDE DEF id, asked
  <2>4. QueueInv'
    BY <1>0, <2>2, <2>3, ExpireKeeps
  <2>5. ReadyOK'
    BY <1>0, <2>2 DEF readinessVars, ReadyOK
  <2> QED BY <2>4, <2>5 DEF Inv
<1>4. CASE \E t \in Times : RetainClock(t)
  <2>1. PICK t \in Times : RetainClock(t)
    BY <1>4
  <2> DEFINE now == IF clock # None /\ t < clock THEN clock ELSE t
  <2>2. React(<<>>, now) /\ UNCHANGED queueVars
    BY <2>1 DEF RetainClock
  <2> HIDE DEF now
  <2>3. WaveOK(<<>>)
    BY DEF WaveOK
  <2>4. ReadyOK'
    BY <1>0, <2>2, <2>3, ReactKeeps
  <2>5. QueueInv'
    BY <1>0, <2>2, QueueStays DEF queueVars, Silent
  <2> QED BY <2>4, <2>5 DEF Inv
<1>5. CASE UNCHANGED vars
  <2>1. UNCHANGED queueVars /\ UNCHANGED readinessVars
    BY <1>5 DEF vars
  <2>2. QueueInv'
    BY <1>0, <2>1, QueueStays DEF queueVars, Silent
  <2>3. ReadyOK'
    BY <1>0, <2>1 DEF readinessVars, ReadyOK
  <2> QED BY <2>2, <2>3 DEF Inv
<1> QED BY <1>1, <1>2, <1>3, <1>4, <1>5 DEF Next

\* The invariant says what LeasesEndOnce says, with positions instead of sets of positions.
LEMMA InvImplies == Inv => LeasesEndOnce
<1> SUFFICES ASSUME Inv PROVE LeasesEndOnce
  OBVIOUS
<1>0. QueueOK(works, records, leaseSeq) /\ DOMAIN records = 1..Len(records)
  BY DEF Inv, QueueInv, LogPart, QueueOK, LogOK
<1>1. ASSUME NEW l \in 1..leaseSeq
      PROVE  LET about == {i \in DOMAIN records : records[i].lease = l}
                 given == {i \in about : records[i].kind = "WorkClaimed"}
                 ended == {i \in about : records[i].kind \in Enders}
             IN  /\ Cardinality(given) = 1 /\ Cardinality(ended) <= 1
                 /\ \A i \in about, g \in given : i >= g
                 /\ (ended = {}) <=> \E w \in Works : works[w].lease = l
                 /\ \A i \in about, e \in ended : i > e => records[i].kind \in After
  <2> DEFINE about == {i \in DOMAIN records : records[i].lease = l}
             given == {i \in about : records[i].kind = "WorkClaimed"}
             ended == {i \in about : records[i].kind \in Enders}
  <2>1. PICK g \in 1..Len(records) :
            /\ records[g].lease = l /\ records[g].kind = "WorkClaimed"
            /\ \A i \in 1..Len(records) : records[i].lease = l => i >= g /\ (records[i].kind = "WorkClaimed" => i = g)
    BY <1>0 DEF QueueOK, GivenOnce
  <2>2. given = {g}
    BY <2>1, <1>0
  <2>3. \A i \in about : i >= g
    BY <2>1, <1>0
  <2>4. \A i : i \in ended <=> i \in 1..Len(records) /\ Ends(records, i, l)
    BY <1>0 DEF Ends
  <2>5. EndedOnce(works, records, l)
    BY <1>0 DEF QueueOK
  <2>6. CASE Held(works, l) /\ \A i \in 1..Len(records) : ~Ends(records, i, l)
    <3>1. ended = {}
      BY <2>4, <2>6
    <3> HIDE DEF ended, given
    <3>2. Cardinality(given) = 1 /\ Cardinality(ended) = 0
      BY <2>2, <3>1, FS_Singleton, FS_EmptySet
    <3> QED BY <2>2, <2>3, <2>6, <3>1, <3>2 DEF Held, given, ended
  <2>7. CASE ~Held(works, l) /\ \E e \in 1..Len(records) :
                /\ Ends(records, e, l)
                /\ \A i \in 1..Len(records) : /\ Ends(records, i, l) => i = e
                                              /\ records[i].lease = l /\ i > e => records[i].kind \in After
    <3>1. PICK e \in 1..Len(records) :
                /\ Ends(records, e, l)
                /\ \A i \in 1..Len(records) : /\ Ends(records, i, l) => i = e
                                              /\ records[i].lease = l /\ i > e => records[i].kind \in After
      BY <2>7
    <3>2. ended = {e}
      BY <2>4, <3>1
    <3>3. \A i \in about : i > e => records[i].kind \in After
      BY <3>1, <1>0
    <3> HIDE DEF ended, given
    <3>4. Cardinality(given) = 1 /\ Cardinality(ended) = 1
      BY <2>2, <3>2, FS_Singleton
    <3>5. /\ \A i \in about, h \in given : i >= h
          /\ \A i \in about, h \in ended : i > h => records[i].kind \in After
          /\ ended # {} /\ ~\E w \in Works : works[w].lease = l
      BY <2>2, <2>3, <2>7, <3>2, <3>3 DEF Held
    <3> QED BY <3>4, <3>5 DEF given, ended
  <2> QED BY <2>5, <2>6, <2>7 DEF EndedOnce
<1>2. ASSUME NEW i \in DOMAIN records, records[i].kind \in Outcomes, NEW j \in RecordsOf(records[i].work)
      PROVE  j <= i
  BY <1>0, <1>2 DEF QueueOK, LastOutcome, RecordsOf
<1> QED BY <1>1, <1>2 DEF LeasesEndOnce, After, Outcomes

\* The inductive invariant: works, log and leases agree, and the pipeline asks about works of the queue only.
THEOREM QueueInvariant == Spec => []Inv
<1>1. Init => Inv
  BY InitInv
<1>2. Inv /\ [Next]_vars => Inv'
  BY NextInv
<1> QED BY <1>1, <1>2, PTL DEF Spec

\* A lease is given once and ends at most once, and a work has one outcome, whatever workers, users and the
\* readiness pipeline do with it (current_lease, materialize_lease_expired, is_terminal in work_queue.rs).
THEOREM LeasesAlwaysEndOnce == Spec => []LeasesEndOnce
<1>1. Inv => LeasesEndOnce
  BY InvImplies
<1> QED BY <1>1, QueueInvariant, PTL
=============================================================================
