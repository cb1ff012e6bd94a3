----------------------------- MODULE Collections -----------------------------
(***************************************************************************)
(* The reactive collections of data_structures.rs as pure operators: what  *)
(* a call does to the backend, the changes it emits on the delta node, the *)
(* fold of those changes (storage.rs) and the scan view of a log.          *)
(***************************************************************************)
EXTENDS Integers, Sequences, FiniteSets, SequencesExt, FiniteSetsExt, TLC

CONSTANTS Nil, Items, Keys

\* ListChange, LogChange, MapChange, IndexChange: "many" forms carry several items.
Append_(vs) == [kind |-> "append", items |-> vs]
Insert_(i, vs) == [kind |-> "insert", at |-> i, items |-> vs]
Pop_(i, v) == [kind |-> "pop", at |-> i, item |-> v]
TrimHead_(n) == [kind |-> "trimHead", n |-> n]
Clear_(n) == [kind |-> "clear", n |-> n]
Set_(k, v) == [kind |-> "set", key |-> k, item |-> v]
Delete_(k, v) == [kind |-> "delete", key |-> k, previous |-> v]
DeleteMany_(ks) == [kind |-> "deleteMany", keys |-> ks]
ReplaceAll_(vs) == [kind |-> "replaceAll", items |-> vs]

Sequential(kind) == kind \in {"list", "log", "records"}
Empty(kind) == IF Sequential(kind) THEN <<>> ELSE [k \in {} |-> Nil]
SizeOf(kind, s) == IF Sequential(kind) THEN Len(s) ELSE Cardinality(DOMAIN s)

\* trim_head_overflow: the ring keeps the newest cap items.
Overflow(s, cap) == IF cap # Nil /\ Len(s) > cap THEN Len(s) - cap ELSE 0
Drop(s, n) == SubSeq(s, n + 1, Len(s))
Capped(s, cap) == Drop(s, Overflow(s, cap))
Result(s, changes) == [state |-> s, changes |-> changes]
\* A call that adds items emits its change and then the trim that the cap forces.
Grown(s, change, cap) ==
    Result(Capped(s, cap), IF Overflow(s, cap) = 0 THEN <<change>> ELSE <<change, TrimHead_(Overflow(s, cap))>>)
Spliced(s, i, vs) == SubSeq(s, 1, i) \o vs \o Drop(s, i)

\* What a public call may do in state s: the set of its results.  A call that changes nothing emits nothing.
Cleared(kind, s) == {Result(Empty(kind), <<Clear_(SizeOf(kind, s))>>) : x \in {y \in {1} : SizeOf(kind, s) > 0}}
Batches == {<<v>> : v \in Items} \union {<<v, v>> : v \in Items}
Appends(s, cap) == {Grown(s \o vs, Append_(vs), cap) : vs \in Batches}
ListCalls(s, cap) ==
    UNION {Appends(s, cap),
           {Grown(Spliced(s, 0, <<v>>), Insert_(0, <<v>>), cap) : v \in Items},
           {Result(Spliced(RemoveAt(s, i), 0, <<>>), <<Pop_(i - 1, s[i])>>) : i \in DOMAIN s},
           Cleared("list", s)}
LogCalls(s, cap) ==
    UNION {Appends(s, cap),
           {Result(Drop(s, n), <<TrimHead_(n)>>) : n \in {Min({1, Len(s)})} \ {0}},
           Cleared("log", s)}
MapCalls(s) ==
    UNION {{Result((k :> v) @@ s, <<Set_(k, v)>>) : k \in Keys, v \in Items},
           {Result(Restrict(s, DOMAIN s \ {k}), <<Delete_(k, s[k])>>) : k \in DOMAIN s},
           Cleared("map", s)}
\* An index row is <<secondary, value>>; delete_many reports the primaries it found.
IndexCalls(s) ==
    UNION {{Result((k :> <<v, v>>) @@ s, <<Set_(k, <<v, v>>)>>) : k \in Keys, v \in Items},
           {Result(Restrict(s, DOMAIN s \ {k}), <<Delete_(k, Nil)>>) : k \in DOMAIN s},
           {Result(Restrict(s, {}), <<DeleteMany_(DOMAIN s)>>) : x \in {y \in {1} : DOMAIN s # {}}},
           Cleared("index", s)}
RecordCalls(s) == {Result(vs, <<ReplaceAll_(vs)>>) : vs \in Batches}
Calls(kind, s, cap) ==
    CASE kind = "list" -> ListCalls(s, cap)
      [] kind = "log" -> LogCalls(s, cap)
      [] kind = "map" -> MapCalls(s)
      [] kind = "index" -> IndexCalls(s)
      [] kind = "records" -> RecordCalls(s)

(***************************************************************************)
(* fold_*_change: the change applied to a stored state, or a refusal.      *)
(***************************************************************************)
Broken == [ok |-> FALSE]
Fine(s) == [ok |-> TRUE, state |-> s]
Need(p, s) == IF p THEN Fine(s) ELSE Broken
Fold(kind, s, c) ==
    CASE c.kind = "append" -> Fine(s \o c.items)
      [] c.kind = "insert" -> IF c.at <= Len(s) THEN Fine(Spliced(s, c.at, c.items)) ELSE Broken
      [] c.kind = "pop" -> IF c.at < Len(s) THEN Need(s[c.at + 1] = c.item, RemoveAt(s, c.at + 1)) ELSE Broken
      [] c.kind = "trimHead" -> Need(c.n <= Len(s), Drop(s, c.n))
      [] c.kind = "clear" -> Need(c.n = SizeOf(kind, s), Empty(kind))
      [] c.kind = "set" -> Fine((c.key :> c.item) @@ s)
      [] c.kind = "delete" -> IF c.key \notin DOMAIN s THEN Broken
                              ELSE Need(kind = "index" \/ s[c.key] = c.previous, Restrict(s, DOMAIN s \ {c.key}))
      [] c.kind = "deleteMany" -> Need(c.keys \subseteq DOMAIN s, Restrict(s, DOMAIN s \ c.keys))
      [] c.kind = "replaceAll" -> Fine(c.items)
FoldAll(kind, s, changes) ==
    FoldLeft(LAMBDA acc, c : IF acc.ok THEN Fold(kind, acc.state, c) ELSE acc, Fine(s), changes)

(***************************************************************************)
(* ReactiveLog.scan with a step that collects the items: per delta it      *)
(* folds what it has not seen, starts over after a trim or clear, and      *)
(* waits when the ring was already trimmed under the append it is told of. *)
(***************************************************************************)
NoScan == [acc |-> <<>>, processed |-> 0, shown |-> Nil]
Restarts_ClearOnly(scan, log, c) == c.kind = "clear" \/ Len(log) < scan.processed
Restarts(scan, log, c) == c.kind \in {"trimHead", "clear"} \/ Len(log) < scan.processed
Appended(c) == IF c.kind = "append" THEN Len(c.items) ELSE 0
Scan1(scan, log, c) ==
    LET kept == IF Restarts(scan, log, c) THEN [scan EXCEPT !.acc = <<>>, !.processed = 0] ELSE scan
        acc == kept.acc \o Drop(log, kept.processed)
    IN IF Appended(c) > 0 /\ Len(log) < kept.processed + Appended(c) THEN kept
       ELSE [acc |-> acc, processed |-> Len(log), shown |-> <<acc>>]
ScanAll(scan, log, changes) == FoldLeft(LAMBDA s, c : Scan1(s, log, c), scan, changes)
=============================================================================
