------------------------------ MODULE Operators ------------------------------
(***************************************************************************)
(* The operator and combinator catalogs (operators.rs, combinators.rs).    *)
(* An operator is a function that reads, in each of its runs, the values   *)
(* and the endings its dependencies delivered since its previous run, and  *)
(* keeps what it needs in a state of its own.                              *)
(*                                                                         *)
(* How many messages a run sees is not up to the operator: a run comes     *)
(* after all the messages of one down (node.rs), and a paused node sees    *)
(* several waves in one run.  Two nodes with the same operator get the     *)
(* same messages here: fine gets each in a wave of its own, coarse gets    *)
(* them grouped.                                                           *)
(*                                                                         *)
(* Left out: combine and settle, whose output depends on the waves by      *)
(* design, and a paused operator of several dependencies unless it keeps   *)
(* one queue per dependency, as zip and concat do.                         *)
(***************************************************************************)
EXTENDS Naturals, Sequences, SequencesExt, FiniteSets

CONSTANTS
    OpCases,       \* [op, together, pauses]: operators, and how their messages are grouped
    MaxMessages    \* bound on the messages of the dependencies

VARIABLE oc        \* the case, the two nodes and what coarse has yet to see

Wanted == 2        \* the n of take, skip, element_at (from zero: 1) and buffer_count
Matches(v) == v = 1
Recovered == 0

Plain == {"map", "filter", "scan", "take", "distinct", "merge", "pairwise", "skip", "take_while",
          "first", "tap"}
Partial == {"merge", "zip", "concat", "race", "buffer", "sample", "take_until", "valve"}
Notified == {"buffer", "sample", "take_until", "valve", "with_latest"}
Errors == {"rescue", "race", "sample"}   \* error_when_deps_error is off
Pairs == {"merge", "zip", "concat", "race"} \cup Notified

-----------------------------------------------------------------------------
(* One run each: what the operator sends, whether it ends, its new state.  *)

NewState == [count |-> 0, kept |-> <<>>, more |-> <<>>, done |-> {}, winner |-> 0]
Did(st, out, ends) == [st |-> st, out |-> out, ends |-> ends]
Completes(b) == IF b THEN "complete" ELSE "no"
Completed(c, i) == c.term[i] = "complete"

Map(c) == Did(c.st, [i \in DOMAIN c.batch[1] |-> 10 + c.batch[1][i]], "no")
Filter(c) == Did(c.st, SelectSeq(c.batch[1], Matches), "no")
Scan(c) ==
    FoldLeft(LAMBDA r, v : Did([r.st EXCEPT !.count = @ + v], Append(r.out, r.st.count + v), "no"),
             Did(c.st, <<>>, "no"), c.batch[1])
Take_Forgets(c) ==
    LET taken == SubSeq(c.batch[1], 1, Min({Len(c.batch[1]), Wanted}))
    IN  Did(c.st, taken, Completes(Len(taken) = Wanted))
Take(c) ==
    LET taken == SubSeq(c.batch[1], 1, Min({Len(c.batch[1]), Wanted - c.st.count}))
        count == c.st.count + Len(taken)
    IN  Did([c.st EXCEPT !.count = count], taken, Completes(count = Wanted))
Distinct(c) ==
    FoldLeft(LAMBDA r, v : IF r.st.kept = <<v>> THEN r
                           ELSE Did([r.st EXCEPT !.kept = <<v>>], Append(r.out, v), "no"),
             Did(c.st, <<>>, "no"), c.batch[1])
Merge(c) == Did(c.st, c.batch[1] \o c.batch[2], "no")
Reduce(c) ==
    LET acc == FoldLeft(LAMBDA a, v : 2 * a + v, c.st.count, c.batch[1])
    IN  Did([c.st EXCEPT !.count = acc], IF Completed(c, 1) THEN <<acc>> ELSE <<>>, Completes(Completed(c, 1)))
Pairwise(c) ==
    LET all == c.st.kept \o c.batch[1]
    IN  Did([c.st EXCEPT !.kept = IF all = <<>> THEN <<>> ELSE <<Last(all)>>],
            [i \in 1..(Len(all) - 1) |-> <<all[i], all[i + 1]>>], "no")
Skip(c) ==
    LET dropped == Min({Len(c.batch[1]), Wanted - c.st.count})
    IN  Did([c.st EXCEPT !.count = @ + dropped], SubSeq(c.batch[1], dropped + 1, Len(c.batch[1])), "no")
TakeWhile(c) ==
    LET ok == SelectInSeq(c.batch[1], LAMBDA v : ~Matches(v))
    IN  Did(c.st, IF ok = 0 THEN c.batch[1] ELSE SubSeq(c.batch[1], 1, ok - 1), Completes(ok # 0))
First(c) ==
    LET hit == SelectInSeq(c.batch[1], Matches)
    IN  Did(c.st, IF hit = 0 THEN <<>> ELSE <<c.batch[1][hit]>>, Completes(hit # 0))
LastMatch(c) ==
    LET kept == FoldLeft(LAMBDA k, v : IF Matches(v) THEN <<v>> ELSE k, c.st.kept, c.batch[1])
    IN  Did([c.st EXCEPT !.kept = kept], IF Completed(c, 1) THEN kept ELSE <<>>, Completes(Completed(c, 1)))
Find(c) == [First(c) EXCEPT !.ends = IF @ = "complete" THEN @ ELSE Completes(Completed(c, 1))]
ElementAt(c) ==
    LET at == Wanted - c.st.count
        hit == at <= Len(c.batch[1])
    IN  Did([c.st EXCEPT !.count = @ + Len(c.batch[1])],
            IF hit THEN <<c.batch[1][at]>> ELSE <<>>, Completes(hit \/ Completed(c, 1)))
\* The side effect of on_first_data is shown as a first output of its own.
Tap(c) ==
    LET hit == SelectInSeq(c.batch[1], Matches)
        fires == c.st.count = 0 /\ hit # 0
    IN  Did([c.st EXCEPT !.count = IF fires THEN 1 ELSE @],
            IF fires THEN InsertAt(c.batch[1], hit, 10) ELSE c.batch[1], "no")
Rescue(c) ==
    Did(c.st, c.batch[1] \o (IF c.term[1] = "error" THEN <<Recovered>> ELSE <<>>), Completes(Completed(c, 1)))
Valve(c) ==
    LET open == c.data[2] # <<>> /\ Matches(c.data[2][1])
    IN  CASE Completed(c, 1) -> Did(c.st, <<>>, "complete")
          [] ~Completed(c, 1) /\ ~open -> Did(c.st, <<>>, "no")
          [] OTHER -> Did(c.st, IF c.batch[1] # <<>> THEN c.batch[1]
                                ELSE IF c.batch[2] # <<>> THEN c.data[1] ELSE <<>>, "no")

WithLatestFrom(c) ==
    IF Completed(c, 1) \/ c.data[2] = <<>> THEN Did(c.st, <<>>, Completes(Completed(c, 1)))
    ELSE Did(c.st, [i \in DOMAIN c.batch[1] |-> <<c.batch[1][i], c.data[2][1]>>], "no")
Zipped(c) ==
    LET first == c.st.kept \o c.batch[1]
        second == c.st.more \o c.batch[2]
        n == Min({Len(first), Len(second)})
        st == [c.st EXCEPT !.kept = SubSeq(first, n + 1, Len(first)),
                           !.more = SubSeq(second, n + 1, Len(second)),
                           !.done = @ \cup {i \in 1..2 : Completed(c, i)}]
    IN  Did(st, [i \in 1..n |-> <<first[i], second[i]>>],
            Completes((1 \in st.done /\ st.kept = <<>>) \/ (2 \in st.done /\ st.more = <<>>)))
\* done: the phase is 1 once the first dependency is in it; more: what the second sent early.
Concat(c) ==
    LET done == c.st.done \cup {i \in 1..2 : Completed(c, i)}
        pending == c.st.more \o c.batch[2]
    IN  CASE 1 \in c.st.done -> Did(c.st, c.batch[2], Completes(Completed(c, 2)))
          [] 1 \in done \ c.st.done ->
               Did([c.st EXCEPT !.done = done, !.more = <<>>], c.batch[1] \o pending, Completes(2 \in done))
          [] OTHER -> Did([c.st EXCEPT !.done = done, !.more = pending], c.batch[1], "no")
Race(c) ==
    LET st == [c.st EXCEPT !.done = @ \cup {i \in 1..2 : c.term[i] # "no"}]
        heard == {i \in 1..2 : c.batch[i] # <<>>}
    IN  CASE st.winner # 0 -> Did(st, c.batch[st.winner], c.term[st.winner])
          [] st.winner = 0 /\ heard # {} ->
               Did([st EXCEPT !.winner = Min(heard)], c.batch[Min(heard)], "no")
          [] OTHER -> Did(st, <<>>, Completes(st.done = {1, 2}))

Buffer(c) ==
    LET buf == c.st.kept \o c.batch[1]
    IN  CASE Completed(c, 1) -> Did([c.st EXCEPT !.kept = <<>>], IF buf = <<>> THEN <<>> ELSE <<buf>>, "complete")
          [] ~Completed(c, 1) /\ c.batch[2] # <<>> -> Did([c.st EXCEPT !.kept = <<>>], <<buf>>, "no")
          [] OTHER -> Did([c.st EXCEPT !.kept = buf], <<>>, "no")
BufferCount(c) ==
    LET r == FoldLeft(LAMBDA a, v : IF Len(a.kept) + 1 >= Wanted
                                    THEN [kept |-> <<>>, out |-> Append(a.out, Append(a.kept, v))]
                                    ELSE [a EXCEPT !.kept = Append(@, v)],
                      [kept |-> c.st.kept, out |-> <<>>], c.batch[1])
        flushed == Completed(c, 1) /\ r.kept # <<>>
    IN  Did([c.st EXCEPT !.kept = IF Completed(c, 1) THEN <<>> ELSE r.kept],
            IF flushed THEN Append(r.out, r.kept) ELSE r.out, Completes(Completed(c, 1)))
Sample(c) ==
    LET done == c.st.done \cup {i \in {1} : Completed(c, i)}
        kept == CASE Completed(c, 1) -> <<>>
                  [] ~Completed(c, 1) /\ c.batch[1] # <<>> -> <<Last(c.batch[1])>>
                  [] OTHER -> c.st.kept
        st == [c.st EXCEPT !.done = done, !.kept = kept]
    IN  CASE "error" \in {c.term[1], c.term[2]} -> Did(c.st, <<>>, "error")
          [] "error" \notin {c.term[1], c.term[2]} /\ Completed(c, 2) -> Did(st, <<>>, "complete")
          [] OTHER -> Did(st, IF c.batch[2] # <<>> /\ done = {} THEN kept ELSE <<>>, "no")
TakeUntil(c) ==
    IF c.batch[2] # <<>> THEN Did(c.st, <<>>, "complete")
    ELSE Did(c.st, c.batch[1], Completes(Completed(c, 1)))

RunOperator(op, c) ==
    CASE op = "map" -> Map(c) [] op = "filter" -> Filter(c) [] op = "scan" -> Scan(c)
      [] op = "take" -> Take(c) [] op = "distinct" -> Distinct(c) [] op = "merge" -> Merge(c)
      [] op = "reduce" -> Reduce(c) [] op = "pairwise" -> Pairwise(c) [] op = "skip" -> Skip(c)
      [] op = "take_while" -> TakeWhile(c) [] op = "first" -> First(c) [] op = "last" -> LastMatch(c)
      [] op = "find" -> Find(c) [] op = "element_at" -> ElementAt(c) [] op = "tap" -> Tap(c)
      [] op = "rescue" -> Rescue(c) [] op = "valve" -> Valve(c) [] op = "with_latest" -> WithLatestFrom(c)
      [] op = "zip" -> Zipped(c) [] op = "concat" -> Concat(c) [] op = "race" -> Race(c)
      [] op = "buffer" -> Buffer(c) [] op = "buffer_count" -> BufferCount(c)
      [] op = "sample" -> Sample(c) [] op = "take_until" -> TakeUntil(c)

-----------------------------------------------------------------------------
(* The node around the operator, as far as grouping goes.                  *)

DepsOf(op) == IF op \in Pairs THEN 1..2 ELSE {1}
OpNode == [batch |-> <<<<>>, <<>>>>, term |-> <<"no", "no">>, data |-> <<<<>>, <<>>>>,
         dead |-> {}, called |-> FALSE, st |-> NewState, out |-> <<>>, over |-> "no"]

Noted(c, m) ==
    IF m.kind = "data"
    THEN [c EXCEPT !.batch[m.dep] = Append(@, m.v), !.data[m.dep] = <<m.v>>]
    ELSE [c EXCEPT !.term[m.dep] = m.kind, !.dead = @ \cup {m.dep}]

\* The first-run gate: every dependency has delivered, or ended where that counts.
Gate(op, c) ==
    \/ c.called \/ op \in Partial
    \/ \A i \in DepsOf(op) : c.data[i] # <<>> \/ (op \notin Plain /\ i \in c.dead)

\* A delivery scope: the messages are recorded first.  A plain operator whose
\* dependencies have all completed ends there and then; the others run.
Deliver(op, c, ms) ==
    LET d == FoldLeft(Noted, c, ms)
        sealed == op \in Plain /\ d.dead = DepsOf(op)
        due == Gate(op, d) /\ (op \in Plain => d.batch # <<<<>>, <<>>>>)
        r == RunOperator(op, d)
    IN  CASE c.over # "no" -> c
          [] c.over = "no" /\ sealed -> [d EXCEPT !.over = "complete"]
          [] c.over = "no" /\ ~sealed /\ due ->
               [d EXCEPT !.batch = <<<<>>, <<>>>>, !.term = <<"no", "no">>, !.called = TRUE,
                         !.st = r.st, !.out = @ \o r.out, !.over = r.ends]
          [] OTHER -> d

-----------------------------------------------------------------------------
(* The messages of the dependencies.                                       *)

OperatorsInit ==
    \E case \in OpCases :
        oc = [case |-> case, fine |-> OpNode, coarse |-> OpNode, waiting |-> <<>>, sent |-> 0]

\* A message follows the waiting ones into the same run if the same down sent
\* both, or if the node is paused.
Joins(m) ==
    \/ oc.waiting = <<>>
    \/ /\ oc.case.pauses \/ (\A i \in DOMAIN oc.waiting : oc.waiting[i].dep = m.dep)
       /\ ~(m.dep = 2 /\ oc.case.op \in Notified /\ m.kind = "data")
       /\ m.kind # "data" => oc.case.together

Send(m) ==
    /\ oc.sent < MaxMessages /\ m.dep \notin oc.fine.dead /\ Joins(m)
    /\ oc' = [oc EXCEPT !.sent = @ + 1, !.waiting = Append(@, m),
                        !.fine = [Deliver(oc.case.op, @, <<m>>) EXCEPT !.dead =
                                     IF m.kind = "data" THEN @ ELSE @ \cup {m.dep}]]

Flush ==
    /\ oc.waiting # <<>>
    /\ oc' = [oc EXCEPT !.waiting = <<>>, !.coarse = Deliver(oc.case.op, @, oc.waiting)]

OperatorsNext ==
    \/ \E dep \in DepsOf(oc.case.op), v \in 1..2 : Send([dep |-> dep, kind |-> "data", v |-> v])
    \/ \E dep \in DepsOf(oc.case.op) : Send([dep |-> dep, kind |-> "complete", v |-> 0])
    \/ \E dep \in DepsOf(oc.case.op) :
         oc.case.op \in Errors /\ Send([dep |-> dep, kind |-> "error", v |-> 0])
    \/ Flush

-----------------------------------------------------------------------------
\* What an operator sends, and how it ends, does not depend on how the
\* messages of its dependencies were grouped into runs: state carried from run
\* to run stands for exactly the messages of the earlier runs, and an ending
\* that arrives with values does not hide them (operators.rs, combinators.rs).
GroupingIrrelevant ==
    oc.waiting = <<>> => oc.coarse.out = oc.fine.out /\ oc.coarse.over = oc.fine.over
=============================================================================
