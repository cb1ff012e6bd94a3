---------------------------- MODULE SinkProtocol ----------------------------
(***************************************************************************)
(* What a node promises the external sinks subscribed to it, whatever      *)
(* happens inside the graph: a subscription begins with START, the calls   *)
(* it makes while the node activates may carry values at once, after that  *)
(* every value or RESOLVED is announced by DIRTY in the same or an earlier *)
(* user call, and after COMPLETE or ERROR nothing but TEARDOWN follows.    *)
(* INVALIDATE needs no announcement and answers none.                      *)
(***************************************************************************)
CONSTANT Node

VARIABLE seen   \* seen[n]: what the sink of n has been told

TypeOK == seen \in [Node -> {"off", "hello", "opening", "clean", "dirty", "settled", "over"}]

Init == seen = [n \in Node |-> "off"]

Tell(n, from, to) == seen[n] \in from /\ seen' = [seen EXCEPT ![n] = to]

Open == {"hello", "opening", "clean", "dirty", "settled"}

Start(n) == Tell(n, Open \cup {"off"}, "hello")
Handshake(n) == Tell(n, {"hello", "opening"}, "opening")
Dirty(n) == Tell(n, Open, "dirty")
Settle(n) == Tell(n, {"dirty", "settled"}, "settled")
End(n) == Tell(n, Open, "over")

\* The user call is over: the sinks that have a value expect DIRTY first from now on.
NextCall ==
    seen' = [n \in Node |-> IF seen[n] \in {"opening", "settled"} THEN "clean" ELSE seen[n]]

Next == (\E n \in Node : Start(n) \/ Handshake(n) \/ Dirty(n) \/ Settle(n) \/ End(n)) \/ NextCall

Spec == Init /\ [][Next]_seen
=============================================================================
