------------------------------- MODULE MCCore -------------------------------
(* The parts of the core the waves stand on and the operators built over   *)
(* them: the node arena, the dispatcher's pool, operators that rewire      *)
(* themselves, the boundary queue, time operators, worker nodes, plain     *)
(* operators under the two groupings of the same messages, the graph layer *)
(* and sources fed by a driver.                                            *)
EXTENDS Arena, Dispatcher, DynamicDeps, BoundaryQueue, TimeOperators, WorkerDerived, Operators, Topology, DriverSources

CONSTANT Parts

VARIABLE part   \* the component this behaviour is about

Case(mode, limit, cold, pauses, project) ==
    [mode |-> mode, limit |-> limit, cold |-> cold, pauses |-> pauses, project |-> project]
EachOnce == <<"a", "b", "c">>
MCCases ==
    {Case(m, 0, FALSE, FALSE, EachOnce) : m \in {"switch", "merge", "concat", "exhaust"}}
    \cup {Case("merge", 2, FALSE, FALSE, p) : p \in {EachOnce, <<"a", "a", "b">>}}
    \cup {Case("switch", 0, FALSE, FALSE, <<"a", "b", "a">>)}
    \cup {Case(m, 0, FALSE, FALSE, <<"a", "b", "panics">>) : m \in {"switch", "merge"}}
    \cup {Case(m, 0, cold, TRUE, EachOnce) : m \in {"concat", "exhaust"}, cold \in BOOLEAN}
    \cup {Case(m, 0, TRUE, FALSE, EachOnce) : m \in {"switch", "concat", "exhaust"}}
ColdMerge == {Case("merge", 0, TRUE, FALSE, EachOnce)}

OpCase(o, together, pauses) == [op |-> o, together |-> together, pauses |-> pauses]
\* The operators whose output does depend on it are left out of "together".
MCOpCases ==
    {OpCase(o, FALSE, o # "merge") : o \in Plain}
    \cup {OpCase(o, TRUE, TRUE) : o \in {"reduce", "last", "find", "element_at", "rescue",
                                         "buffer_count", "zip", "concat"}}
    \cup {OpCase(o, TRUE, FALSE) : o \in {"buffer", "take_until"}}
    \cup {OpCase(o, FALSE, FALSE) : o \in {"race", "valve", "with_latest", "sample"}}
MapTogether == {OpCase("map", TRUE, FALSE)}

Bound(changes, joins, ids, grouped) == [changes |-> changes, joins |-> joins, ids |-> ids, grouped |-> grouped]
MCTopologyBounds ==
    {Bound(2, 3, {0}, FALSE), Bound(3, 2, {0, 1}, FALSE), Bound(2, 2, {0, 1}, TRUE), Bound(3, 1, {0, 1}, TRUE)}

MCDriverKinds == (Guarded \cup Polled \cup Bare) \X {TRUE} \cup {<<"stream", FALSE>>}

MCGraphOf == [n |-> "g", x |-> "g", m |-> "h"]
MCRequests == {<<"n", "rewire">>, <<"n", "external">>, <<"x", "down">>, <<"m", "up">>}

\* The parts share nothing: each behaviour follows one while the others stand still.
CoreInit ==
    /\ part \in Parts
    /\ ArenaInit /\ Init /\ BoundaryInit /\ WorkerInit
    /\ DepInit /\ (part # "inners" => case = CHOOSE c \in Cases : TRUE)
    /\ TimedInit /\ (part # "time" => td.op = "throttle")
    /\ OperatorsInit /\ (part # "operators" => oc.case = CHOOSE c \in OpCases : TRUE)
    /\ TopologyInit /\ (part # "topology" => tp.bound = CHOOSE b \in TopologyBounds : TRUE)
    /\ SourcesInit /\ (part # "sources" => <<so.kind, so.yields>> = CHOOSE k \in DriverKinds : TRUE)

CoreNext ==
    /\ UNCHANGED part
    /\ \/ part = "arena" /\ ArenaNext /\ UNCHANGED <<vars, depVars, bq, td, wk, oc, tp, so>>
       \/ part = "pool" /\ Next /\ UNCHANGED <<arenaVars, depVars, bq, td, wk, oc, tp, so>>
       \/ part = "inners" /\ DepNext /\ UNCHANGED <<arenaVars, vars, bq, td, wk, oc, tp, so>>
       \/ part = "boundary" /\ BoundaryNext /\ UNCHANGED <<arenaVars, vars, depVars, td, wk, oc, tp, so>>
       \/ part = "time" /\ TimedNext /\ UNCHANGED <<arenaVars, vars, depVars, bq, wk, oc, tp, so>>
       \/ part = "worker" /\ WorkerNext /\ UNCHANGED <<arenaVars, vars, depVars, bq, td, oc, tp, so>>
       \/ part = "operators" /\ OperatorsNext /\ UNCHANGED <<arenaVars, vars, depVars, bq, td, wk, tp, so>>
       \/ part = "topology" /\ TopologyNext /\ UNCHANGED <<arenaVars, vars, depVars, bq, td, wk, oc, so>>
       \/ part = "sources" /\ SourcesNext /\ UNCHANGED <<arenaVars, vars, depVars, bq, td, wk, oc, tp>>

CoreSpec == CoreInit /\ [][CoreNext]_<<part, arenaVars, vars, depVars, bq, td, wk, oc, tp, so>>
=============================================================================
