------------------------------ MODULE MCEdges -------------------------------
(* Where a graph meets what outlives or surrounds it: files, persisted     *)
(* collections, caches over storage tiers, checkpoints; the wire bridge,   *)
(* calls and edge groups over it, WebSocket sessions, outbound adapters.   *)
EXTENDS FileStore, CollectionPersistence, CascadingCache, Checkpoint,
        RemoteCalls, EdgeGroup, WebSocketSession, OutboundAdapter

CONSTANT Parts

VARIABLE part   \* the component this behaviour is about

Setup(kind, cap, every, log, initial) == [kind |-> kind, cap |-> cap, every |-> every, log |-> log, initial |-> initial]
MCSetups ==
    {Setup("list", 2, 2, TRUE, <<1>>), Setup("list", Nil, Nil, FALSE, <<>>), Setup("log", 2, Nil, TRUE, <<1>>),
     Setup("log", 2, 2, FALSE, <<>>), Setup("map", Nil, 2, TRUE, [k \in {1} |-> 1]),
     Setup("index", Nil, Nil, TRUE, [k \in {} |-> 1]), Setup("records", Nil, Nil, TRUE, <<1>>)}
MCPolicies == {<<>>, <<1, 2>>, <<2, 1>>}
MCDelay == <<0, 1>>
MCDelays == <<0, 0, 1>>
MCBridgeUses == [caller |-> {"Start", "Close", "Timeout"}, responder |-> {"Ack", "Nack"}]
MCCallUses == [caller |-> {"Timeout"}, responder |-> {"Nack"}]
MCPushes == {[id |-> 1, op |-> "x", kind |-> "Status"]}
MCStrays == {[kind |-> "Dirty", edge |-> "z", cause |-> 9, value |-> 0]}

\* The parts share nothing, except that calls run over the bridge: each
\* behaviour follows one of them while the others stand still.
EdgesInit ==
    /\ part \in Parts
    /\ FileInit /\ (part # "files" => store = "multi")
    /\ PersistInit /\ (part # "collection" => setup.kind = "records")
    /\ CacheInit /\ (part # "cache" => policy = <<>>)
    /\ CheckpointInit /\ (part # "checkpoint" => graph.sinks = {1} /\ graph.mood = "settled"
                             /\ \A n \in Ids : graph.deps[n] = <<>> /\ graph.kind[n] = "registered")
    /\ CallsInit /\ EdgeInit /\ WebInit
    /\ ObInit /\ (part # "outbound" => timed)

stored == <<fileVars, persistVars, cacheVars, checkpointVars>>
wired == <<callVars, edgeVars, web, obVars>>

EdgesNext ==
    /\ UNCHANGED part
    /\ \/ /\ UNCHANGED wired
          /\ \/ part = "files" /\ FileNext /\ UNCHANGED <<persistVars, cacheVars, checkpointVars>>
             \/ part = "collection" /\ PersistNext /\ UNCHANGED <<fileVars, cacheVars, checkpointVars>>
             \/ part = "cache" /\ CacheNext /\ UNCHANGED <<fileVars, persistVars, checkpointVars>>
             \/ part = "checkpoint" /\ CheckpointNext /\ UNCHANGED <<fileVars, persistVars, cacheVars>>
       \/ /\ UNCHANGED stored
          /\ \/ /\ part = "bridge" /\ BridgeNext
                /\ UNCHANGED <<calls, callStatus, noted, ingress, ran, edgeVars, web, obVars>>
             \/ part = "calls" /\ CallsNext /\ UNCHANGED <<edgeVars, web, obVars>>
             \/ part = "edges" /\ EdgeNext /\ UNCHANGED <<callVars, web, obVars>>
             \/ part = "session" /\ WebNext /\ UNCHANGED <<callVars, edgeVars, obVars>>
             \/ part = "outbound" /\ ObNext /\ UNCHANGED <<callVars, edgeVars, web>>

EdgesSpec == EdgesInit /\ [][EdgesNext]_<<part, stored, wired>>
=============================================================================
