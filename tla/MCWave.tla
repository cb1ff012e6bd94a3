------------------------------- MODULE MCWave -------------------------------
(* Small graphs for the wave engine and programs that use them.  A run has *)
(* several graphs side by side, each with its own nodes, and a program     *)
(* uses one of them: k is the number of nodes before a graph's own.        *)
EXTENDS WaveEngine

Plain == [fn |-> TRUE, async |-> FALSE, mode |-> "true", partial |-> FALSE, pull |-> FALSE,
          autoComplete |-> TRUE, autoError |-> TRUE, terminalInput |-> FALSE]
Source == [Plain EXCEPT !.fn = FALSE]

Program(downs, ups, observed, calls) ==
    [downs |-> downs, ups |-> ups, observed |-> observed, calls |-> calls,
     inBatch |-> {}, sinkActs |-> {}]

\* The source n sends one message, or a wave of several.
Sends(n, ms) == {<<n, <<m>>>> : m \in ms}
Sets(n) == Sends(n, {Data(<<1>>), Data(<<2>>)})
Pauses(n) == {<<n, [kind |-> kind, v |-> <<"lock">>]>> : kind \in {"PAUSE", "RESUME"}}

\* A diamond: the source 1 feeds 2 and 3, which feed 4.
Diamond(k) == <<<<>>, <<k + 1>>, <<k + 1>>, <<k + 2, k + 3>>>>
DiamondConfig == <<Source, Plain, Plain, Plain>>
Emits == <<{}, {"emit"}, {"emit"}, {"emit"}>>
Changes(k) == Sets(k + 1) \cup Sends(k + 1, {Msg("INVALIDATE")})
Waves(k) == Changes(k) \cup Sends(k + 1, {Msg("COMPLETE")})
                       \cup {<<k + 1, <<Data(<<1>>), Data(<<2>>)>>>>}
InvalidateUp(k) == {<<k + 4, Msg("INVALIDATE")>>}
DiamondProgram(k, calls) == Program(Waves(k), InvalidateUp(k), {k + 2, k + 4}, calls)
DetachProgram(k) ==
    [Program(Changes(k), {}, {k + 2, k + 4}, 4) EXCEPT !.sinkActs = {"unsubscribe"}]

\* Two sources: 3 is computed from 1, and 4 from 2 and 3.
Join(k) == <<<<>>, <<>>, <<k + 1>>, <<k + 2, k + 3>>>>
JoinConfig == <<Source, Source, Plain, Plain>>
JoinEmits == <<{}, {}, {"emit"}, {"emit"}>>
BatchProgram(k) ==
    [Program(Sets(k + 1) \cup Sends(k + 2, {Data(<<3>>), Data(<<4>>)}), {}, {k + 4}, 6)
     EXCEPT !.inBatch = {"down"}]

\* A diamond, a join, a diamond whose 2 buffers while it is paused, and one whose 3 is pulled.
WaveDeps == Diamond(0) \o Join(4) \o Diamond(8) \o Diamond(12)
WaveConfig ==
    DiamondConfig \o JoinConfig
    \o <<Source, [Plain EXCEPT !.mode = "resumeAll"], Plain, Plain>>
    \o <<Source, Plain, [Plain EXCEPT !.pull = TRUE], Plain>>
WaveActs == Emits \o JoinEmits \o Emits \o Emits
PullProgram(k) ==
    Program(Changes(k), {<<k + 4, [kind |-> "PULL", v |-> <<k + 3>>]>>} \cup Pauses(k + 3), {k + 4}, 6)
WavePrograms ==
    <<DiamondProgram(0, 5), DetachProgram(0), BatchProgram(4),
      Program(Changes(8), Pauses(10) \cup Pauses(12), {12}, 6), PullProgram(12)>>

\* A diamond of filters; a diamond whose 2 is async; a graph where 2 relays 1
\* without a fn, 3 is an async producer, and 4 joins them and takes terminals
\* of its dependencies as input; and a diamond whose fns and sinks may panic,
\* and may send into the graph.
FaultDeps == Diamond(0) \o Diamond(4) \o <<<<>>, <<9>>, <<>>, <<10, 11>>>> \o Diamond(12)
Async == [Plain EXCEPT !.async = TRUE]
FaultConfig ==
    DiamondConfig \o <<Source, Async, Plain, Plain>>
    \o <<Source, Source, Async,
         [Plain EXCEPT !.terminalInput = TRUE, !.autoError = FALSE, !.partial = TRUE]>>
    \o DiamondConfig
PanicActs == <<{}, {"emit", "panic"}, {"emit", "poke"}, {"emit"}>>
FaultActs ==
    <<{}, {"emit", "none"}, {"emit", "none", "complete"}, {"emit", "none", "emit_complete"}>>
    \o <<{}, {"defer"}, {"emit"}, {"emit"}>>
    \o <<{}, {}, {"defer", "emit"}, {"emit", "none"}>>
    \o PanicActs
Endings(k) ==
    Sends(k + 1, {Data(<<1>>), Msg("ERROR"), Msg("TEARDOWN")})
    \cup {<<k + 1, <<Msg("DIRTY"), Data(<<2>>)>>>>, <<k + 1, <<Msg("TEARDOWN"), Msg("COMPLETE")>>>>,
          <<k + 3, <<Msg("ERROR")>>>>}
PanicProgram(k) ==
    [Program(Changes(k) \cup {<<k + 1, <<Data(<<1>>), Msg("RESOLVED")>>>>}, {}, {k + 2, k + 4}, 4)
     EXCEPT !.sinkActs = {"panic"}]
FaultPrograms ==
    <<DiamondProgram(0, 4), Program(Changes(4), Pauses(6), {8}, 5),
      Program(Endings(8), {}, {12}, 5), PanicProgram(12)>>

\* A diamond whose fns may panic.
PanicDeps == Diamond(0)
FnPanicPrograms == <<DiamondProgram(0, 4)>>

\* 1 feeds the filter 2, which feeds 3; 4 joins 3 with 1.
GateDeps == <<<<>>, <<1>>, <<2>>, <<1, 3>>>>
GateActs == <<{}, {"emit", "none"}, {"emit"}, {"emit"}>>
GatePrograms == <<Program(Changes(0), {}, {4}, 4)>>

\* A sink of the source detaches another sink while it is called.
StalePrograms ==
    <<[Program(Changes(0), {}, {1, 4}, 4) EXCEPT !.sinkActs = {"unsubscribe"}]>>
=============================================================================
