----------------------------- MODULE MCServices -----------------------------
(* One topic and one command handler fed from it: commands that repeat,   *)
(* are garbled, name their events or throw, acknowledged on the bus.      *)
EXTENDS Delivery

MCHandler == [emits |-> [fails |-> "no", events |-> <<Default>>, effects |-> <<Default>>],
              names |-> [fails |-> "no", events |-> <<"e", Default>>, effects |-> <<>>],
              throws |-> [fails |-> "handler", events |-> <<>>, effects |-> <<>>],
              settles |-> [fails |-> "no", events |-> <<>>, effects |-> <<>>]]
MCPayloads == {[cmd |-> <<"c">>, does |-> "emits"], [cmd |-> <<"c">>, does |-> "names"], [cmd |-> <<"c">>, does |-> "garbled"],
               [cmd |-> <<"d">>, does |-> "names"], [cmd |-> <<"d">>, does |-> "throws"]}
=============================================================================
