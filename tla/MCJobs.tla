------------------------------- MODULE MCJobs -------------------------------
(* The work queue with its readiness pipeline and the recipe that runs commands through it. *)
EXTENDS Readiness, QueuedCommands

CONSTANT Scenarios

VARIABLE scenario   \* what happens beside the queue: the clock and expiry commands, or the recipe

MCBackoff == <<0, 1>>
MCSubmits == {[work |-> 1, notBefore |-> None, deadline |-> None], [work |-> 2, notBefore |-> 1, deadline |-> 0]}
MCSchedules == {[notBefore |-> 1, deadline |-> 0]}
MCHandler == [emits |-> [fails |-> "no", events |-> <<Default>>, effects |-> <<>>],
              throws |-> [fails |-> "handler", events |-> <<>>, effects |-> <<>>]]

JobsInit == scenario \in Scenarios /\ Init /\ RecipeInit
JobsNext ==
    /\ UNCHANGED scenario
    /\ \/ scenario = "readiness" /\ Next /\ UNCHANGED recipeVars
       \/ scenario = "recipe" /\ RecipeStep /\ UNCHANGED readinessVars
       \/ scenario = "recipe" /\ Observe /\ React(wave, clock)
jobsVars == <<vars, recipeVars, scenario>>
JobsSpec == JobsInit /\ [][JobsNext]_jobsVars /\ Fairness
=============================================================================
