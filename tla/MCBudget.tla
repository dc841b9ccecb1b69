---- MODULE MCBudget ----
(***************************************************************************)
(* Small instances of Budget for TLC: two cohorts, one discover command,   *)
(* one operator and one classify worker.                                   *)
(***************************************************************************)
EXTENDS Budget

CONSTANTS north, south

MCReplying == {south}
MCCohorts == {north, south}

\* A cohort that converts, one that does not and is below its floors.
MCOutcomes ==
    {[contacted |-> 4, converted |-> 2, flagged |-> FALSE],
     [contacted |-> 4, converted |-> 0, flagged |-> TRUE]}

MCIdeas == {<<"goal_brainstorm", "partnership">>}
====
