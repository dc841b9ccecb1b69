---- MODULE MCJobQueue ----
(***************************************************************************)
(* A small queue for TLC: a control job, and a deliver job whose handler   *)
(* enqueues the follow-up's compose job.                                   *)
(***************************************************************************)
EXTENDS JobQueue

CONSTANTS control, deliver, compose, w1, w2

MCKeys == {control, deliver, compose}
MCRoots == {control, deliver}
MCFollow == [k \in MCKeys |-> IF k = deliver THEN {compose} ELSE {}]
MCPriority == [k \in MCKeys |-> IF k = control THEN 1 ELSE 2]
MCWorkers == {w1, w2}
====
