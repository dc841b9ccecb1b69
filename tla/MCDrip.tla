---- MODULE MCDrip ----
(* Instances of Drip for TLC.  Numbers are steps, replies and bounds. *)
EXTENDS Drip

CONSTANTS p1, p2, e1, a1, a2

OneEntity == [p \in Prospects |-> e1]
OwnAddress == [p \in Prospects |-> IF p = p1 THEN a1 ELSE a2]

NoSteps == {}
LastStep == {2}
====
