---- MODULE MCCopy ----
(***************************************************************************)
(* Small instances of Copy for TLC, with the limits of the guardrails      *)
(* scaled down to the number of messages.                                  *)
(***************************************************************************)
EXTENDS Copy, TLC

CONSTANTS p1, p2, r1

MCProspects == {p1, p2}
MCOfReply == [r \in {r1} |-> p1]
MCPer == [k \in Kinds |-> 2]
MCTries == [k \in {"compose", "reply", "program"} |-> IF k = "compose" THEN 2 ELSE 1]
Symmetry == Permutations(Variants) \cup Permutations(Workers)
====
