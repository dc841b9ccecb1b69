---- MODULE MCSendPath ----
(***************************************************************************)
(* Small instances of SendPath for TLC: one tenant, one entity behind two  *)
(* prospects, sequences of two steps.                                      *)
(***************************************************************************)
EXTENDS SendPath, TLC

CONSTANTS opener, followup, rival, reply, ann, bob, entity, cohort, box1, w1, w2

MCProspects == {ann, bob}
MCEntities == {entity}
MCCohorts == {cohort}
MCMailboxes == {box1}
MCWorkers == {w1, w2}
MCEntityOf == [p \in MCProspects |-> entity]
MCCohortOf == [p \in MCProspects |-> cohort]
MCCohortCap == [c \in MCCohorts |-> 3]
Symmetry == Permutations(MCWorkers)

\* The drip: ann's opener and follow-up, and bob's opener competing for the entity.
DripTouches == {opener, followup, rival}
DripProspectOf == [t \in DripTouches |-> IF t = rival THEN bob ELSE ann]
DripKind == [t \in DripTouches |-> IF t = followup THEN "followup" ELSE "cold"]
DripStep == [t \in DripTouches |-> IF t = followup THEN 1 ELSE 0]
DripBoxCap == [m \in MCMailboxes |-> 3]

\* The reply: ann's opener, the agentic reply to her answer, and bob's opener.
ReplyTouches == {opener, reply, rival}
ReplyProspectOf == [t \in ReplyTouches |-> IF t = rival THEN bob ELSE ann]
ReplyKind == [t \in ReplyTouches |-> IF t = reply THEN "agentic_reply" ELSE "cold"]
ReplyStep == [t \in ReplyTouches |-> 0]
ReplyBoxCap == [m \in MCMailboxes |-> 2]
====
