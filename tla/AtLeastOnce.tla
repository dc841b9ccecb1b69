---- MODULE AtLeastOnce ----
(***************************************************************************)
(* What the job queue promises its callers (docs/engineering-spec.md,      *)
(* section 6): a submitted job is executed at least once before it counts  *)
(* as done, an execution's follow-on jobs are submitted with its effects,  *)
(* and nothing submitted disappears.  It may be executed again, even after *)
(* it was settled: handlers have to be idempotent.                         *)
(***************************************************************************)
CONSTANTS
    Keys,      \* the jobs, one per idempotency key
    Roots,     \* the jobs submitted from outside a handler
    Follow     \* Follow[k]: the jobs k's handler enqueues

VARIABLES
    ran,       \* the jobs whose handler has committed at least once
    outcome    \* "none" until submitted, then "open", "done" or "dead"

vars == <<ran, outcome>>

Outcomes == {"none", "open", "done", "dead"}

Init ==
    /\ ran = {}
    /\ outcome = [k \in Keys |-> "none"]

Submit(k) ==
    /\ k \in Roots
    /\ outcome[k] = "none"
    /\ outcome' = [outcome EXCEPT ![k] = "open"]
    /\ UNCHANGED ran

Execute(k) ==
    /\ outcome[k] # "none"
    /\ ran' = ran \union {k}
    /\ outcome' = [j \in Keys |-> IF j \in Follow[k] /\ outcome[j] = "none"
                                  THEN "open" ELSE outcome[j]]

\* Only a job that ran is done.
Acknowledge(k) ==
    /\ k \in ran
    /\ outcome' = [outcome EXCEPT ![k] = "done"]
    /\ UNCHANGED ran

GiveUp(k) ==
    /\ outcome[k] # "none"
    /\ outcome' = [outcome EXCEPT ![k] = "dead"]
    /\ UNCHANGED ran

Reopen(k) ==
    /\ outcome[k] # "none"
    /\ outcome' = [outcome EXCEPT ![k] = "open"]
    /\ UNCHANGED ran

Next == \E k \in Keys : Submit(k) \/ Execute(k) \/ Acknowledge(k) \/ GiveUp(k) \/ Reopen(k)

Spec == Init /\ [][Next]_vars
====
