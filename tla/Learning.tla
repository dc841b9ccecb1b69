---- MODULE Learning ----
(***************************************************************************)
(* The statistics of the prompt variants of one tenant (stats/bandit.py,   *)
(* stats/persistence.py, table variant_stats): what is counted, when a     *)
(* guardrail pauses a variant, and which variants may be chosen.           *)
(*                                                                         *)
(* Every count is an upsert that holds the variant's row until its         *)
(* transaction commits, so an observation is one step.                     *)
(***************************************************************************)
EXTENDS Naturals

CONSTANTS
    Variants,
    Kinds,         \* bounce, complaint, unsubscribe
    MinTrials,     \* GUARDRAIL_MIN_TRIALS
    Per,           \* GUARDRAIL_LIMITS: more than one mark in Per[k] trials is a breach
    PriorFailures  \* KAPPA * (1 - rate), at the rate that global_success_rate plans with

ASSUME LearningAssumption ==
    /\ MinTrials \in Nat \ {0} /\ Per \in [Kinds -> Nat] /\ PriorFailures \in Nat

VARIABLES
    trials,      \* messages of the variant that were dispatched
    successes,   \* interested replies to them
    marks,       \* bounces, complaints and opt-outs
    paused,      \* the paused variants
    judged       \* history: the trials at the variant's last mark

learning == <<trials, successes, marks, paused, judged>>

LearningInit ==
    /\ trials = [v \in Variants |-> 0]
    /\ successes = [v \in Variants |-> 0]
    /\ marks = [v \in Variants |-> [k \in Kinds |-> 0]]
    /\ paused = {}
    /\ judged = [v \in Variants |-> 0]

\* guardrail_breaches, on the counts of one variant
Breaches(ms, n) == {k \in Kinds : n >= MinTrials /\ ms[k] * Per[k] > n}

RecordTrial(v) ==
    /\ trials' = [trials EXCEPT ![v] = @ + 1]
    /\ UNCHANGED <<successes, marks, paused, judged>>

RecordSuccess(v) ==
    /\ successes' = [successes EXCEPT ![v] = @ + 1]
    /\ UNCHANGED <<trials, marks, paused, judged>>

Marked(v, k) == [marks[v] EXCEPT ![k] = @ + 1]

\* Mutant: the rates are taken before the new mark is counted.
PausedOnOldCounts(v, k) ==
    IF Breaches(marks[v], trials[v]) # {} THEN paused \cup {v} ELSE paused

PausedBy(v, k) ==
    IF Breaches(Marked(v, k), trials[v]) # {} THEN paused \cup {v} ELSE paused

RecordGuardrail(v, k) ==
    /\ marks' = [marks EXCEPT ![v] = Marked(v, k)]
    /\ paused' = PausedBy(v, k)
    /\ judged' = [judged EXCEPT ![v] = trials[v]]
    /\ UNCHANGED <<trials, successes>>

LearningNext ==
    \E v \in Variants :
        \/ RecordTrial(v)
        \/ RecordSuccess(v)
        \/ \E k \in Kinds : RecordGuardrail(v, k)

LearningSpec == LearningInit /\ [][LearningNext]_learning

\* Mutant: load_arms forgets who is paused.
LiveIgnoringPause(pool) == pool

\* select: the arms a sample is drawn from
Live(pool) == pool \ paused

\* betavariate raises on a parameter that is not positive: successes are counted per
\* interested reply and may outnumber the trials.
Sampled(v) == PriorFailures + trials[v] > successes[v]

\* select fails without a live arm, and samples every live arm.
Selectable == Live(Variants) # {} /\ \A v \in Live(Variants) : Sampled(v)

----
LearningTypeOK ==
    /\ trials \in [Variants -> Nat] /\ successes \in [Variants -> Nat]
    /\ marks \in [Variants -> [Kinds -> Nat]]
    /\ paused \subseteq Variants
    /\ judged \in [Variants -> Nat]

\* A variant that is over a limit with enough trials and still not paused has had no
\* bounce, complaint or opt-out since it had enough trials: record_guardrail judges at
\* a mark only, so the breach of a young variant waits for the next one, but no mark
\* of a grown variant is ever let pass.
UnpausedBreachIsYoung ==
    \A v \in Variants \ paused :
        Breaches(marks[v], trials[v]) # {} => judged[v] < MinTrials
====
