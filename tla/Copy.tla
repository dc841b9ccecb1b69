---- MODULE Copy ----
(***************************************************************************)
(* How texts come about and what becomes of them: the compose job of an    *)
(* opener (core/prospecting.py, agents/composer.py), the classify job of a *)
(* reply (core/events.py, core/replies.py, agents/reply_composer.py), the  *)
(* synthesis of a program from a Brief (core/programs.py,                  *)
(* agents/synthesizer.py), the review ramp (core/sendpath.py), the         *)
(* escalation queue (core/escalations.py) and the audit of sent mail       *)
(* (core/monitor.py), over the statistics of Learning.                     *)
(*                                                                         *)
(* A subject is a prospect, a reply or a Brief, and has one job.  A        *)
(* handler is one transaction around calls of a model, each of which may   *)
(* be refused by the validators, raise suspicion, or fail.  Texts are not  *)
(* modelled.  A compose job that runs twice is Drip's, the gates of a send *)
(* are SendPath's, the classification of a cohort's mood is Budget's.      *)
(***************************************************************************)
EXTENDS Learning, FiniteSets

CONSTANTS
    Prospects,
    Replies,
    Briefs,
    OfReply,        \* the prospect a reply answers to
    None,
    Workers,
    Tries,          \* 1 + MAX_..._RETRIES of the three kinds of text
    ApproveFirst,   \* PersonaSpec.approve_first
    PerCohort,      \* PER_COHORT_SAMPLE
    MaxAttempts,    \* jobs.max_attempts
    MaxFailures,    \* bound: exceptions
    MaxMarks,       \* bound: bounces, complaints and opt-outs
    MaxRepeats,     \* bound: jobs repeated after their commit
    MaxAudits       \* bound: audits of sent mail

Subjects == Prospects \cup Replies \cup Briefs

KindOf(s) == CASE s \in Prospects -> "compose" [] s \in Replies -> "reply" [] OTHER -> "program"

ASSUME CopyAssumption ==
    /\ Prospects \cap Replies = {} /\ Prospects \cap Briefs = {} /\ Replies \cap Briefs = {}
    /\ OfReply \in [Replies -> Prospects]
    /\ None \notin Variants \cup Subjects \cup Workers
    /\ Tries \in [{"compose", "reply", "program"} -> Nat \ {0}]
    /\ ApproveFirst \in Nat /\ PerCohort \in Nat /\ MaxAttempts \in Nat \ {0}
    /\ MaxFailures \in Nat /\ MaxMarks \in Nat /\ MaxRepeats \in Nat /\ MaxAudits \in Nat

VARIABLES
    job,        \* per subject: "none", "ready", "running", "done" or "dead"
    attempts,
    working,    \* per worker: the transaction it is in
    lock,       \* per variant: the holder of the ramp's advisory lock
    touch,      \* per prospect: what became of its opener
    variant,    \* touches.variant_id
    ramped,     \* history: the prospects whose draft went to the review queue
    left,       \* prospects that were sent a message
    gone,       \* prospects that left the state "queued" otherwise
    exchange,   \* replies whose agentic_exchanges is 1
    outcome,    \* per subject: what its jobs have left behind
    open,       \* subjects with an open escalation
    flagged,    \* history: prospects whose message an audit found ungrounded
    reported,   \* prospects named in an escalation of the monitor
    failures, repeats, audits

queue == <<job, attempts, working>>
mail == <<lock, touch, variant, ramped, left, gone>>
monitor == <<flagged, reported, audits>>
faults == <<failures, repeats>>
vars == <<learning, queue, mail, exchange, outcome, open, monitor, faults>>

NoTask == [subject |-> None, step |-> "idle", variant |-> None, tries |-> 0, hold |-> FALSE]

Init ==
    /\ LearningInit
    /\ job = [s \in Subjects |-> IF s \in Prospects THEN "ready" ELSE "none"]
    /\ attempts = [s \in Subjects |-> 0]
    /\ working = [w \in Workers |-> NoTask]
    /\ lock = [v \in Variants |-> None]
    /\ touch = [p \in Prospects |-> "none"]
    /\ variant = [p \in Prospects |-> None]
    /\ ramped = {} /\ left = {} /\ gone = {} /\ exchange = {}
    /\ outcome = [s \in Subjects |-> {}]
    /\ open = {} /\ flagged = {} /\ reported = {}
    /\ failures = 0 /\ repeats = 0 /\ audits = 0

----
\* The worker.

Leases(w, s) ==
    /\ working[w] = NoTask /\ job[s] = "ready"
    /\ attempts' = [attempts EXCEPT ![s] = @ + 1]

Starts(w, s, step, v) ==
    /\ Leases(w, s)
    /\ job' = [job EXCEPT ![s] = "running"]
    /\ working' = [working EXCEPT ![w] =
                      [subject |-> s, step |-> step, variant |-> v, tries |-> 0, hold |-> FALSE]]

\* The transaction of w ends, its job becomes `to`, and its locks are released.
Ends(w, to) ==
    /\ job' = [job EXCEPT ![working[w].subject] = to]
    /\ working' = [working EXCEPT ![w] = NoTask]
    /\ lock' = [v \in Variants |-> IF lock[v] = w THEN None ELSE lock[v]]
    /\ UNCHANGED attempts

AfterFailure(s, n) == IF n < MaxAttempts THEN "ready" ELSE "dead"

\* An exception nobody catches: the transaction rolls back, the job waits or is dead.
Raises(w) ==
    /\ working[w] # NoTask /\ failures < MaxFailures
    /\ failures' = failures + 1
    /\ Ends(w, AfterFailure(working[w].subject, attempts[working[w].subject]))
    /\ UNCHANGED <<learning, touch, variant, ramped, left, gone, exchange, outcome, open,
                   monitor, repeats>>

\* A classify job whose worker lost its lease runs again after its commit (a second
\* synthesis finds the key of its proposal taken).
Repeats(r) ==
    /\ job[r] = "done"
    /\ repeats < MaxRepeats /\ attempts[r] < MaxAttempts
    /\ job' = [job EXCEPT ![r] = "ready"]
    /\ repeats' = repeats + 1
    /\ UNCHANGED <<learning, attempts, working, mail, exchange, outcome, open, monitor, failures>>

----
\* The beginning of a job.

\* select_variant, on the arms as they are now; the draft comes later.
ComposeBegins(w, p) ==
    /\ p \notin gone
    /\ Selectable
    /\ \E v \in Live(Variants) : Starts(w, p, "write", v)
    /\ UNCHANGED <<learning, mail, exchange, outcome, open, monitor, faults>>

\* "no live variants to select from", or a posterior that cannot be sampled
ComposeRaises(w, p) ==
    /\ p \notin gone
    /\ ~Selectable
    /\ Leases(w, p)
    /\ job' = [job EXCEPT ![p] = AfterFailure(p, attempts[p] + 1)]
    /\ UNCHANGED <<learning, working, mail, exchange, outcome, open, monitor, faults>>

ComposeReturns(w, p) ==
    /\ p \in gone
    /\ Leases(w, p)
    /\ job' = [job EXCEPT ![p] = "done"]
    /\ UNCHANGED <<learning, working, mail, exchange, outcome, open, monitor, faults>>

\* route() and the outcomes that need no further text: an opt-out, a polite decline, an
\* absence, a wrong person.
ReplySettles(w, r) ==
    /\ Leases(w, r)
    /\ job' = [job EXCEPT ![r] = "done"]
    /\ outcome' = [outcome EXCEPT ![r] = @ \cup {"settled"}]
    /\ UNCHANGED <<learning, working, mail, exchange, open, monitor, faults>>

\* The intent "interested" counts as a success whatever the decision is.
MayCount(v, interested) == IF interested THEN RecordSuccess(v) ELSE UNCHANGED learning

\* Suspicion, hostility, low confidence, an action that is not allowed, and a reply
\* that has had its one answer.
ReplyEscalates(w, r) ==
    /\ Leases(w, r)
    /\ job' = [job EXCEPT ![r] = "done"]
    /\ outcome' = [outcome EXCEPT ![r] = @ \cup {"escalated"}]
    /\ open' = open \cup {r}
    /\ \E interested \in BOOLEAN : MayCount(variant[OfReply[r]], interested)
    /\ UNCHANGED <<working, mail, exchange, monitor, faults>>

\* A question, an objection or interest: the answer is composed in the same
\* transaction.  The task's variant is set when a success is to be counted.
ReplyBegins(w, r) ==
    /\ r \notin exchange
    /\ \E v \in {None, variant[OfReply[r]]} : Starts(w, r, "write", v)
    /\ UNCHANGED <<learning, mail, exchange, outcome, open, monitor, faults>>

SynthesisBegins(w, b) ==
    /\ Starts(w, b, "write", None)
    /\ UNCHANGED <<learning, mail, exchange, outcome, open, monitor, faults>>

----
\* The model writes, the validators judge.

Subject(w) == working[w].subject
AtStep(w, step) == working[w].step = step
LastTry(w) == working[w].tries + 1 >= Tries[KindOf(Subject(w))]

\* Findings are fed back and the text is written again.
Rewrites(w) ==
    /\ AtStep(w, "write") /\ ~LastTry(w)
    /\ working' = [working EXCEPT ![w].tries = @ + 1]
    /\ UNCHANGED <<learning, job, attempts, mail, exchange, outcome, open, monitor, faults>>

\* What a committed job that answered a reply has counted.
Counted(w) ==
    IF Subject(w) \in Replies /\ working[w].variant # None
    THEN RecordSuccess(working[w].variant) ELSE UNCHANGED learning

Claimed(w) == exchange \cup ({Subject(w)} \cap Replies)

\* Mutant: the exception is swallowed and the handler returns.
ReturnsQuietly(w) ==
    /\ Ends(w, "done")
    /\ exchange' = Claimed(w)
    /\ Counted(w)
    /\ UNCHANGED <<touch, variant, ramped, left, gone, outcome, open, monitor, faults>>

\* ComposeEscalation, ReplyComposeError, SynthesisEscalation: a row for a human, and
\* the handler returns.
HandsOver(w) ==
    /\ Ends(w, "done")
    /\ exchange' = Claimed(w)
    /\ Counted(w)
    /\ outcome' = [outcome EXCEPT ![Subject(w)] = @ \cup {"escalated"}]
    /\ open' = open \cup {Subject(w)}
    /\ UNCHANGED <<touch, variant, ramped, left, gone, monitor, faults>>

GivesUp(w) == AtStep(w, "write") /\ LastTry(w) /\ HandsOver(w)

\* Signs of an injection in the evidence, the reply or the output, an unknown slot, or
\* a claim the groundedness audit does not find in the evidence; the synthesizer has
\* no such exit.
Suspects(w) ==
    /\ AtStep(w, "write") \/ AtStep(w, "audit")
    /\ Subject(w) \notin Briefs
    /\ HandsOver(w)

ComposeAccepted(w) ==
    /\ AtStep(w, "write") /\ Subject(w) \in Prospects
    /\ working' = [working EXCEPT ![w].step = "audit"]
    /\ UNCHANGED <<learning, job, attempts, mail, exchange, outcome, open, monitor, faults>>

\* compose_reply returns, and the answer is queued.
Answered(w) ==
    /\ AtStep(w, "write") /\ Subject(w) \in Replies
    /\ Ends(w, "done")
    /\ exchange' = Claimed(w)
    /\ Counted(w)
    /\ outcome' = [outcome EXCEPT ![Subject(w)] = @ \cup {"answered"}]
    /\ UNCHANGED <<touch, variant, ramped, left, gone, open, monitor, faults>>

\* The program becomes a proposal, unless its key is known to the store already.
Filed(w) ==
    /\ AtStep(w, "write") /\ Subject(w) \in Briefs
    /\ Ends(w, "done")
    /\ outcome' = [outcome EXCEPT ![Subject(w)] = @ \cup {"filed"}]
    /\ UNCHANGED <<learning, touch, variant, ramped, left, gone, exchange, open, monitor,
                   faults>>

----
\* queue_draft and the review ramp.

Drafts(v) == {p \in Prospects : variant[p] = v}

\* Mutant: no advisory lock.
RampUnlocked(w, v) == v = working[w].variant

RampLocked(w, v) == v = working[w].variant /\ lock[v] = None

\* The lock is taken and the drafts of the variant are counted.
CountsRamp(w) ==
    /\ AtStep(w, "audit")
    /\ \E v \in Variants :
          /\ RampLocked(w, v)
          /\ lock' = [lock EXCEPT ![v] = w]
          /\ working' = [working EXCEPT ![w].step = "insert",
                            ![w].hold = Cardinality(Drafts(v)) < ApproveFirst]
    /\ UNCHANGED <<learning, job, attempts, touch, variant, ramped, left, gone, exchange,
                   outcome, open, monitor, faults>>

QueuesDraft(w) ==
    LET p == Subject(w)
    IN  /\ AtStep(w, "insert")
        /\ touch' = [touch EXCEPT ![p] = IF working[w].hold THEN "held" ELSE "drafted"]
        /\ variant' = [variant EXCEPT ![p] = working[w].variant]
        /\ ramped' = IF working[w].hold THEN ramped \cup {p} ELSE ramped
        /\ outcome' = [outcome EXCEPT ![p] = @ \cup {"drafted"}]
        /\ Ends(w, "done")
        /\ UNCHANGED <<learning, left, gone, exchange, open, monitor, faults>>

Touched(p, from, to) ==
    /\ touch[p] \in from
    /\ touch' = [touch EXCEPT ![p] = to]

\* approve_pending and reject_pending
Reviewed(p) ==
    /\ \/ Touched(p, {"held"}, "drafted")
       \/ Touched(p, {"held"}, "released")
    /\ UNCHANGED <<learning, queue, lock, variant, ramped, left, gone, exchange, outcome,
                   open, monitor, faults>>

\* A refusal that is final
Refused(p) ==
    /\ Touched(p, {"drafted"}, "released")
    /\ UNCHANGED <<learning, queue, lock, variant, ramped, left, gone, exchange, outcome,
                   open, monitor, faults>>

\* provider.send, inside the transaction
Sent(p) ==
    /\ Touched(p, {"drafted"}, "sending")
    /\ left' = left \cup {p}
    /\ UNCHANGED <<learning, queue, lock, variant, ramped, gone, exchange, outcome, open,
                   monitor, faults>>

\* The commit, with the trial; or the transaction is lost and deliver runs again.
Dispatched(p) ==
    /\ Touched(p, {"sending"}, "dispatched")
    /\ RecordTrial(variant[p])
    /\ UNCHANGED <<queue, lock, variant, ramped, left, gone, exchange, outcome, open,
                   monitor, faults>>

SendLost(p) ==
    /\ Touched(p, {"sending"}, "drafted")
    /\ UNCHANGED <<learning, queue, lock, variant, ramped, left, gone, exchange, outcome,
                   open, monitor, faults>>

----
\* What comes in from outside.

MarksSeen == UNION {{<<v, k, n>> : n \in 1..marks[v][k]} : v \in Variants, k \in Kinds}

\* A bounce, complaint or opt-out of a message, before or after the commit of its send.
Mark(p, k) ==
    /\ p \in left
    /\ Cardinality(MarksSeen) < MaxMarks
    /\ RecordGuardrail(variant[p], k)
    /\ UNCHANGED <<queue, mail, exchange, outcome, open, monitor, faults>>

\* Its key is the reply's, or the Brief's, and is never freed.
Enqueue(s) ==
    /\ job' = IF job[s] = "none" THEN [job EXCEPT ![s] = "ready"] ELSE job
    /\ UNCHANGED <<learning, attempts, working, mail, exchange, outcome, open, monitor, faults>>

ReplyArrives(r) == job[r] = "none" /\ OfReply[r] \in left /\ Enqueue(r)

\* A Brief may be posted again.
BriefPosted(b) == Enqueue(b)

\* The prospect opts out or is forgotten while its compose job waits.
Leaves(p) ==
    /\ job[p] = "ready" /\ p \notin gone
    /\ gone' = gone \cup {p}
    /\ UNCHANGED <<learning, queue, lock, touch, variant, ramped, left, exchange, outcome,
                   open, monitor, faults>>

\* escalations.resolve: the row is closed, and nothing is done about its subject.
Resolve(s) ==
    /\ s \in open
    /\ open' = open \ {s}
    /\ UNCHANGED <<learning, queue, mail, exchange, outcome, monitor, faults>>

\* audit_sent_sample: ALERT_BELOW is 0.95, rate = 1 - |failures| / |sample|
Alerts(sample, bad) == 20 * Cardinality(bad) > Cardinality(sample)

AuditSentSample ==
    /\ audits < MaxAudits
    /\ \E sample \in SUBSET {p \in Prospects : touch[p] = "dispatched"} :
          /\ Cardinality(sample) <= PerCohort /\ sample # {}
          /\ \E bad \in SUBSET sample :
                /\ flagged' = flagged \cup bad
                /\ reported' = IF Alerts(sample, bad) THEN reported \cup bad
                               ELSE reported
    /\ audits' = audits + 1
    /\ UNCHANGED <<learning, queue, mail, exchange, outcome, open, faults>>

ComposeJob(w) ==
    \E p \in Prospects : ComposeBegins(w, p) \/ ComposeRaises(w, p) \/ ComposeReturns(w, p)

ReplyJob(w) ==
    \E r \in Replies : ReplySettles(w, r) \/ ReplyEscalates(w, r) \/ ReplyBegins(w, r)

Writing(w) ==
    \/ Rewrites(w) \/ GivesUp(w) \/ Suspects(w) \/ ComposeAccepted(w) \/ Answered(w) \/ Filed(w)
    \/ CountsRamp(w) \/ QueuesDraft(w) \/ Raises(w)

Mailing(p) == Reviewed(p) \/ Refused(p) \/ Sent(p) \/ Dispatched(p) \/ SendLost(p)

Next ==
    \/ \E w \in Workers : ComposeJob(w) \/ ReplyJob(w) \/ Writing(w)
    \/ \E b \in Briefs : BriefPosted(b) \/ \E w \in Workers : SynthesisBegins(w, b)
    \/ \E r \in Replies : ReplyArrives(r) \/ Repeats(r)
    \/ \E p \in Prospects : Mailing(p) \/ Leaves(p)
    \/ \E p \in Prospects, k \in Kinds : Mark(p, k)
    \/ \E s \in Subjects : Resolve(s)
    \/ AuditSentSample

Spec == Init /\ [][Next]_vars

----
Tasks == [subject : Subjects \cup {None}, step : {"idle", "write", "audit", "insert"},
          variant : Variants \cup {None}, tries : Nat, hold : BOOLEAN]

TypeOK ==
    /\ LearningTypeOK
    /\ job \in [Subjects -> {"none", "ready", "running", "done", "dead"}]
    /\ attempts \in [Subjects -> Nat]
    /\ working \in [Workers -> Tasks]
    /\ lock \in [Variants -> Workers \cup {None}]
    /\ touch \in [Prospects -> {"none", "held", "drafted", "sending", "dispatched", "released"}]
    /\ variant \in [Prospects -> Variants \cup {None}]
    /\ ramped \subseteq Prospects /\ left \subseteq Prospects /\ gone \subseteq Prospects
    /\ exchange \subseteq Replies
    /\ outcome \in [Subjects -> SUBSET {"drafted", "answered", "filed", "settled", "escalated"}]
    /\ open \subseteq Subjects
    /\ flagged \subseteq Prospects /\ reported \subseteq Prospects
    /\ failures \in Nat /\ repeats \in Nat /\ audits \in Nat

\* Nothing is dropped in silence: a job that ended without having failed five times has
\* left a draft, an answer, a proposal, a recorded decision or an escalation, unless
\* its prospect is no longer to be written to; and a message that the monitor found
\* ungrounded is named to a human.
NothingDropped ==
    /\ \A s \in Subjects \ gone : job[s] = "done" => outcome[s] # {}
    /\ flagged \subseteq reported

\* The review ramp holds back exactly the first approve_first drafts of a variant,
\* however many workers draft at the same time: "two concurrent drafts cannot both
\* count as the Nth" (sendpath.py:51-52).
RampExact ==
    \A v \in Variants :
        LET n == Cardinality(Drafts(v))
        IN  Cardinality(Drafts(v) \cap ramped) = IF n < ApproveFirst THEN n ELSE ApproveFirst

\* The prospects that are, or are about to be, written to with a variant
Bound(v) == Drafts(v) \cup {p \in Prospects : \E w \in Workers :
                              working[w].subject = p /\ working[w].variant = v}

\* Once a guardrail has paused a variant only what was under way is finished: no
\* further prospect gets a text of it, though its drafts are still sent and its compose
\* transactions still commit.
PausedOnlyDrains == [][\A v \in paused : Bound(v)' \subseteq Bound(v)]_vars
====
