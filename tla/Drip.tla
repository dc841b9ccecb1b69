---- MODULE Drip ----
(***************************************************************************)
(* A prospect's drip from the compose queue on: composing the steps, the   *)
(* review ramp, human tasks, replies and the one agentic answer, exits,    *)
(* no-shows, referrals and forget (core/prospecting.py, sendpath.py,       *)
(* events.py, human_tasks.py, noshow.py, referrals.py, forget.py).         *)
(*                                                                         *)
(* A handler is one transaction and takes one step, or two when it asks a  *)
(* language model between its reads and its writes.  A deliver is one      *)
(* step; SendPath.tla looks inside it.  A job whose handler has committed  *)
(* may run again (JobQueue.tla shows how), and any job may end dead.       *)
(***************************************************************************)
EXTENDS Naturals, FiniteSets

CONSTANTS
    Prospects, Entities, Addresses,
    None,              \* no prospect
    EntityOf,          \* prospects.entity_id
    AddressOf,         \* prospects.email_canonical, until forgotten
    Steps,             \* SequenceSpec.steps
    HumanSteps,        \* SequenceSpec.human_tasks
    Prompted,          \* the persona has follow-up variants
    ApproveFirst,      \* PersonaSpec.approve_first
    ReferralMode,      \* PersonaSpec.referral: "none", "direct" or "on_behalf_of"
    AnnualCap,
    MaxReplies,        \* bound: replies of a prospect
    MaxCopies,         \* bound: touches of one kind and step of a prospect
    MaxRedeliveries,   \* bound: handlers run again after they committed
    MaxEvents          \* bound: events, operator calls and elapsed times

Kinds == {"step", "answer", "reengage", "referral"}
Numbers == 0..(Steps + MaxReplies)

\* A touch is a prospect's n-th step, or answer to its n-th reply, ...; its copies are
\* the touches that several runs of one job made.
Touches == Prospects \X Kinds \X Numbers \X (1..MaxCopies)
Replies == Prospects \X (1..MaxReplies)

\* The jobs, one per idempotency key.  A deliver job is named by its touch.
Queues == {"compose", "classify", "referral", "reengage"}
Jobs == Queues \X Prospects \X Numbers

ASSUME DripAssumption ==
    /\ IsFiniteSet(Prospects) /\ None \notin Prospects
    /\ EntityOf \in [Prospects -> Entities] /\ AddressOf \in [Prospects -> Addresses]
    /\ Steps \in Nat \ {0} /\ HumanSteps \subseteq 0..(Steps - 1)
    /\ Prompted \in BOOLEAN /\ ApproveFirst \in Nat /\ AnnualCap \in Nat
    /\ ReferralMode \in {"none", "direct", "on_behalf_of"}
    /\ MaxReplies \in Nat /\ MaxCopies \in Nat \ {0}
    /\ MaxRedeliveries \in Nat /\ MaxEvents \in Nat

VARIABLES
    pstate,       \* prospects.state, from queued on
    active,       \* the prospect of entities.active_sequence_touch_id
    recent,       \* entities.last_campaign_contact_at is within min_campaign_gap_days
    contacts,     \* entities.touches_12mo
    asked,        \* entities with referral_asked
    suppression,  \* per address: "none", "timed" (expires_at set) or "forever"
    tombstones,   \* addresses in forget_tombstones
    touch,        \* touches.status
    plain,        \* touches with a subject and a body
    reply,        \* replies: "absent", "received", or "scrubbed" of its body
    exchanged,    \* replies with agentic_exchanges = 1
    noshows,      \* audited no-shows per prospect
    job,          \* jobs: "none", "live" (ready or leased), "over" (done or dead)
    run,          \* what a run that waits for its model has read: "idle" if there is
                  \* none, else whether it read an address
    delivers,     \* touches with a live deliver job
    expired,      \* history: addresses a suppression of which has expired
    givenUp,      \* history: prospects whose drip was left where it was
    redeliveries, events

drip == <<pstate, active, recent, contacts, asked>>
mail == <<touch, plain, delivers>>
thread == <<reply, exchanged, noshows>>
lists == <<suppression, tombstones, expired>>
jobs == <<job, run, redeliveries>>
vars == <<pstate, active, recent, contacts, asked, suppression, tombstones, touch, plain,
          reply, exchanged, noshows, job, run, delivers, expired, givenUp, redeliveries, events>>

Init ==
    /\ pstate = [p \in Prospects |-> "queued"]
    /\ active = [e \in Entities |-> None]
    /\ recent = [e \in Entities |-> FALSE]
    /\ contacts = [e \in Entities |-> 0]
    /\ asked = {}
    /\ suppression = [a \in Addresses |-> "none"]
    /\ tombstones = {}
    /\ touch = [t \in Touches |-> "absent"]
    /\ plain = {}
    /\ reply = [r \in Replies |-> "absent"]
    /\ exchanged = {}
    /\ noshows = [p \in Prospects |-> 0]
    /\ job = [j \in Jobs |-> IF j[1] = "compose" /\ j[3] = 0 THEN "live" ELSE "none"]
    /\ run = [j \in Jobs |-> "idle"]
    /\ delivers = {}
    /\ expired = {} /\ givenUp = {}
    /\ redeliveries = 0 /\ events = 0

----------------------------------------------------------------------------
(* Jobs *)

Live(j) == job[j] = "live"
Compose(p, s) == <<"compose", p, s>>

\* enqueue: a key that was ever used is not inserted again.
Enqueued(js) == [j \in Jobs |-> IF j \in js /\ job[j] = "none" THEN "live" ELSE job[j]]
Enqueue(js) == job' = Enqueued(js)

\* The run of j commits, with the jobs it enqueued.  Then j is complete, or its worker
\* dies or is too late, and j runs again: from the start, or from where an overlapping
\* run is.
Commits(j, new) ==
    \/ /\ job' = [Enqueued(new) EXCEPT ![j] = "over"]
       /\ run' = [run EXCEPT ![j] = "idle"]
       /\ UNCHANGED redeliveries
    \/ /\ redeliveries < MaxRedeliveries
       /\ redeliveries' = redeliveries + 1
       /\ Enqueue(new)
       /\ \E again \in {"idle", run[j]} : run' = [run EXCEPT ![j] = again]

\* A run reads, and waits for its model.
Waits(j, seen) ==
    /\ run[j] = "idle"
    /\ run' = [run EXCEPT ![j] = seen]
    /\ UNCHANGED <<job, redeliveries>>

\* A job fails for good; every write of its runs is rolled back.
Dies(j) ==
    /\ Live(j)
    /\ job' = [job EXCEPT ![j] = "over"]
    /\ run' = [run EXCEPT ![j] = "idle"]
    /\ givenUp' = IF j[1] = "compose" THEN givenUp \union {j[2]} ELSE givenUp
    /\ UNCHANGED <<drip, mail, thread, lists, redeliveries, events>>

----------------------------------------------------------------------------
(* Rows *)

Forgotten(p) == pstate[p] = "forgotten"
Suppressed(p) == suppression[AddressOf[p]] # "none" \/ AddressOf[p] \in tombstones

\* release_sequence
Released(p) == [active EXCEPT ![EntityOf[p]] = IF @ = p THEN None ELSE @]

\* A classify run that has cleared the entity's sequence holds the row.
Locked(e) ==
    \E p \in Prospects, n \in 1..MaxReplies :
        EntityOf[p] = e /\ active[e] = p /\ run[<<"classify", p, n>>] # "idle"

\* states.TRANSITIONS, the edges that this module's handlers ask for.
Allowed ==
    [contacted    |-> {"queued"},
     engaged      |-> {"contacted"},
     converted    |-> {"contacted", "engaged"},
     bounced      |-> {"contacted"},
     declined     |-> {"contacted", "engaged"},
     unsubscribed |-> {"contacted", "engaged"}]

\* transition, where a TransitionError is caught: the state stays.
Transition(p, target) ==
    pstate' = [pstate EXCEPT ![p] = IF @ \in Allowed[target] THEN target ELSE @]

\* touches of a kind and number that were drafted
Drafts(p, k, n) == {t \in Touches : t[1] = p /\ t[2] = k /\ t[3] = n /\ touch[t] # "absent"}

\* queue_draft and create_for_step insert a touch of their own, whatever touches the job
\* has made before.
NewTouch(p, k, n, status) ==
    \E c \in 1..MaxCopies :
        LET t == <<p, k, n, c>>
        IN  /\ touch[t] = "absent" /\ \A d \in 1..(c - 1) : touch[<<p, k, n, d>>] # "absent"
            /\ touch' = [touch EXCEPT ![t] = status]
            /\ plain' = plain \union {t}
            /\ delivers' = IF status = "drafted" THEN delivers \union {t} ELSE delivers

----------------------------------------------------------------------------
(* compose *)

\* The review ramp counts the touches of the campaign and variant.
Held(s) == Cardinality({t \in Touches : t[2] = "step" /\ t[3] = s /\ touch[t] # "absent"})
              < ApproveFirst

Composable(p, s) == pstate[p] = IF s = 0 THEN "queued" ELSE "contacted"

\* The prospect is read; a step that has a prompt goes on to the model.
ComposeReads(p, s) ==
    LET j == Compose(p, s)
    IN  /\ Live(j)
        /\ Composable(p, s)
        /\ s \notin HumanSteps /\ (s = 0 \/ Prompted)
        /\ Waits(j, "address")
        /\ UNCHANGED <<drip, mail, thread, lists, givenUp, events>>

ComposeDrafts(p, s) ==
    LET j == Compose(p, s)
    IN  /\ run[j] # "idle"
        /\ NewTouch(p, "step", s, IF Held(s) THEN "pending_review" ELSE "drafted")
        /\ Commits(j, {})
        /\ UNCHANGED <<drip, thread, lists, givenUp, events>>

\* The model's draft fails the validators: an escalation, and no draft.
ComposeEscalates(p, s) ==
    LET j == Compose(p, s)
    IN  /\ run[j] # "idle"
        /\ Commits(j, {})
        /\ givenUp' = givenUp \union {p}
        /\ UNCHANGED <<drip, mail, thread, lists, events>>

\* An off-channel step parks the sequence in a task.
ComposeParks(p, s) ==
    LET j == Compose(p, s)
    IN  /\ Live(j) /\ run[j] = "idle"
        /\ Composable(p, s) /\ s \in HumanSteps
        /\ NewTouch(p, "step", s, "pending_human")
        /\ Commits(j, {})
        /\ UNCHANGED <<drip, thread, lists, givenUp, events>>

\* Mutant: the drip of a prospect that left ends without the release.
ComposeStopsHolding(p, s) ==
    LET j == Compose(p, s)
    IN  /\ Live(j) /\ run[j] = "idle"
        /\ ~Composable(p, s) \/ (s > 0 /\ s \notin HumanSteps /\ ~Prompted)
        /\ Commits(j, {})
        /\ UNCHANGED <<drip, mail, thread, lists, givenUp, events>>

\* A follow-up whose prospect replied or left, or that has no prompt, ends the drip.
ComposeStops(p, s) ==
    LET j == Compose(p, s)
    IN  /\ Live(j) /\ run[j] = "idle"
        /\ ~Composable(p, s) \/ (s > 0 /\ s \notin HumanSteps /\ ~Prompted)
        /\ active' = IF s = 0 THEN active ELSE Released(p)
        /\ (s > 0 /\ active[EntityOf[p]] = p) => ~Locked(EntityOf[p])
        /\ Commits(j, {})
        /\ UNCHANGED <<pstate, recent, contacts, asked, mail, thread, lists, givenUp, events>>

----------------------------------------------------------------------------
(* The review ramp and human tasks *)

GiveUp(t) == givenUp' = IF t[2] = "step" THEN givenUp \union {t[1]} ELSE givenUp

\* Mutant: the deliver job is enqueued and the touch stays on hold.
ApproveUndrafted(t) ==
    /\ touch[t] = "pending_review"
    /\ delivers' = delivers \union {t}
    /\ UNCHANGED <<drip, touch, plain, thread, lists, jobs, givenUp, events>>

\* approve_pending
Approve(t) ==
    /\ touch[t] = "pending_review"
    /\ touch' = [touch EXCEPT ![t] = "drafted"]
    /\ delivers' = delivers \union {t}
    /\ UNCHANGED <<drip, plain, thread, lists, jobs, givenUp, events>>

\* reject_pending
Reject(t) ==
    /\ touch[t] = "pending_review"
    /\ touch' = [touch EXCEPT ![t] = "released"]
    /\ GiveUp(t)
    /\ UNCHANGED <<drip, plain, delivers, thread, lists, jobs, events>>

\* Mutant: an off-channel contact does not count.
TaskDoneUncounted(t) ==
    /\ touch[t] = "pending_human"
    /\ ~Locked(EntityOf[t[1]])
    /\ touch' = [touch EXCEPT ![t] = "sent"]
    /\ recent' = [recent EXCEPT ![EntityOf[t[1]]] = TRUE]
    /\ GiveUp(t)
    /\ UNCHANGED <<pstate, active, contacts, asked, plain, delivers, thread, lists, jobs, events>>

\* resolve(done=True): the contact counts; nothing goes on from here.
TaskDone(t) ==
    LET e == EntityOf[t[1]]
    IN  /\ touch[t] = "pending_human"
        /\ ~Locked(e)
        /\ touch' = [touch EXCEPT ![t] = "sent"]
        /\ recent' = [recent EXCEPT ![e] = TRUE]
        /\ contacts' = [contacts EXCEPT ![e] = @ + 1]
        /\ GiveUp(t)
        /\ UNCHANGED <<pstate, active, asked, plain, delivers, thread, lists, jobs, events>>

\* resolve(done=False), and expire after EXPIRE_DAYS.
TaskEnds(t) ==
    /\ touch[t] = "pending_human"
    /\ touch' = [touch EXCEPT ![t] = "released"]
    /\ GiveUp(t)
    /\ UNCHANGED <<drip, plain, delivers, thread, lists, jobs, events>>

----------------------------------------------------------------------------
(* deliver *)

Volume(t) == t[2] = "step"

\* The deliver job is complete, or is run again after its commit.
DeliverCommits(t) ==
    \/ delivers' = delivers \ {t} /\ UNCHANGED redeliveries
    \/ redeliveries < MaxRedeliveries /\ redeliveries' = redeliveries + 1 /\ UNCHANGED delivers

\* Gate 4: COLD for an opener, FOLLOWUP for a later step.
FrequencyOk(t) ==
    LET e == EntityOf[t[1]]
    IN  /\ ~Locked(e)
        /\ contacts[e] < AnnualCap
        /\ IF t[3] = 0 THEN active[e] = None /\ ~recent[e] ELSE active[e] = t[1]

Sendable(t) == ~Forgotten(t[1]) /\ ~Suppressed(t[1]) /\ (Volume(t) => FrequencyOk(t))

\* _plan_next_step enqueues each compose under the step's key.  The drip of a second opener,
\* sent when the key of a step was used up, stops before that step and keeps the entity.
UsedUp(p) == \E s \in 1..(Steps - 1) : job[Compose(p, s)] = "over"

DeliverSends(t) ==
    LET p == t[1]
        e == EntityOf[p]
        last == t[3] + 1 >= Steps
    IN  /\ t \in delivers /\ touch[t] = "drafted"
        /\ Sendable(t)
        /\ touch' = [touch EXCEPT ![t] = "dispatched"]
        /\ Transition(p, "contacted")
        /\ IF Volume(t)
           THEN /\ active' = [active EXCEPT ![e] = IF last THEN None ELSE p]
                /\ recent' = [recent EXCEPT ![e] = TRUE]
                /\ contacts' = [contacts EXCEPT ![e] = @ + 1]
                /\ Enqueue(IF last THEN {} ELSE {Compose(p, t[3] + 1)})
           ELSE UNCHANGED <<active, recent, contacts, job>>
        /\ givenUp' = IF Volume(t) /\ ~last /\ t[3] = 0 /\ UsedUp(p)
                      THEN givenUp \union {p} ELSE givenUp
        /\ DeliverCommits(t)
        /\ UNCHANGED <<asked, plain, thread, lists, run, events>>

\* A terminal refusal: suppression and frequency, or a content or confidence gate, which
\* may refuse any message.
DeliverReleases(t) ==
    /\ t \in delivers /\ touch[t] = "drafted" /\ ~Forgotten(t[1])
    /\ touch' = [touch EXCEPT ![t] = "released"]
    /\ IF t[3] = 0 THEN UNCHANGED givenUp ELSE GiveUp(t)
    /\ DeliverCommits(t)
    /\ UNCHANGED <<drip, plain, thread, lists, job, run, events>>

\* The touch was dealt with, or the job dies: of a missing address, or after the last of
\* its retryable refusals.
DeliverEnds(t) ==
    /\ t \in delivers
    /\ delivers' = delivers \ {t}
    /\ IF touch[t] = "drafted" THEN GiveUp(t) ELSE UNCHANGED givenUp
    /\ UNCHANGED <<drip, touch, plain, thread, lists, jobs, events>>

----------------------------------------------------------------------------
(* classify *)

Classify(p, n) == <<"classify", p, n>>

\* The handler reads the reply and the address, clears the sequence and asks the model.
ClassifyReads(p, n) ==
    /\ Live(Classify(p, n))
    /\ reply[<<p, n>>] = "received"
    /\ active[EntityOf[p]] = p => ~Locked(EntityOf[p])
    /\ Waits(Classify(p, n), IF Forgotten(p) THEN "noaddress" ELSE "address")
    /\ UNCHANGED <<drip, mail, thread, lists, givenUp, events>>

ClassifyScrubbed(p, n) ==
    /\ Live(Classify(p, n)) /\ run[Classify(p, n)] = "idle"
    /\ reply[<<p, n>>] = "scrubbed"
    /\ Commits(Classify(p, n), {})
    /\ UNCHANGED <<drip, mail, thread, lists, givenUp, events>>

\* The commit of any outcome: the sequence is released, and an interested reply, whatever
\* else is decided about it, asks for a referral.
Classified(p, n, mayRefer) ==
    /\ run[Classify(p, n)] # "idle"
    /\ active' = Released(p)
    /\ \E new \in {{}, {<<"referral", p, 0>>}} :
          (new # {} => mayRefer) /\ Commits(Classify(p, n), new)
    /\ UNCHANGED <<recent, contacts, asked, events, givenUp, reply, noshows, tombstones, expired>>

\* suppress(), or the upsert of a suppression that expires.
List(p, kind) == suppression' = [suppression EXCEPT ![AddressOf[p]] = kind]

ClassifyOptsOut(p, n) ==
    /\ Classified(p, n, FALSE)
    /\ run[Classify(p, n)] = "address"
    /\ List(p, "forever")
    /\ Transition(p, "unsubscribed")
    /\ UNCHANGED <<mail, exchanged>>

\* Mutant: a polite decline is not suppressed.
ClassifyDeclinesUnlisted(p, n) ==
    /\ Classified(p, n, FALSE)
    /\ run[Classify(p, n)] = "address"
    /\ Transition(p, "declined")
    /\ UNCHANGED <<mail, exchanged, suppression>>

\* CLOSE_POLITE_SUPPRESS: twelve months, in place of whatever suppression there was.
ClassifyDeclines(p, n) ==
    /\ Classified(p, n, FALSE)
    /\ run[Classify(p, n)] = "address"
    /\ List(p, "timed")
    /\ Transition(p, "declined")
    /\ UNCHANGED <<mail, exchanged>>

\* Mutant: the exchange is claimed without looking whether it is taken.
ExchangeAlwaysOpen(p, n) == TRUE

ExchangeOpen(p, n) == <<p, n>> \notin exchanged

\* _queue_agentic_reply: the exchange is claimed, then the answer drafted or given up.
ClassifyAnswers(p, n) ==
    /\ Classified(p, n, TRUE)
    /\ ExchangeOpen(p, n)
    /\ exchanged' = exchanged \union {<<p, n>>}
    /\ NewTouch(p, "answer", n, "drafted") \/ UNCHANGED mail
    /\ UNCHANGED <<pstate, suppression>>

\* Escalated, or nothing to do.
ClassifyLeaves(p, n) ==
    /\ Classified(p, n, TRUE)
    /\ UNCHANGED <<mail, pstate, exchanged, suppression>>

----------------------------------------------------------------------------
(* referral and reengage *)

Engaged(p) == pstate[p] \in {"contacted", "engaged", "converted"}

\* Mutant: the flag is set without looking at it.
MayAskAgain(p) == ReferralMode # "none" /\ Engaged(p)

MayAsk(p) == ReferralMode # "none" /\ Engaged(p) /\ EntityOf[p] \notin asked

\* The row lock of the guarded UPDATE is held while the model drafts, so that two runs
\* for one entity exclude each other.
ReferralAsks(p) ==
    LET j == <<"referral", p, 0>>
    IN  /\ Live(j) /\ MayAsk(p) /\ ~Locked(EntityOf[p])
        /\ asked' = asked \union {EntityOf[p]}
        /\ \/ NewTouch(p, "referral", 0, IF ReferralMode = "direct" THEN "drafted"
                                         ELSE "pending_human")
           \/ UNCHANGED mail
        /\ Commits(j, {})
        /\ UNCHANGED <<pstate, active, recent, contacts, thread, lists, givenUp, events>>

ReferralPasses(p) ==
    LET j == <<"referral", p, 0>>
    IN  /\ Live(j) /\ ~MayAsk(p)
        /\ Commits(j, {})
        /\ UNCHANGED <<drip, mail, thread, lists, givenUp, events>>

ReengageReads(p) ==
    LET j == <<"reengage", p, 0>>
    IN  /\ Live(j) /\ Engaged(p)
        /\ Waits(j, "address")
        /\ UNCHANGED <<drip, mail, thread, lists, givenUp, events>>

\* Drafted, or escalated for want of a prompt or of a valid draft.
ReengageDrafts(p) ==
    LET j == <<"reengage", p, 0>>
    IN  /\ run[j] # "idle"
        /\ NewTouch(p, "reengage", 0, "drafted") \/ UNCHANGED mail
        /\ Commits(j, {})
        /\ UNCHANGED <<drip, thread, lists, givenUp, events>>

ReengagePasses(p) ==
    LET j == <<"reengage", p, 0>>
    IN  /\ Live(j) /\ run[j] = "idle" /\ ~Engaged(p)
        /\ Commits(j, {})
        /\ UNCHANGED <<drip, mail, thread, lists, givenUp, events>>

----------------------------------------------------------------------------
(* Events, conversions, no-shows, operators and time *)

Event == events < MaxEvents /\ events' = events + 1

Contacted(p) == \E t \in Touches : t[1] = p /\ touch[t] = "dispatched"

\* _act, REPLY: the prospect's next reply.  Whoever was forgotten may still answer.
Reply(p) ==
    \E n \in 1..MaxReplies :
        /\ Event
        /\ Contacted(p)
        /\ reply[<<p, n>>] = "absent" /\ \A m \in 1..(n - 1) : reply[<<p, m>>] # "absent"
        /\ reply' = [reply EXCEPT ![<<p, n>>] = "received"]
        /\ Enqueue({Classify(p, n)})
        /\ Transition(p, "engaged")
        /\ UNCHANGED <<active, recent, contacts, asked, mail, exchanged, noshows, lists,
                       run, redeliveries, givenUp>>

\* _act, BOUNCE, COMPLAINT and UNSUBSCRIBE: the prospect leaves, but its sequence stays.
Exits(p) ==
    /\ Event
    /\ Contacted(p)
    /\ IF Forgotten(p) THEN UNCHANGED suppression ELSE List(p, "forever")
    /\ \E target \in {"bounced", "declined", "unsubscribed"} : Transition(p, target)
    /\ UNCHANGED <<active, recent, contacts, asked, mail, thread, tombstones, expired, jobs,
                   givenUp>>

\* record_conversion
Converts(p) ==
    /\ Event
    /\ Contacted(p)
    /\ pstate[p] \in Allowed.converted
    /\ Transition(p, "converted")
    /\ Enqueue({<<"referral", p, 0>>})
    /\ UNCHANGED <<active, recent, contacts, asked, mail, thread, lists, run, redeliveries,
                   givenUp>>

\* process_no_show: the first one plans the one re-engagement, a later one closes.
NoShow(p) ==
    /\ Event
    /\ Engaged(p)
    /\ noshows' = [noshows EXCEPT ![p] = @ + 1]
    /\ IF noshows[p] = 0
       THEN Enqueue({<<"reengage", p, 0>>}) /\ UNCHANGED <<pstate, suppression>>
       ELSE List(p, "timed") /\ Transition(p, "declined") /\ UNCHANGED job
    /\ UNCHANGED <<active, recent, contacts, asked, mail, reply, exchanged, tombstones,
                   expired, run, redeliveries, givenUp>>

\* forget: one transaction over the entity's prospects.  It waits for a classify run that
\* holds the entity, or one of the two is rolled back.
Forget(e) ==
    LET own == {p \in Prospects : EntityOf[p] = e}
        gone == {AddressOf[p] : p \in {q \in own : ~Forgotten(q)}}
    IN  /\ Event
        /\ \E p \in own : ~Forgotten(p)
        /\ ~Locked(e)
        /\ tombstones' = tombstones \union gone
        /\ plain' = {t \in plain : t[1] \notin own}
        /\ reply' = [r \in Replies |-> IF r[1] \in own /\ reply[r] # "absent"
                                       THEN "scrubbed" ELSE reply[r]]
        /\ pstate' = [p \in Prospects |-> IF p \in own THEN "forgotten" ELSE pstate[p]]
        /\ suppression' = [a \in Addresses |-> IF a \in gone THEN "none" ELSE suppression[a]]
        /\ UNCHANGED <<active, recent, contacts, asked, touch, delivers, exchanged, noshows,
                       expired, jobs, givenUp>>

\* min_campaign_gap_days pass.
GapElapses(e) ==
    /\ Event
    /\ recent[e]
    /\ recent' = [recent EXCEPT ![e] = FALSE]
    /\ UNCHANGED <<pstate, active, contacts, asked, mail, thread, lists, jobs, givenUp>>

SuppressionExpires(a) ==
    /\ Event
    /\ suppression[a] = "timed"
    /\ suppression' = [suppression EXCEPT ![a] = "none"]
    /\ expired' = expired \union {a}
    /\ UNCHANGED <<drip, mail, thread, tombstones, jobs, givenUp>>

----------------------------------------------------------------------------

ComposeStep(p, s) ==
    \/ ComposeReads(p, s) \/ ComposeDrafts(p, s) \/ ComposeEscalates(p, s)
    \/ ComposeParks(p, s) \/ ComposeStops(p, s)

ClassifyStep(p, n) ==
    \/ ClassifyReads(p, n) \/ ClassifyScrubbed(p, n) \/ ClassifyOptsOut(p, n)
    \/ ClassifyDeclines(p, n) \/ ClassifyAnswers(p, n) \/ ClassifyLeaves(p, n)

DeliverStep(t) == DeliverSends(t) \/ DeliverReleases(t) \/ DeliverEnds(t)

Next ==
    \/ \E p \in Prospects, s \in 0..(Steps - 1) : ComposeStep(p, s)
    \/ \E p \in Prospects, n \in 1..MaxReplies : ClassifyStep(p, n)
    \/ \E t \in Touches : DeliverStep(t) \/ Approve(t) \/ Reject(t) \/ TaskDone(t) \/ TaskEnds(t)
    \/ \E p \in Prospects :
          \/ ReferralAsks(p) \/ ReferralPasses(p)
          \/ ReengageReads(p) \/ ReengageDrafts(p) \/ ReengagePasses(p)
          \/ Reply(p) \/ Exits(p) \/ Converts(p) \/ NoShow(p)
    \/ \E e \in Entities : Forget(e) \/ GapElapses(e)
    \/ \E a \in Addresses : SuppressionExpires(a)
    \/ \E j \in Jobs : Dies(j)

Spec == Init /\ [][Next]_vars

\* The workers run what is ready, and its outcome, an answer or an error, arrives.  Events
\* and humans owe nothing.
FairSpec ==
    /\ Spec
    /\ \A p \in Prospects, s \in 0..(Steps - 1) :
          WF_vars(ComposeStep(p, s) \/ Dies(Compose(p, s)))
    /\ \A p \in Prospects, n \in 1..MaxReplies :
          WF_vars(ClassifyStep(p, n) \/ Dies(Classify(p, n)))
    /\ \A t \in Touches : WF_vars(DeliverStep(t))

\* As FairSpec, and an operator opens the task list every now and then, which expires
\* what is overdue.
TendedSpec == FairSpec /\ \A t \in Touches : WF_vars(TaskEnds(t))

----------------------------------------------------------------------------

ProspectStates == DOMAIN Allowed \union {"queued", "forgotten"}
TouchStates == {"absent", "drafted", "pending_review", "pending_human", "dispatched",
                "sent", "released"}

RowsType ==
    /\ pstate \in [Prospects -> ProspectStates]
    /\ active \in [Entities -> Prospects \union {None}]
    /\ recent \in [Entities -> BOOLEAN]
    /\ contacts \in [Entities -> Nat]
    /\ asked \subseteq Entities
    /\ suppression \in [Addresses -> {"none", "timed", "forever"}]
    /\ tombstones \subseteq Addresses /\ expired \subseteq Addresses
    /\ reply \in [Replies -> {"absent", "received", "scrubbed"}]
    /\ exchanged \subseteq Replies
    /\ noshows \in [Prospects -> Nat]
    /\ givenUp \subseteq Prospects
    /\ events \in 0..MaxEvents

MailType ==
    /\ touch \in [Touches -> TouchStates]
    /\ plain \subseteq Touches
    /\ delivers \subseteq {t \in Touches : touch[t] \notin {"absent", "pending_review"}}

JobsType ==
    /\ job \in [Jobs -> {"none", "live", "over"}]
    /\ run \in [Jobs -> {"idle", "address", "noaddress"}]
    /\ \A j \in Jobs : run[j] # "idle" => Live(j)
    /\ redeliveries \in 0..MaxRedeliveries

\* Every variable has its type; a delivery is of a touch that was drafted, and a run is
\* of a job that is live.
TypeOK == RowsType /\ MailType /\ JobsType

\* An entity is asked for a referral once, however many of its prospects had however many
\* positive events, and however often the jobs ran (process_positive_event).
AskedOnce ==
    \A e \in Entities :
        Cardinality({t \in Touches : t[2] = "referral" /\ EntityOf[t[1]] = e
                                     /\ touch[t] # "absent"}) <= 1

\* A reply gets one agentic answer, however often its classify job ran, runs that overlap
\* included (replies.agentic_exchanges).
AnsweredOnce == \A p \in Prospects, n \in 1..MaxReplies : Cardinality(Drafts(p, "answer", n)) <= 1

\* A prospect that bounced, declined or opted out is suppressed until a suppression of
\* its address expires: no order of events, replies and no-shows leaves an exit unlisted.
ExitsSuppressed ==
    \A p \in Prospects :
        pstate[p] \in {"bounced", "declined", "unsubscribed"}
            => Suppressed(p) \/ AddressOf[p] \in expired

\* What keeps the drip of p alive: a compose or classify job to come, a step on its way,
\* or a human's decision.
OnHuman(p) == \E t \in Touches :
    t[1] = p /\ t[2] = "step" /\ touch[t] \in {"pending_review", "pending_human"}

Moving(p) ==
    \/ \E s \in 1..(Steps - 1) : Live(Compose(p, s))
    \/ \E n \in 1..MaxReplies : Live(Classify(p, n))
    \/ \E t \in delivers : t[1] = p /\ t[2] = "step" /\ touch[t] = "drafted"

\* While a prospect holds its entity, something will release it, but for the ways a
\* drip is left where it was: every path of the handlers that ends a drip calls
\* release_sequence.
DripAccounted ==
    \A e \in Entities :
        active[e] # None => Moving(active[e]) \/ OnHuman(active[e]) \/ active[e] \in givenUp

\* touches_12mo counts exactly the volume sends and the tasks done: what a human did
\* off-channel counts as an email does (I-7), and nothing counts twice.
ContactsCounted ==
    \A e \in Entities :
        contacts[e] = Cardinality({t \in Touches :
            /\ EntityOf[t[1]] = e
            /\ touch[t] = "sent" \/ (Volume(t) /\ touch[t] = "dispatched")})

\* A prospect's row moves as core/states.py allows, whichever handlers overlap (each asks
\* for a transition of its own; forget asks for none).
Life == INSTANCE Lifecycle WITH state <- pstate
FollowsLifecycle == [][Life!Next]_pstate

\* A prospect that holds its entity lets go of it in the end, unless its drip was left
\* where it was or waits for a human (release_sequence on reply, exit and completion).
DripEnds ==
    \A p \in Prospects :
        active[EntityOf[p]] = p ~> (active[EntityOf[p]] # p \/ p \in givenUp \/ OnHuman(p))

----------------------------------------------------------------------------
(* What the documents say, and the code does not do *)

\* "Every handler must be safe to re-run": a step of a drip leaves once.
StepOnce ==
    \A p \in Prospects, s \in 0..(Steps - 1) :
        Cardinality({t \in Drafts(p, "step", s) : touch[t] = "dispatched"}) <= 1

\* I-6: after forget, no content and no address of the prospect is stored.
ForgottenStaysScrubbed ==
    \A p \in Prospects : Forgotten(p) =>
        /\ \A t \in plain : t[1] # p
        /\ \A n \in 1..MaxReplies : reply[<<p, n>>] # "received"
        /\ suppression[AddressOf[p]] = "none"

\* "Tasks expire into skipped so a forgotten task cannot park a prospect forever."
TaskNeverParks ==
    \A p \in Prospects :
        (active[EntityOf[p]] = p /\ OnHuman(p))
            ~> (active[EntityOf[p]] # p \/ Moving(p))
====
