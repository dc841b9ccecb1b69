---- MODULE SendPath ----
(***************************************************************************)
(* The outbound send path: the deliver handler (core/sendpath.py), the     *)
(* Gatekeeper's gates in their pinned order (core/gatekeeper.py) and the   *)
(* Postgres gate store (core/store_pg.py), run by concurrent workers.      *)
(*                                                                         *)
(* A deliver is one READ COMMITTED transaction.  The variables hold        *)
(* committed data only; what a transaction wrote and has not committed is  *)
(* told by its worker's pc and box, and published in one step at commit.   *)
(* `lock` is the row locks, all held to the end of the transaction.  Other *)
(* transactions (halt, suppress, forget, classify, the queue's own) are    *)
(* short and take one step.                                                *)
(***************************************************************************)
EXTENDS Naturals, FiniteSets, Functions

CONSTANTS
    Touches, Prospects, Entities, Cohorts, Mailboxes, Workers,
    None,            \* no touch, no mailbox, no holder
    TenantRow,       \* the tenant_month counter row
    ProspectOf,      \* touches.prospect_id
    EntityOf,        \* prospects.entity_id
    CohortOf,        \* prospects.cohort_id
    Kind,            \* touches.kind: "cold", "followup" or "agentic_reply"
    Step,            \* touches.step_index
    Steps,           \* SequenceSpec.steps of the tenant's persona
    Invalid,         \* touches whose body fails the re-run validators
    Unverified,      \* prospects whose email_confidence is not 'verified'
    TenantCap, CohortCap, BoxCap, AnnualCap,
    MaxAttempts,     \* jobs.max_attempts of the deliver jobs
    MaxReaps,        \* bound: leases of deliver jobs that expire
    MaxCrashes,      \* bound: worker crashes
    MaxIncidents     \* bound: halts, suppressions, forgets and elapsed gaps

Rows == Touches \union Entities \union Mailboxes \union {TenantRow}

ASSUME ConstantsAssumption ==
    /\ IsFiniteSet(Touches) /\ IsFiniteSet(Workers) /\ IsFiniteSet(Mailboxes)
    /\ None \notin Rows \union Workers
    /\ TenantRow \notin Touches \union Entities \union Mailboxes
    /\ Touches \intersect Entities = {}
    /\ Touches \intersect Mailboxes = {}
    /\ Entities \intersect Mailboxes = {}
    /\ ProspectOf \in [Touches -> Prospects]
    /\ EntityOf \in [Prospects -> Entities]
    /\ CohortOf \in [Prospects -> Cohorts]
    /\ Kind \in [Touches -> {"cold", "followup", "agentic_reply"}]
    /\ Step \in [Touches -> Nat] /\ Steps \in Nat
    /\ Invalid \subseteq Touches /\ Unverified \subseteq Prospects
ASSUME CapsAssumption ==
    /\ TenantCap \in Nat /\ CohortCap \in [Cohorts -> Nat]
    /\ BoxCap \in [Mailboxes -> Nat] /\ AnnualCap \in Nat
ASSUME BoundsAssumption ==
    /\ MaxAttempts \in Nat \ {0} /\ MaxReaps \in Nat
    /\ MaxCrashes \in Nat /\ MaxIncidents \in Nat

VARIABLES
    \* tables
    touch,           \* touches.status ("absent" before the row exists)
    pstate,          \* prospects.state, from queued on
    active,          \* entities.active_sequence_touch_id
    recent,          \* entities.last_campaign_contact_at is within min_campaign_gap_days
    contacts,        \* entities.touches_12mo
    tenantUsed, cohortUsed, boxUsed,   \* counters.used
    halted,          \* a control_flags row covers the tenant
    suppressed,      \* prospects whose address has a live suppression
    planned,         \* <<prospect, step>> of the compose jobs enqueued
    job, tries,      \* jobs: status and attempts of each touch's deliver job
    lock,            \* row locks
    \* per worker
    pc, cur, att,    \* step of the handler, its touch, job.attempts at lease time
    snap,            \* the active sequence in the snapshot of gate 4's statement
    box,             \* the mailbox picked
    \* the outside world and history
    sends,           \* messages the provider accepted, per touch
    records,         \* dispatches committed, per touch
    lost,            \* messages sent whose transaction then did not commit
    leaked,          \* mailbox slots committed without a dispatch
    haltSends,       \* messages sent since the current halt was set
    reaps, crashes, incidents

tables == <<touch, pstate, active, recent, contacts, tenantUsed, cohortUsed, boxUsed, planned>>
flags == <<halted, suppressed>>
queue == <<job, tries>>
workers == <<pc, cur, att, snap, box>>
world == <<sends, records, lost, leaked, haltSends>>
bounds == <<reaps, crashes, incidents>>
vars == <<touch, pstate, active, recent, contacts, tenantUsed, cohortUsed, boxUsed, planned,
          halted, suppressed, job, tries, lock, pc, cur, att, snap, box,
          sends, records, lost, leaked, haltSends, reaps, crashes, incidents>>

\* The steps of the transaction, and what _handle does after it.
Gates == {"status", "load", "halt", "screen", "frequency", "entity", "budget",
          "mailbox", "confidence", "persist"}
InTxn == Gates \union {"send", "record", "release"}
AfterTxn == {"ack", "retry", "reject"}
PC == {"idle"} \union InTxn \union AfterTxn

Entity(t) == EntityOf[ProspectOf[t]]
Cohort(t) == CohortOf[ProspectOf[t]]

\* GateProfile.COLD and FOLLOWUP: what the volume gates apply to.
Volume(t) == Kind[t] # "agentic_reply"

TouchesOf(p) == {t \in Touches : ProspectOf[t] = p}

Init ==
    /\ touch = [t \in Touches |-> IF Kind[t] = "cold" THEN "drafted" ELSE "absent"]
    /\ pstate = [p \in Prospects |-> "queued"]
    /\ active = [e \in Entities |-> None]
    /\ recent = [e \in Entities |-> FALSE]
    /\ contacts = [e \in Entities |-> 0]
    /\ tenantUsed = 0
    /\ cohortUsed = [c \in Cohorts |-> 0]
    /\ boxUsed = [m \in Mailboxes |-> 0]
    /\ halted = FALSE
    /\ suppressed = {}
    /\ planned = {}
    /\ job = [t \in Touches |-> IF Kind[t] = "cold" THEN "ready" ELSE "absent"]
    /\ tries = [t \in Touches |-> 0]
    /\ lock = [r \in Rows |-> None]
    /\ pc = [w \in Workers |-> "idle"]
    /\ cur = [w \in Workers |-> None]
    /\ att = [w \in Workers |-> 0]
    /\ snap = [w \in Workers |-> None]
    /\ box = [w \in Workers |-> None]
    /\ sends = [t \in Touches |-> 0]
    /\ records = [t \in Touches |-> 0]
    /\ lost = [t \in Touches |-> 0]
    /\ leaked = 0
    /\ haltSends = 0
    /\ reaps = 0 /\ crashes = 0 /\ incidents = 0

----------------------------------------------------------------------------
(* Transactions *)

\* Mutant: a plain SELECT, without FOR UPDATE.
CanAlwaysLock(w, r) == TRUE

\* The row is free or already this worker's: a statement that needs it does not wait.
CanLock(w, r) == lock[r] \in {None, w}

Goto(w, step) == pc' = [pc EXCEPT ![w] = step]

\* Mutant: a refused transaction stays open on its connection.
EndTxnHoldingLocks(w, outcome) ==
    /\ Goto(w, outcome)
    /\ lock' = [r \in Rows |-> IF lock[r] = w /\ outcome # "retry" THEN None ELSE lock[r]]
    /\ snap' = [snap EXCEPT ![w] = None]
    /\ box' = [box EXCEPT ![w] = None]

\* Commit and rollback free the row locks and the transaction's private state.
EndTxn(w, outcome) ==
    /\ Goto(w, outcome)
    /\ lock' = [r \in Rows |-> IF lock[r] = w THEN None ELSE lock[r]]
    /\ snap' = [snap EXCEPT ![w] = None]
    /\ box' = [box EXCEPT ![w] = None]

----------------------------------------------------------------------------
(* The queue around the handler: JobQueue.tla, reduced to what delivers need *)

Lease(w, t) ==
    /\ pc[w] = "idle"
    /\ job[t] = "ready"
    /\ job' = [job EXCEPT ![t] = "leased"]
    /\ tries' = [tries EXCEPT ![t] = @ + 1]
    /\ Goto(w, "status")
    /\ cur' = [cur EXCEPT ![w] = t]
    /\ att' = [att EXCEPT ![w] = tries[t] + 1]
    /\ UNCHANGED <<tables, flags, lock, snap, box, world, bounds>>

Reap(t) ==
    /\ job[t] = "leased"
    /\ reaps < MaxReaps
    /\ reaps' = reaps + 1
    /\ job' = [job EXCEPT ![t] = "ready"]
    /\ UNCHANGED <<tables, flags, tries, lock, workers, world, crashes, incidents>>

\* Mutant: a status JobStatus does not have.
OutcomeFailed(w) == IF pc[w] = "ack" THEN "done" ELSE "failed"

Outcome(w) ==
    IF pc[w] = "ack" THEN "done"
    ELSE IF pc[w] = "reject" \/ att[w] >= MaxAttempts THEN "dead"
    ELSE "ready"

\* complete() or fail(), in a transaction of its own.
Settle(w) ==
    /\ pc[w] \in AfterTxn
    /\ job' = [job EXCEPT ![cur[w]] = Outcome(w)]
    /\ Goto(w, "idle")
    /\ cur' = [cur EXCEPT ![w] = None]
    /\ att' = [att EXCEPT ![w] = 0]
    /\ UNCHANGED <<tables, flags, tries, lock, snap, box, world, bounds>>

\* A message accepted by the provider whose transaction ends without a commit.
LoseSend(w) ==
    lost' = IF pc[w] = "record" THEN [lost EXCEPT ![cur[w]] = @ + 1] ELSE lost

\* The process dies: Postgres rolls its transaction back.
Crash(w) ==
    /\ pc[w] # "idle"
    /\ crashes < MaxCrashes
    /\ crashes' = crashes + 1
    /\ LoseSend(w)
    /\ EndTxn(w, "idle")
    /\ cur' = [cur EXCEPT ![w] = None]
    /\ att' = [att EXCEPT ![w] = 0]
    /\ UNCHANGED <<tables, flags, queue, sends, records, leaked, haltSends, reaps, incidents>>

\* Any statement, the provider or the commit fails.
TxnError(w) ==
    /\ pc[w] \in InTxn
    /\ LoseSend(w)
    /\ EndTxn(w, "retry")
    /\ UNCHANGED <<tables, flags, queue, cur, att, sends, records, leaked, haltSends, bounds>>

----------------------------------------------------------------------------
(* deliver(): the reads before the claim *)

\* A read of worker w's transaction: it only moves on.
Continue(w, to) ==
    /\ Goto(w, to)
    /\ UNCHANGED <<tables, flags, queue, lock, cur, att, snap, box, world, bounds>>

\* The transaction ends without a write.
Leave(w, outcome) ==
    /\ EndTxn(w, outcome)
    /\ UNCHANGED <<tables, flags, queue, cur, att, world, bounds>>

\* A redelivered touch that has gone out is a no-op; any other undrafted one is an error.
ReadStatus(w) ==
    /\ pc[w] = "status"
    /\ \/ touch[cur[w]] = "drafted" /\ Continue(w, "load")
       \/ touch[cur[w]] = "dispatched" /\ Leave(w, "ack")
       \/ touch[cur[w]] \notin {"drafted", "dispatched"} /\ Leave(w, "reject")

\* _load_gate_draft reads the status again, in a statement of its own, and the address,
\* which a forget has nulled.
Loadable(t) == touch[t] = "drafted" /\ pstate[ProspectOf[t]] # "forgotten"

LoadGateDraft(w) ==
    /\ pc[w] = "load"
    /\ \/ Loadable(cur[w]) /\ Continue(w, "halt")
       \/ ~Loadable(cur[w]) /\ Leave(w, "reject")

----------------------------------------------------------------------------
(* claim(): the gates *)

\* Mutant: gate 1 is skipped.
NoGateHalt(w) == pc[w] = "halt" /\ Continue(w, "screen")

\* Gate 1: a halt is refused for now.
GateHalt(w) ==
    /\ pc[w] = "halt"
    /\ \/ ~halted /\ Continue(w, "screen")
       \/ halted /\ Leave(w, "retry")

\* Gates 2 and 3: content and suppression are refused for good.  forget leaves a
\* tombstone that suppresses the address.
Suppressed(p) == p \in suppressed \/ pstate[p] = "forgotten"

Sendable(t) == t \notin Invalid /\ ~Suppressed(ProspectOf[t])

GateScreen(w) ==
    /\ pc[w] = "screen"
    /\ \/ Sendable(cur[w]) /\ Continue(w, IF Volume(cur[w]) THEN "frequency" ELSE "mailbox")
       \/ ~Sendable(cur[w]) /\ Continue(w, "release")

\* Gate 4 locks the entity row.  Its statement's snapshot is taken when it starts ...
GateFrequency(w) ==
    /\ pc[w] = "frequency"
    /\ snap' = [snap EXCEPT ![w] = active[Entity(cur[w])]]
    /\ Goto(w, "entity")
    /\ UNCHANGED <<tables, flags, queue, lock, cur, att, box, world, bounds>>

\* Mutant: the gap is not looked at.
FrequencyOkNoGap(t) == active[Entity(t)] = None /\ contacts[Entity(t)] < AnnualCap

\* Mutant: the annual cap is off by one.
FrequencyOkOneMore(t) ==
    active[Entity(t)] = None /\ ~recent[Entity(t)] /\ contacts[Entity(t)] <= AnnualCap

FrequencyOk(t) ==
    LET e == Entity(t)
    IN  active[e] = None /\ ~recent[e] /\ contacts[e] < AnnualCap

\* READ COMMITTED checks the row again after a wait, but not the touch it was joined
\* to: when the active sequence moved on meanwhile, the join finds no prospect.
ContinuationOk(t, seen) ==
    LET e == Entity(t)
    IN  /\ active[e] = seen
        /\ active[e] \in TouchesOf(ProspectOf[t])
        /\ contacts[e] < AnnualCap

\* ... and its verdict is on the row as it is once the lock is granted.
GateEntity(w) ==
    LET t  == cur[w]
        ok == IF Kind[t] = "cold" THEN FrequencyOk(t) ELSE ContinuationOk(t, snap[w])
    IN  /\ pc[w] = "entity"
        /\ CanLock(w, Entity(t))
        /\ lock' = [lock EXCEPT ![Entity(t)] = w]
        /\ Goto(w, IF ok THEN "budget" ELSE "release")
        /\ UNCHANGED <<tables, flags, queue, cur, att, snap, box, world, bounds>>

\* Gate 5: two guarded increments, the tenant's and the cohort's.  The tenant row, locked
\* from here to the end, keeps every other deliver of the tenant from the cohort row.
\* Mutant: off by one.
BudgetLeftOneMore(t) == tenantUsed <= TenantCap /\ cohortUsed[Cohort(t)] <= CohortCap[Cohort(t)]

BudgetLeft(t) == tenantUsed < TenantCap /\ cohortUsed[Cohort(t)] < CohortCap[Cohort(t)]

GateBudget(w) ==
    /\ pc[w] = "budget"
    /\ CanLock(w, TenantRow)
    /\ \/ /\ BudgetLeft(cur[w])
          /\ lock' = [lock EXCEPT ![TenantRow] = w]
          /\ Goto(w, "mailbox")
          /\ UNCHANGED <<tables, flags, queue, cur, att, snap, box, world, bounds>>
       \/ ~BudgetLeft(cur[w]) /\ Leave(w, "retry")

\* Gate 6: the least used mailbox under its cap, among those no other transaction has
\* locked (SKIP LOCKED).
FreeBoxes == {m \in Mailboxes : boxUsed[m] < BoxCap[m] /\ lock[m] = None}

GateMailbox(w) ==
    /\ pc[w] = "mailbox"
    /\ \/ /\ \E m \in FreeBoxes :
                /\ \A n \in FreeBoxes : boxUsed[m] <= boxUsed[n]
                /\ box' = [box EXCEPT ![w] = m]
                /\ lock' = [lock EXCEPT ![m] = w]
          /\ Goto(w, "confidence")
          /\ UNCHANGED <<tables, flags, queue, cur, att, snap, world, bounds>>
       \/ FreeBoxes = {} /\ Leave(w, "retry")

\* Gate 7: looked up by address, which a forgotten prospect no longer has.  A refusal
\* gives the budget back, not the mailbox slot.
\* Mutant: the confidence is looked up by prospect.
VerifiedById(p) == p \notin Unverified

Verified(p) == p \notin Unverified /\ pstate[p] # "forgotten"

GateConfidence(w) ==
    /\ pc[w] = "confidence"
    /\ \/ Verified(ProspectOf[cur[w]]) /\ Continue(w, "persist")
       \/ ~Verified(ProspectOf[cur[w]]) /\ Continue(w, "release")

\* Gate 8: the guarded UPDATE to 'claimed', and the trigger that reads the suppressions
\* by the prospect's current address (a forgotten prospect has none).
\* Mutant: the UPDATE lacks its guard on the status.
ClaimableAgain(t) == pstate[ProspectOf[t]] = "forgotten" \/ ProspectOf[t] \notin suppressed

Claimable(t) ==
    /\ touch[t] = "drafted"
    /\ pstate[ProspectOf[t]] = "forgotten" \/ ProspectOf[t] \notin suppressed

PersistClaim(w) ==
    /\ pc[w] = "persist"
    /\ CanLock(w, cur[w])
    /\ \/ /\ Claimable(cur[w])
          /\ lock' = [lock EXCEPT ![cur[w]] = w]
          /\ Goto(w, "send")
          /\ UNCHANGED <<tables, flags, queue, cur, att, snap, box, world, bounds>>
       \/ ~Claimable(cur[w]) /\ Leave(w, "retry")

----------------------------------------------------------------------------
(* deliver(): after the claim *)

\* The provider accepts the message; nothing can take it back.
Send(w) ==
    /\ pc[w] = "send"
    /\ sends' = [sends EXCEPT ![cur[w]] = @ + 1]
    /\ haltSends' = IF halted THEN haltSends + 1 ELSE haltSends
    /\ Goto(w, "record")
    /\ UNCHANGED <<tables, flags, queue, lock, cur, att, snap, box, records, lost, leaked, bounds>>

\* _plan_next_step: the next step's compose job, or release_sequence after the last one.
LastStep(t) == Step[t] + 1 >= Steps

\* Everything the claim and the dispatch wrote commits at once.
RecordDispatch(w) ==
    LET t == cur[w]
        p == ProspectOf[t]
    IN  /\ pc[w] = "record"
        /\ touch' = [touch EXCEPT ![t] = "dispatched"]
        /\ pstate' = [pstate EXCEPT ![p] = IF @ = "queued" THEN "contacted" ELSE @]
        /\ boxUsed' = [boxUsed EXCEPT ![box[w]] = @ + 1]
        /\ IF Volume(t)
           THEN /\ active' = [active EXCEPT ![Entity(t)] = IF LastStep(t) THEN None ELSE t]
                /\ recent' = [recent EXCEPT ![Entity(t)] = TRUE]
                /\ contacts' = [contacts EXCEPT ![Entity(t)] = @ + 1]
                /\ tenantUsed' = tenantUsed + 1
                /\ cohortUsed' = [cohortUsed EXCEPT ![Cohort(t)] = @ + 1]
                /\ planned' = IF LastStep(t) THEN planned ELSE planned \union {<<p, Step[t] + 1>>}
           ELSE UNCHANGED <<active, recent, contacts, tenantUsed, cohortUsed, planned>>
        /\ records' = [records EXCEPT ![t] = @ + 1]
        /\ EndTxn(w, "ack")
        /\ UNCHANGED <<flags, queue, cur, att, sends, lost, leaked, haltSends, bounds>>

\* Mutant: a refusal after gate 5 does not give the budget back.
ReleaseKeepingBudget(w) ==
    /\ pc[w] = "release"
    /\ CanLock(w, cur[w])
    /\ touch' = [touch EXCEPT ![cur[w]] = "released"]
    /\ IF box[w] = None
       THEN UNCHANGED <<boxUsed, leaked, tenantUsed>>
       ELSE /\ boxUsed' = [boxUsed EXCEPT ![box[w]] = @ + 1]
            /\ leaked' = leaked + 1
            /\ tenantUsed' = tenantUsed + 1
    /\ EndTxn(w, "ack")
    /\ UNCHANGED <<pstate, active, recent, contacts, cohortUsed, planned, flags,
                   queue, cur, att, sends, records, lost, haltSends, bounds>>

\* A terminal refusal commits the release, whatever the status has become by the time
\* the row is free, and with it the mailbox slot if gate 6 took one.
Release(w) ==
    /\ pc[w] = "release"
    /\ CanLock(w, cur[w])
    /\ touch' = [touch EXCEPT ![cur[w]] = "released"]
    /\ IF box[w] = None
       THEN UNCHANGED <<boxUsed, leaked>>
       ELSE boxUsed' = [boxUsed EXCEPT ![box[w]] = @ + 1] /\ leaked' = leaked + 1
    /\ EndTxn(w, "ack")
    /\ UNCHANGED <<pstate, active, recent, contacts, tenantUsed, cohortUsed, planned, flags,
                   queue, cur, att, sends, records, lost, haltSends, bounds>>

----------------------------------------------------------------------------
(* Everybody else *)

\* queue_draft, from compose (a follow-up whose job is due, of a prospect that has not
\* replied) or from the reply handler.  The ramp's hold is in the drip model's scope.
QueueDraft(t) ==
    LET p == ProspectOf[t]
    IN  /\ touch[t] = "absent"
        /\ \/ Kind[t] = "followup" /\ <<p, Step[t]>> \in planned /\ pstate[p] = "contacted"
           \/ Kind[t] = "agentic_reply" /\ pstate[p] = "engaged"
        /\ touch' = [touch EXCEPT ![t] = "drafted"]
        /\ job' = [job EXCEPT ![t] = "ready"]
        /\ UNCHANGED <<pstate, active, recent, contacts, tenantUsed, cohortUsed, boxUsed, planned,
                       flags, tries, lock, workers, world, bounds>>

\* A REPLY event moves the prospect to engaged.
IngestReply(p) ==
    /\ pstate[p] = "contacted"
    /\ pstate' = [pstate EXCEPT ![p] = "engaged"]
    /\ UNCHANGED <<touch, active, recent, contacts, tenantUsed, cohortUsed, boxUsed, planned,
                   flags, queue, lock, workers, world, bounds>>

\* release_sequence, which waits for the entity row: from the classify job of a reply, or
\* from the compose job of a step whose prospect is no longer contacted.
ReleaseSequence(p) ==
    LET e == EntityOf[p]
    IN  /\ \/ pstate[p] = "engaged"
           \/ pstate[p] = "forgotten" /\ \E s \in 1..Steps : <<p, s>> \in planned
        /\ lock[e] = None
        /\ active[e] \in TouchesOf(p)
        /\ active' = [active EXCEPT ![e] = None]
        /\ UNCHANGED <<touch, pstate, recent, contacts, tenantUsed, cohortUsed, boxUsed, planned,
                       flags, queue, lock, workers, world, bounds>>

Incident ==
    /\ incidents < MaxIncidents
    /\ incidents' = incidents + 1
    /\ UNCHANGED <<reaps, crashes>>

\* control.halt and control.resume take no lock a deliver holds, and none a deliver takes.
Halt ==
    /\ ~halted
    /\ halted' = TRUE
    /\ haltSends' = 0
    /\ Incident
    /\ UNCHANGED <<tables, suppressed, queue, lock, workers, sends, records, lost, leaked>>

Resume ==
    /\ halted
    /\ halted' = FALSE
    /\ UNCHANGED <<tables, suppressed, queue, lock, workers, world, bounds>>

Suppress(p) ==
    /\ p \notin suppressed
    /\ suppressed' = suppressed \union {p}
    /\ Incident
    /\ UNCHANGED <<tables, halted, queue, lock, workers, world>>

\* forget() rewrites the entity, its prospects and their touches, so it waits for every
\* deliver that has one of those rows; a suppression row of the address is deleted.
Forget(e) ==
    /\ lock[e] = None
    /\ \A t \in Touches : Entity(t) = e => lock[t] = None
    /\ \E p \in Prospects : EntityOf[p] = e /\ pstate[p] # "forgotten"
    /\ pstate' = [p \in Prospects |-> IF EntityOf[p] = e THEN "forgotten" ELSE pstate[p]]
    /\ suppressed' = {p \in suppressed : EntityOf[p] # e}
    /\ Incident
    /\ UNCHANGED <<touch, active, recent, contacts, tenantUsed, cohortUsed, boxUsed, planned,
                   halted, queue, lock, workers, world>>

\* The between-campaigns gap elapses.
GapElapses(e) ==
    /\ recent[e]
    /\ recent' = [recent EXCEPT ![e] = FALSE]
    /\ Incident
    /\ UNCHANGED <<touch, pstate, active, contacts, tenantUsed, cohortUsed, boxUsed, planned,
                   flags, queue, lock, workers, world>>

----------------------------------------------------------------------------
Deliver(w) ==
    \/ ReadStatus(w) \/ LoadGateDraft(w)
    \/ GateHalt(w) \/ GateScreen(w) \/ GateFrequency(w) \/ GateEntity(w)
    \/ GateBudget(w) \/ GateMailbox(w) \/ GateConfidence(w) \/ PersistClaim(w)
    \/ Send(w) \/ RecordDispatch(w) \/ Release(w)

WorkerStep(w) == (\E t \in Touches : Lease(w, t)) \/ Deliver(w) \/ Settle(w)

Outside ==
    \/ \E t \in Touches : QueueDraft(t) \/ Reap(t)
    \/ \E p \in Prospects : IngestReply(p) \/ ReleaseSequence(p) \/ Suppress(p)
    \/ \E e \in Entities : Forget(e) \/ GapElapses(e)
    \/ Halt
    \/ Resume

Next ==
    \/ \E w \in Workers : WorkerStep(w) \/ Crash(w) \/ TxnError(w)
    \/ Outside

Spec == Init /\ [][Next]_vars

\* Workers keep running; nothing outside them has to happen.
FairSpec == Spec /\ \A w \in Workers : WF_vars(WorkerStep(w))

----------------------------------------------------------------------------
(* Properties *)

\* Types of the tables, the workers and the history.
TypeOK ==
    /\ touch \in [Touches -> {"absent", "drafted", "dispatched", "released"}]
    /\ pstate \in [Prospects -> {"queued", "contacted", "engaged", "forgotten"}]
    /\ active \in [Entities -> Touches \union {None}]
    /\ recent \in [Entities -> BOOLEAN]
    /\ contacts \in [Entities -> Nat]
    /\ tenantUsed \in Nat
    /\ cohortUsed \in [Cohorts -> Nat]
    /\ boxUsed \in [Mailboxes -> Nat]
    /\ halted \in BOOLEAN
    /\ suppressed \subseteq Prospects
    /\ planned \subseteq Prospects \X Nat
    /\ job \in [Touches -> {"absent", "ready", "leased", "done", "dead"}]
    /\ tries \in [Touches -> Nat]
    /\ lock \in [Rows -> Workers \union {None}]
    /\ pc \in [Workers -> PC]
    /\ cur \in [Workers -> Touches \union {None}]
    /\ att \in [Workers -> Nat]
    /\ snap \in [Workers -> Touches \union {None}]
    /\ box \in [Workers -> Mailboxes \union {None}]
    /\ sends \in [Touches -> Nat]
    /\ records \in [Touches -> Nat]
    /\ lost \in [Touches -> Nat]
    /\ leaked \in Nat
    /\ haltSends \in Nat
    /\ reaps \in 0..MaxReaps /\ crashes \in 0..MaxCrashes /\ incidents \in 0..MaxIncidents

\* I-8: no interleaving of claims, refusals and rollbacks takes a counter over its cap
\* (the guarded increments of try_consume_budget and pick_mailbox).
CapsRespected ==
    /\ tenantUsed <= TenantCap
    /\ \A c \in Cohorts : cohortUsed[c] <= CohortCap[c]
    /\ \A m \in Mailboxes : boxUsed[m] <= BoxCap[m]

\* Budget used is exactly the volume sends recorded: every refusal after gate 5 gives
\* back what it took, once, and a rollback takes nothing (store_pg.release_budget).
BudgetConserved ==
    /\ tenantUsed = SumFunctionOnSet(records, {t \in Touches : Volume(t)})
    /\ \A c \in Cohorts :
          cohortUsed[c] = SumFunctionOnSet(records, {t \in Touches : Volume(t) /\ Cohort(t) = c})
    /\ SumFunctionOnSet(boxUsed, Mailboxes) = SumFunctionOnSet(records, Touches) + leaked

\* A message that left is recorded by one committed dispatch or was lost in the window
\* between provider.send and the commit: a redelivered or concurrent deliver of the
\* touch never sends it a second time (sendpath.deliver, persist_claim's guard).
SendsAccounted ==
    \A t \in Touches :
        /\ records[t] <= 1
        /\ sends[t] = records[t] + lost[t]
                      + Cardinality({w \in Workers : pc[w] = "record" /\ cur[w] = t})

\* I-7: the sequence that holds an entity was opened by a touch that went out to it,
\* and an entity's contacts never pass the annual cap.
EntityGoverned ==
    \A e \in Entities :
        /\ active[e] # None => Entity(active[e]) = e /\ records[active[e]] = 1
        /\ contacts[e] = SumFunctionOnSet(records, {t \in Touches : Volume(t) /\ Entity(t) = e})
        /\ contacts[e] <= AnnualCap

\* I-7 at commit: what gate 4 found still holds when the dispatch commits.  A cold touch
\* opens a sequence on an entity that has none and was not contacted within the gap; a
\* follow-up continues a sequence that is still its own prospect's.
GateFourHoldsAtCommit ==
    [][\A t \in Touches : records'[t] > records[t] =>
          LET e == Entity(t)
          IN  /\ Kind[t] = "cold" => active[e] = None /\ ~recent[e]
              /\ Kind[t] = "followup" => active[e] \in TouchesOf(ProspectOf[t])]_vars

\* A cold touch or a follow-up never reaches a forgotten prospect: forget waits for the
\* entity row that gate 4 locked (forget.py, sendpath.deliver).
ForgottenNotContacted ==
    [][\A t \in Touches : sends'[t] > sends[t] /\ Volume(t)
          => pstate[ProspectOf[t]] # "forgotten"]_vars

\* A halt overtakes at most the delivers that passed gate 1 before it: one per worker.
HaltLagBounded == haltSends <= Cardinality(Workers)

\* Every deliver transaction ends: row locks are taken in one order (entity, tenant,
\* mailbox without waiting, touch), so the workers never wait for each other in a circle.
DeliversEnd == \A w \in Workers : pc[w] \in InTxn ~> pc[w] \notin InTxn

\* Comment: "retry after success: idempotent no-op" (core/sendpath.py deliver), and the
\* queue's contract that handlers are idempotent: what has been sent stays dispatched.
DispatchedStays ==
    [][\A t \in Touches : touch[t] = "dispatched" => touch'[t] = "dispatched"]_vars

\* Docs: "Suppression and halt are enforced transactionally before the SMTP socket opens"
\* (adapters/sending/smtp.py): no message leaves under a halt.
NoSendUnderHalt == [][sends' # sends => ~halted]_vars
====
