---- MODULE Inbound ----
(***************************************************************************)
(* What comes in and what must go out again: mail polled over IMAP and     *)
(* webhooks become events, each acts once, and a local opt-out, deletion   *)
(* or halt is carried to the sending provider by the control queue         *)
(* (adapters/sending/imap_poll.py and inbound.py, core/events.py,          *)
(* suppression.py, forget.py, control.py, api/app.py, cli/main.py).        *)
(*                                                                         *)
(* The mailbox server, the provider and the people at both are outside.    *)
(***************************************************************************)
EXTENDS Naturals, FiniteSets

CONSTANTS
    Mail,         \* messages that may arrive in the operator's mailboxes
    Hooks,        \* events that a provider may post
    People,       \* prospects, by email_canonical
    EntityOf,     \* prospects.entity_id
    About,        \* the person an event is about
    Says,         \* EventKind, or "stray" for mail that names no touch
    HasId,        \* mail with a Message-ID header
    Pollers,      \* processes of `reachout poll`
    Scopes,       \* "global" and tenant slugs
    None,
    MaxCrashes,   \* bound: polls cut short
    MaxHalts      \* bound: halts

Events == Mail \cup Hooks
OptOuts == {"bounce", "complaint", "unsubscribe"}

ASSUME InboundAssumption ==
    /\ Mail \cap Hooks = {} /\ HasId \subseteq Mail /\ None \notin People \cup OptOuts
    /\ EntityOf \in [People -> People] /\ About \in [Events -> People]
    /\ Says \in [Events -> OptOuts \cup {"reply", "stray"}]
    /\ MaxCrashes \in Nat /\ MaxHalts \in Nat

\* The idempotency keys of the control queue.  A key is never freed.
PauseKeys == {<<"pause", p, r>> : p \in People, r \in OptOuts}
ForgetKeys == {<<"forget", p>> : p \in People}
HaltKeys == {<<"halt", s>> : s \in Scopes}
Keys == PauseKeys \cup ForgetKeys \cup HaltKeys

VARIABLES
    mail,        \* the server's copy: "out" (not arrived), "unseen" or "seen"
    poll,        \* per poller: the messages it has listed, and those it has fetched
    crashes,
    hook,        \* "out", "pending" at the provider, or "accepted" (answered with 200)
    ingested,    \* provider_events.provider_event_id
    acted,       \* history: how often an event was acted on
    known,       \* people whose address is stored
    suppressed,  \* suppressions.reason, or None
    tombstone,   \* forget_tombstones.receipt_id by the person it was issued for, or None
    propagated,  \* people whose tombstone has provider_propagated_at
    flagged,     \* control_flags
    halts,
    job,         \* jobs of the control queue: "none", "ready", "done" or "dead"
    paused,      \* the provider: leads that are paused
    stopped      \* the provider: scopes whose campaigns are paused

inbox == <<mail, poll, crashes>>
local == <<known, suppressed, tombstone, flagged, halts>>
provider == <<paused, stopped>>
vars == <<inbox, hook, ingested, acted, local, propagated, job, provider>>

NoPoll == [listed |-> {}, fetched |-> {}]

Init ==
    /\ mail = [m \in Mail |-> "out"] /\ poll = [p \in Pollers |-> NoPoll] /\ crashes = 0
    /\ hook = [h \in Hooks |-> "out"]
    /\ ingested = {} /\ acted = [e \in Events |-> 0]
    /\ known = People /\ suppressed = [p \in People |-> None]
    /\ tombstone = [p \in People |-> None] /\ propagated = {}
    /\ flagged = {} /\ halts = 0
    /\ job = [k \in Keys |-> "none"]
    /\ paused = {} /\ stopped = {}

\* Mutant: nothing is enqueued.
EnqueuedNone(keys) == job

\* queue.enqueue: ON CONFLICT (idempotency_key) DO NOTHING.
Enqueued(keys) == [k \in Keys |-> IF k \in keys /\ job[k] = "none" THEN "ready" ELSE job[k]]

----
\* Acting on events.

\* parse_inbound names a message without a Message-ID by a hash that is salted anew in
\* every process.
EventId(m, p) == IF m \in HasId \cup Hooks THEN m ELSE <<m, p>>

\* Mutant: duplicates are not looked for.
New(batch, p) == {e \in batch : Says[e] # "stray"}

\* provider_events: ON CONFLICT (provider, provider_event_id) DO NOTHING.
Fresh(batch, p) == {e \in batch : Says[e] # "stray" /\ EventId(e, p) \notin ingested}

\* ingest_events, one transaction for the batch.  _act suppresses whoever opts out, when
\* the address is still stored; suppress overwrites the reason and enqueues the pause.
Ingest(batch, p) ==
    LET new == Fresh(batch, p)
        out == {e \in new : Says[e] \in OptOuts /\ About[e] \in known}
    IN  /\ ingested' = ingested \cup {EventId(e, p) : e \in new}
        /\ acted' = [e \in Events |-> IF e \in new THEN acted[e] + 1 ELSE acted[e]]
        /\ suppressed' \in [People -> {None} \cup OptOuts]
        /\ \A q \in People :
              LET reasons == {Says[e] : e \in {f \in out : About[f] = q}}
              IN  IF reasons = {} THEN suppressed'[q] = suppressed[q] ELSE suppressed'[q] \in reasons
        /\ job' = Enqueued({<<"pause", About[e], Says[e]>> : e \in out})
        /\ UNCHANGED <<known, tombstone, propagated, flagged, halts, provider>>

----
\* Polling.

Arrives(m) ==
    /\ mail[m] = "out"
    /\ mail' = [mail EXCEPT ![m] = "unseen"]
    /\ UNCHANGED <<poll, crashes, hook, ingested, acted, local, propagated, job, provider>>

\* search(UNSEEN)
List(p) ==
    /\ poll[p] = NoPoll
    /\ \E m \in Mail : mail[m] = "unseen"
    /\ poll' = [poll EXCEPT ![p].listed = {m \in Mail : mail[m] = "unseen"}]
    /\ UNCHANGED <<mail, crashes, hook, ingested, acted, local, propagated, job, provider>>

\* fetch, and store +FLAGS \Seen, message by message
Fetch(p, m) ==
    /\ m \in poll[p].listed
    /\ poll' = [poll EXCEPT ![p].listed = @ \ {m}, ![p].fetched = @ \cup {m}]
    /\ mail' = [mail EXCEPT ![m] = "seen"]
    /\ UNCHANGED <<crashes, hook, ingested, acted, local, propagated, job, provider>>

\* poll_once's transaction
IngestBatch(p) ==
    /\ poll[p].fetched # {} /\ poll[p].listed = {}
    /\ Ingest(poll[p].fetched, p)
    /\ poll' = [poll EXCEPT ![p] = NoPoll]
    /\ UNCHANGED <<mail, crashes, hook>>

\* The connection drops, the process dies, or one event of the batch raises: what was
\* fetched is forgotten, and nothing was ingested.
PollFails(p) ==
    /\ poll[p] # NoPoll /\ crashes < MaxCrashes
    /\ poll' = [poll EXCEPT ![p] = NoPoll]
    /\ crashes' = crashes + 1
    /\ UNCHANGED <<mail, hook, ingested, acted, local, propagated, job, provider>>

----
\* Webhooks.  The provider posts an event until it is answered, and may miss the answer.

Happens(h) ==
    /\ hook[h] = "out"
    /\ hook' = [hook EXCEPT ![h] = "pending"]
    /\ UNCHANGED <<inbox, ingested, acted, local, propagated, job, provider>>

\* Mutant: the event is answered before it is processed.
ProviderHookEarly(h) ==
    /\ hook[h] = "pending"
    /\ hook' = [hook EXCEPT ![h] = "accepted"]
    /\ UNCHANGED <<inbox, ingested, acted, local, propagated, job, provider>>

ProviderHook(h) ==
    /\ hook[h] = "pending"
    /\ Ingest({h}, None)
    /\ \E answer \in {"pending", "accepted"} : hook' = [hook EXCEPT ![h] = answer]
    /\ UNCHANGED inbox

----
\* Deletion and halt, from the CLI, the API or the dashboard.

\* Mutant: the address on the request is deleted, and its other addresses get no tombstone.
ForgetOne(p) ==
    LET addresses == {p} \cup {q \in known : p \in known /\ EntityOf[q] = EntityOf[p]}
    IN  /\ tombstone[p] = None
        /\ tombstone' = [tombstone EXCEPT ![p] = p]
        /\ known' = known \ addresses
        /\ suppressed' = [q \in People |-> IF q \in addresses THEN None ELSE suppressed[q]]
        /\ job' = Enqueued({<<"forget", p>>})
        /\ UNCHANGED <<inbox, hook, ingested, acted, propagated, flagged, halts, provider>>

\* forget: every stored address of the person's entities, each with a tombstone and a job.
Forget(p) ==
    LET addresses == {p} \cup {q \in known : p \in known /\ EntityOf[q] = EntityOf[p]}
    IN  /\ tombstone' = [q \in People |-> IF q \in addresses /\ tombstone[q] = None
                                          THEN p ELSE tombstone[q]]
        /\ tombstone' # tombstone
        /\ known' = known \ addresses
        /\ suppressed' = [q \in People |-> IF q \in addresses THEN None ELSE suppressed[q]]
        /\ job' = Enqueued({<<"forget", q>> : q \in addresses})
        /\ UNCHANGED <<inbox, hook, ingested, acted, propagated, flagged, halts, provider>>

Halt(s) ==
    /\ halts < MaxHalts
    /\ halts' = halts + 1
    /\ flagged' = flagged \cup {s}
    /\ job' = Enqueued({<<"halt", s>>})
    /\ UNCHANGED <<inbox, hook, ingested, acted, known, suppressed, tombstone, propagated, provider>>

\* Nothing tells the provider.
Resume(s) ==
    /\ s \in flagged
    /\ flagged' = flagged \ {s}
    /\ UNCHANGED <<inbox, hook, ingested, acted, known, suppressed, tombstone, halts,
                   propagated, job, provider>>

\* The operator starts the campaigns again at the provider.
ProviderRestarts(s) ==
    /\ s \in stopped \ flagged
    /\ stopped' = stopped \ {s}
    /\ UNCHANGED <<inbox, hook, ingested, acted, local, propagated, job, paused>>

----
\* The control queue.

\* control_op's call; a run that fails after it is repeated.
Call(k) ==
    /\ job[k] = "ready"
    /\ paused' = IF k[1] = "halt" THEN paused ELSE paused \cup {k[2]}
    /\ stopped' = IF k[1] = "halt" THEN stopped \cup {k[2]} ELSE stopped

ControlFails(k) ==
    /\ Call(k)
    /\ UNCHANGED <<inbox, hook, ingested, acted, local, propagated, job>>

\* delete_lead marks by receipt: every address that the receipt was issued for.
ControlOp(k) ==
    /\ Call(k)
    /\ job' = [job EXCEPT ![k] = "done"]
    /\ propagated' = IF k[1] = "forget"
                     THEN propagated \cup {q \in People : tombstone[q] = tombstone[k[2]]}
                     ELSE propagated
    /\ UNCHANGED <<inbox, hook, ingested, acted, local>>

\* The last attempt fails.
ControlDies(k) ==
    /\ job[k] = "ready"
    /\ job' = [job EXCEPT ![k] = "dead"]
    /\ UNCHANGED <<inbox, hook, ingested, acted, local, propagated, provider>>

Polling(p) == List(p) \/ (\E m \in Mail : Fetch(p, m)) \/ IngestBatch(p)

Next ==
    \/ \E m \in Mail : Arrives(m)
    \/ \E p \in Pollers : Polling(p) \/ PollFails(p)
    \/ \E h \in Hooks : Happens(h) \/ ProviderHook(h)
    \/ \E p \in People : Forget(p)
    \/ \E s \in Scopes : Halt(s) \/ Resume(s) \/ ProviderRestarts(s)
    \/ \E k \in Keys : ControlFails(k) \/ ControlOp(k) \/ ControlDies(k)

\* `reachout poll` loops, a provider posts an event until it is answered, and the control
\* queue runs a job until it is done or dead.
Fairness ==
    /\ \A p \in Pollers : WF_vars(Polling(p))
    /\ \A h \in Hooks : SF_vars(ProviderHook(h) /\ hook'[h] = "accepted")
    /\ \A k \in Keys : WF_vars(ControlOp(k) \/ ControlDies(k))

Spec == Init /\ [][Next]_vars
FairSpec == Spec /\ Fairness

----
TypeOK ==
    /\ mail \in [Mail -> {"out", "unseen", "seen"}]
    /\ poll \in [Pollers -> [listed : SUBSET Mail, fetched : SUBSET Mail]]
    /\ hook \in [Hooks -> {"out", "pending", "accepted"}]
    /\ acted \in [Events -> Nat]
    /\ known \subseteq People
    /\ suppressed \in [People -> {None} \cup OptOuts]
    /\ tombstone \in [People -> {None} \cup People] /\ propagated \subseteq People
    /\ flagged \subseteq Scopes
    /\ job \in [Keys -> {"none", "ready", "done", "dead"}]
    /\ paused \subseteq People /\ stopped \subseteq Scopes

Uncontactable == {p \in People : suppressed[p] # None \/ tombstone[p] # None}

\* I-10: an event acts once, though two polls list one message, a provider posts an event
\* again, or a poll starts over (the unique index of provider_events).
ActedOnce == \A e \in Events : acted[e] <= 1

\* Whoever opted out is listed from the commit of the event on, whatever halt, deletion or
\* other event comes after, and the provider pauses listed leads only: forget trades the
\* suppression of each address for a tombstone, in one transaction.
OptOutKept == INSTANCE OptOut WITH listed <- Uncontactable, enforced <- paused
ImplementsOptOut == OptOutKept!Spec

\* Whoever is listed gets a control job that the queue has not lost: no suppression or
\* deletion commits without one, and its key names the person.
PropagationOwed ==
    \A p \in Uncontactable :
        \E k \in PauseKeys \cup ForgetKeys :
            k[2] = p /\ (job[k] \in {"ready", "dead"} \/ (job[k] = "done" /\ p \in paused))

\* An opt-out posted by the provider ends in a listed person who is paused there too, but
\* for the address that is gone and the control job that died.
OptOutEnforced ==
    \A h \in Hooks : (hook[h] = "pending" /\ Says[h] \in OptOuts) ~>
        /\ About[h] \in Uncontactable
        /\ About[h] \in paused \/ \E k \in Keys : k[2] = About[h] /\ job[k] = "dead"

----------------------------------------------------------------------------
(* What the documents say, and the code does not do *)

\* "a message re-fetched after a crash (seen-flag not yet stored) is a no-op": a message
\* that the server holds as seen is in a poll's hands, or was ingested.
SeenIsIngested ==
    \A m \in Mail : mail[m] = "seen" /\ Says[m] # "stray" =>
        \/ \E p \in Pollers : m \in poll[p].fetched
        \/ acted[m] > 0

\* halt() is to "set a halt/kill-switch flag and fan out provider pauses".
HaltReachesProvider ==
    \A s \in Scopes :
        s \in flagged ~> (s \in stopped \/ s \notin flagged \/ job[<<"halt", s>>] = "dead")

\* A deletion that is recorded as propagated has reached every address.
ReceiptComplete == propagated \subseteq paused
====
