---- MODULE Intake ----
(***************************************************************************)
(* How a candidate becomes a prospect in the compose queue: discovery      *)
(* resolves it to an entity by its keys, enrichment finds facts and an     *)
(* address, qualification decides, and a deletion may come at any time     *)
(* (core/prospecting.py, entity.py, lifecycle.py, forget.py,               *)
(* suppression.py, escalations.py).  A prospect is a pair of a cohort and  *)
(* an entity.                                                              *)
(*                                                                         *)
(* A handler is one transaction at READ COMMITTED around calls that take   *)
(* long (a source, a web page, a model), so it reads in one step and       *)
(* writes and commits in a later one.  A page of a source holds one        *)
(* candidate.  Sources, finder, verifier and model are outside.            *)
(***************************************************************************)
EXTENDS Naturals, FiniteSets

CONSTANTS
    Cohorts,
    Triggered,     \* cohorts with an event trigger
    Candidates,    \* what the sources may return
    Returns,       \* what the source of a cohort may return
    Keys,          \* (key_type, key_value) pairs
    Addresses,     \* the keys that are canonical addresses
    KeysOf,        \* deterministic_keys
    EmailOf,       \* the candidate's own address, or None
    Finds,         \* the address the finder comes up with, or None
    Denied,        \* candidates from a denylisted source or with a malformed address
    None,
    Discoverers,   \* processes that run discover jobs
    Workers,       \* processes that run the other jobs
    ForgetAlone,   \* assumed: nothing commits while a deletion is under way
    MaxEntities,   \* bound: rows of entities
    MaxPages,      \* bound: pages of the sources
    MaxForgets     \* bound: deletions

Entities == 1..MaxEntities
Prospects == Cohorts \X Entities
Queues == {"enrich", "qualify", "compose"}

ASSUME IntakeAssumption ==
    /\ Triggered \subseteq Cohorts /\ Addresses \subseteq Keys /\ Denied \subseteq Candidates
    /\ None \notin Candidates \cup Addresses \cup Cohorts \cup Queues
    /\ Returns \in [Cohorts -> SUBSET Candidates]
    /\ KeysOf \in [Candidates -> SUBSET Keys]
    /\ EmailOf \in [Candidates -> Addresses \cup {None}]
    /\ Finds \in [Candidates -> Addresses \cup {None}]
    /\ ForgetAlone \in BOOLEAN
    /\ MaxEntities \in Nat /\ MaxPages \in Nat /\ MaxForgets \in Nat

VARIABLES
    due,         \* cohorts with an open discover job
    pages,       \* how many pages were read
    finding,     \* per discoverer: the transaction of a discover job
    entities,    \* how many entities there are
    owner,       \* entity_keys.entity_id, 0 for a key that is not stored
    conflicts,   \* entities with a merge conflict among the escalations
    state,       \* prospects.state, "none" without a row
    about,       \* the candidate whose source_ref and email_raw the row holds, or None
    address,     \* prospects.email_canonical, or None
    facts,       \* prospects with rows in evidence_facts
    job,         \* the jobs of a prospect: "none", "ready" or "dead"
    working,     \* per worker: the transaction of an enrich or a qualify job
    listed,      \* addresses that are suppressed or have a tombstone
    forgetting,  \* the transaction of a deletion
    forgets,
    erased       \* history: prospects that a deletion found

discovery == <<due, pages, finding>>
identity == <<entities, owner, conflicts>>
people == <<state, about, address, facts>>
deletion == <<listed, forgetting, forgets, erased>>
vars == <<discovery, identity, people, job, working, deletion>>

NoPage == [cohort |-> None, cand |-> None, entity |-> 0, conflict |-> FALSE, insert |-> FALSE]
NoWork == [queue |-> None, prospect |-> None, about |-> None]
NoForget == [entities |-> {}, addresses |-> {}, facts |-> {}]

Init ==
    /\ due = Cohorts \ Triggered /\ pages = 0 /\ finding = [d \in Discoverers |-> NoPage]
    /\ entities = 0 /\ owner = [k \in Keys |-> 0] /\ conflicts = {}
    /\ state = [p \in Prospects |-> "none"]
    /\ about = [p \in Prospects |-> None] /\ address = [p \in Prospects |-> None]
    /\ facts = {}
    /\ job = [q \in Queues |-> [p \in Prospects |-> "none"]]
    /\ working = [w \in Workers |-> NoWork]
    /\ listed = {} /\ forgetting = NoForget /\ forgets = 0 /\ erased = {}

MayCommit == ForgetAlone => forgetting = NoForget

\* queue.enqueue: the keys enrich:{id}, qualify:{id} and compose:{id} are never freed.
Enqueue(queue, ps) ==
    job' = [job EXCEPT ![queue] = [p \in Prospects |->
               IF p \in ps /\ @[p] = "none" THEN "ready" ELSE @[p]]]

----
\* Discovery.

\* _fire_trigger: a discover job, and a compose job for prospects that are "qualified".
\* A selector with protected content is escalated instead, and nothing else happens.
Trigger(c) ==
    /\ c \in Triggered \ due
    /\ due' = due \cup {c}
    /\ Enqueue("compose", {p \in Prospects : p[1] = c /\ state[p] = "qualified"})
    /\ UNCHANGED <<pages, finding, identity, people, working, deletion>>

Screened(cand) == cand \in Denied \/ EmailOf[cand] \in listed

\* A page comes; its candidate is dropped silently.
Drops(c, cand) ==
    /\ c \in due /\ pages < MaxPages /\ MayCommit
    /\ Screened(cand)
    /\ \E more \in {{}, {c}} : due' = (due \ {c}) \cup more
    /\ pages' = pages + 1
    /\ UNCHANGED <<finding, identity, people, job, working, deletion>>

\* ingest_candidate up to its reads: resolve_entity takes the first entity that a key
\* names, else a new one (0), and "one prospect per (cohort, entity)" is looked up.
Resolves(d, c, cand) ==
    /\ c \in due /\ finding[d] = NoPage /\ pages < MaxPages
    /\ ~Screened(cand)
    /\ LET matched == {owner[k] : k \in KeysOf[cand]} \ {0}
       IN  \E e \in IF matched = {} THEN {0} ELSE matched :
              finding' = [finding EXCEPT ![d] =
                  [cohort |-> c, cand |-> cand, entity |-> e,
                   conflict |-> Cardinality(matched) > 1,
                   insert |-> IF e = 0 THEN TRUE ELSE state[<<c, e>>] = "none"]]
    /\ pages' = pages + 1
    /\ UNCHANGED <<due, identity, people, job, working, deletion>>

\* Mutant: only a new entity gets the keys.
AttachedToNew(page, e) ==
    [k \in Keys |-> IF page.entity = 0 /\ k \in KeysOf[page.cand] /\ owner[k] = 0
                    THEN e ELSE owner[k]]

\* INSERT INTO entity_keys ... ON CONFLICT DO NOTHING
Attached(page, e) ==
    [k \in Keys |-> IF k \in KeysOf[page.cand] /\ owner[k] = 0 THEN e ELSE owner[k]]

\* The writes of ingest_candidate, and the job for the next page.  Of two transactions
\* that insert one prospect the unique index of (cohort_id, entity_id) lets one through.
Persists(d) ==
    LET page == finding[d]
        e == IF page.entity = 0 THEN entities + 1 ELSE page.entity
        p == <<page.cohort, e>>
    IN  /\ page # NoPage /\ MayCommit
        /\ e <= MaxEntities
        /\ page.insert => state[p] = "none"
        /\ entities' = IF page.entity = 0 THEN e ELSE entities
        /\ owner' = Attached(page, e)
        /\ conflicts' = IF page.conflict THEN conflicts \cup {e} ELSE conflicts
        /\ IF page.insert
           THEN /\ state' = [state EXCEPT ![p] = "discovered"]
                /\ about' = [about EXCEPT ![p] = page.cand]
                /\ Enqueue("enrich", {p})
           ELSE UNCHANGED <<state, about, job>>
        /\ \E more \in {{}, {page.cohort}} : due' = (due \ {page.cohort}) \cup more
        /\ finding' = [finding EXCEPT ![d] = NoPage]
        /\ UNCHANGED <<pages, address, facts, working, deletion>>

\* The source or the unique index refuses; the job is tried again, or dies.
RollsBack(d) ==
    /\ finding[d] # NoPage
    /\ \E retry \in {{}, {finding[d].cohort}} : due' = (due \ {finding[d].cohort}) \cup retry
    /\ finding' = [finding EXCEPT ![d] = NoPage]
    /\ UNCHANGED <<pages, identity, people, job, working, deletion>>

----
\* Enrichment and qualification.

Awaited(queue) == IF queue = "enrich" THEN "discovered" ELSE "enriched"

\* A lease may run out under a slow call, so two workers may run one job.  A job whose
\* prospect was forgotten or has moved on returns at once, so it does not matter whether
\* the worker's mark of a job it has run came through: "ready" stands for both.
Reads(w, queue, p) ==
    /\ working[w] = NoWork
    /\ job[queue][p] = "ready" /\ state[p] = Awaited(queue)
    /\ working' = [working EXCEPT ![w] = [queue |-> queue, prospect |-> p, about |-> about[p]]]
    /\ UNCHANGED <<discovery, identity, people, job, deletion>>

\* The address enrich goes on with: the candidate's own, else what the finder finds.
Chosen(cand) == IF EmailOf[cand] # None THEN EmailOf[cand] ELSE Finds[cand]

\* Mutant: the state at the start of the job is taken for the state at its end.
TransitionsBlindly(p, from) == TRUE

\* assert_transition, under the row lock: a prospect that has moved on raises.
Transitions(p, from) == state[p] = from

\* Mutant: the next job is forgotten.
HandedOnNever(jobs, queue, p) == jobs

\* The handler enqueues the next one's job.
HandedOn(jobs, queue, p) == [jobs EXCEPT ![queue][p] = IF @ = "none" THEN "ready" ELSE @]

\* enrich: facts, address, transition (which raises unless the prospect is still
\* "discovered") and the qualify job.
EnrichStores(w) ==
    LET p == working[w].prospect
        a == Chosen(working[w].about)
    IN  /\ working[w].queue = "enrich" /\ MayCommit
        /\ Transitions(p, "discovered")
        /\ facts' = facts \cup {p}
        /\ address' = [address EXCEPT ![p] = a]
        /\ \E verified \in BOOLEAN :
              IF a # None /\ verified
              THEN /\ state' = [state EXCEPT ![p] = "enriched"]
                   /\ job' = HandedOn(job, "qualify", p)
              ELSE /\ state' = [state EXCEPT ![p] = "unenrichable"]
                   /\ UNCHANGED job
        /\ working' = [working EXCEPT ![w] = NoWork]
        /\ UNCHANGED <<discovery, identity, about, deletion>>

\* A prospect that fits goes to qualified and on to queued in one transaction.
AfterVerdict(fits) == IF fits THEN "queued" ELSE "disqualified"

\* qualify: two transitions and the compose job, or one transition to disqualified (with
\* an escalation when the model suspects an injection).
Qualifies(w) ==
    LET p == working[w].prospect
    IN  /\ working[w].queue = "qualify" /\ MayCommit
        /\ Transitions(p, "enriched")
        /\ \E fits \in BOOLEAN :
              /\ state' = [state EXCEPT ![p] = AfterVerdict(fits)]
              /\ job' = IF fits THEN HandedOn(job, "compose", p) ELSE job
        /\ working' = [working EXCEPT ![w] = NoWork]
        /\ UNCHANGED <<discovery, identity, about, address, facts, deletion>>

\* A call or the transition raises: everything is rolled back, the job is tried again.
Fails(w) ==
    /\ working[w] # NoWork
    /\ working' = [working EXCEPT ![w] = NoWork]
    /\ UNCHANGED <<discovery, identity, people, job, deletion>>

\* The last attempt fails.
Dies(w) ==
    LET at == working[w]
    IN  /\ at # NoWork
        /\ job' = [job EXCEPT ![at.queue][at.prospect] = IF @ = "ready" THEN "dead" ELSE @]
        /\ working' = [working EXCEPT ![w] = NoWork]
        /\ UNCHANGED <<discovery, identity, people, deletion>>

----
\* Deletion and opt-out.

\* forget up to its first write to prospects: addresses are collected and facts deleted.
Collects(es, asked) ==
    LET mine == {p \in Prospects : p[2] \in es /\ state[p] # "none"}
    IN  /\ forgetting = NoForget /\ forgets < MaxForgets
        /\ es # {} \/ asked # {}
        /\ forgetting' = [entities |-> es,
                          addresses |-> asked \cup ({address[p] : p \in mine} \ {None}),
                          facts |-> facts \cap mine]
        /\ forgets' = forgets + 1
        /\ UNCHANGED <<discovery, identity, people, job, working, listed, erased>>

ForgetEntity(e) == e <= entities /\ Collects({e}, {})

ForgetAddress(a) ==
    Collects({p[2] : p \in {q \in Prospects : address[q] = a}} \cup ({owner[a]} \ {0}), {a})

\* The rest of forget, to its commit.  The UPDATE of prospects sees what committed since.
Forgets ==
    LET gone == {p \in Prospects : p[2] \in forgetting.entities /\ state[p] # "none"}
    IN  /\ forgetting # NoForget
        /\ listed' = listed \cup forgetting.addresses
        /\ facts' = facts \ forgetting.facts
        /\ state' = [p \in Prospects |-> IF p \in gone THEN "forgotten" ELSE state[p]]
        /\ about' = [p \in Prospects |-> IF p \in gone THEN None ELSE about[p]]
        /\ address' = [p \in Prospects |-> IF p \in gone THEN None ELSE address[p]]
        /\ owner' = [k \in Keys |-> IF owner[k] \in forgetting.entities THEN 0 ELSE owner[k]]
        /\ erased' = erased \cup gone
        /\ forgetting' = NoForget
        /\ UNCHANGED <<discovery, entities, conflicts, job, working, forgets>>

\* suppress, from an event of the person's.
OptsOut(a) ==
    /\ a \notin listed
    /\ listed' = listed \cup {a}
    /\ UNCHANGED <<discovery, identity, people, job, working, forgetting, forgets, erased>>

Next ==
    \/ \E c \in Cohorts : Trigger(c) \/ \E cand \in Returns[c] : Drops(c, cand)
    \/ \E d \in Discoverers :
          \/ Persists(d) \/ RollsBack(d)
          \/ \E c \in Cohorts : \E cand \in Returns[c] : Resolves(d, c, cand)
    \/ \E w \in Workers :
          \/ EnrichStores(w) \/ Qualifies(w) \/ Fails(w) \/ Dies(w)
          \/ \E queue \in {"enrich", "qualify"}, p \in Prospects : Reads(w, queue, p)
    \/ \E e \in Entities : ForgetEntity(e)
    \/ \E a \in Addresses : ForgetAddress(a) \/ OptsOut(a)
    \/ Forgets

\* The workers run a job until it is done or dead: after max_attempts it fails for good.
Fairness ==
    /\ \A p \in Prospects :
          /\ WF_vars(\E w \in Workers, queue \in {"enrich", "qualify"} : Reads(w, queue, p))
          /\ SF_vars(\E w \in Workers : /\ working[w].prospect = p
                                        /\ EnrichStores(w) \/ Qualifies(w) \/ Dies(w))
    /\ WF_vars(Forgets)

Spec == Init /\ [][Next]_vars
FairSpec == Spec /\ Fairness

----
IntakeStates == {"none", "discovered", "unenrichable", "enriched", "disqualified", "queued",
                 "forgotten"}

TypeOK ==
    /\ due \subseteq Cohorts /\ pages \in Nat
    /\ finding \in [Discoverers ->
          [cohort : Cohorts \cup {None}, cand : Candidates \cup {None},
           entity : {0} \cup Entities, conflict : BOOLEAN, insert : BOOLEAN]]
    /\ entities \in 0..MaxEntities /\ owner \in [Keys -> 0..MaxEntities]
    /\ conflicts \subseteq Entities
    /\ state \in [Prospects -> IntakeStates]
    /\ about \in [Prospects -> Candidates \cup {None}]
    /\ address \in [Prospects -> Addresses \cup {None}]
    /\ facts \subseteq Prospects
    /\ job \in [Queues -> [Prospects -> {"none", "ready", "dead"}]]
    /\ listed \subseteq Addresses
    /\ forgetting \in [entities : SUBSET Entities, addresses : SUBSET Addresses,
                       facts : SUBSET Prospects]

\* Nothing is left of a prospect that a deletion found, whichever job was reading it then,
\* and it stays forgotten (forget deletes, and transition re-reads the state under a lock).
NothingKeptOfForgotten ==
    \A p \in erased :
        /\ state[p] = "forgotten"
        /\ about[p] = None /\ address[p] = None /\ p \notin facts

\* Every key a stored candidate was found by leads to its entity, in whatever order pages,
\* opt-outs and deletions came, unless an operator was told of the conflict: the next
\* candidate of the person lands on the entity the frequency cap governs (resolve_entity).
KeysAccounted ==
    \A p \in Prospects : about[p] # None =>
        \A k \in KeysOf[about[p]] : owner[k] = p[2] \/ p[2] \in conflicts

\* The rows move as core/states.py allows.
Life == INSTANCE Lifecycle
FollowsLifecycle == Life!Spec

\* A prospect does not stay in intake: it is queued, turned away or forgotten, or a job of
\* its own is dead (each handler enqueues the next one in its transaction).
IntakeSettles ==
    \A p \in Prospects : state[p] = "discovered" ~>
        \/ state[p] \notin {"discovered", "enriched"}
        \/ \E queue \in Queues : job[queue][p] = "dead"
====
