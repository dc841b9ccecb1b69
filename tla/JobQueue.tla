---- MODULE JobQueue ----
(***************************************************************************)
(* The Postgres job queue (core/queue.py) and the worker loop over it      *)
(* (core/worker.py).  A worker leases a job in one transaction, runs the   *)
(* handler in a second and settles the job in a third, and may crash       *)
(* between any two.  The settling UPDATEs name the job by id alone, so a   *)
(* worker whose lease was reaped still settles the job.                    *)
(*                                                                         *)
(* Time is abstract: `due` stands for run_after <= now() and `expired` for *)
(* lease_until < now().                                                    *)
(***************************************************************************)
EXTENDS Naturals, FiniteSets

CONSTANTS
    Keys,         \* the jobs; idempotency_key is unique and never freed
    Roots,        \* jobs enqueued by the cli, the api or an event, not by a handler
    Follow,       \* Follow[k]: the jobs k's handler enqueues in its transaction
    Workers,
    NoJob,        \* "this worker holds no job"
    Priority,     \* Priority[k]: position of k's queue in QUEUE_PRIORITY
    Lowest,       \* the last position in QUEUE_PRIORITY
    MaxAttempts,  \* jobs.max_attempts
    MaxCrashes,   \* bound: worker crashes
    MaxOverruns   \* bound: leases that expire under a worker that is still alive

ASSUME KeysAssumption == IsFiniteSet(Keys) /\ NoJob \notin Keys
ASSUME WorkersAssumption == IsFiniteSet(Workers)
ASSUME FollowAssumption == Roots \subseteq Keys /\ Follow \in [Keys -> SUBSET Keys]
ASSUME PriorityAssumption == Lowest \in Nat \ {0} /\ Priority \in [Keys -> 1..Lowest]
ASSUME BoundsAssumption ==
    MaxAttempts \in Nat \ {0} /\ MaxCrashes \in Nat /\ MaxOverruns \in Nat

VARIABLES
    status, due, expired, attempts,   \* table jobs
    pc, job, snapshot, probe,         \* per worker: where it is, the leased job, that
                                      \* job's attempts when leased, the queue polled next
    crashes, overruns,                \* counters of the bounds
    ran, reaps, retried, waiting      \* history, never read by the code: jobs whose
                                      \* handler committed, reaps of a job, the attempts
                                      \* of a job that failed into a retry, the jobs ready
                                      \* ever since a worker's poll began

table == <<status, due, expired, attempts>>
bounds == <<crashes, overruns>>
vars == <<status, due, expired, attempts, pc, job, snapshot, probe,
          crashes, overruns, ran, reaps, retried, waiting>>

Status == {"absent", "ready", "leased", "done", "dead"}
PC == {"poll", "handle", "commit", "retry", "reject"}

Exists(k) == status[k] # "absent"
\* Mutant: the lease takes a leased job too.
ReadyOrLeased(k) == status[k] \in {"ready", "leased"} /\ due[k]

Ready(k) == status[k] = "ready" /\ due[k]
Holders(k) == {w \in Workers : job[w] = k}

Init ==
    /\ status = [k \in Keys |-> "absent"]
    /\ due = [k \in Keys |-> FALSE]
    /\ expired = [k \in Keys |-> FALSE]
    /\ attempts = [k \in Keys |-> 0]
    /\ pc = [w \in Workers |-> "poll"]
    /\ job = [w \in Workers |-> NoJob]
    /\ snapshot = [w \in Workers |-> 0]
    /\ probe = [w \in Workers |-> 1]
    /\ crashes = 0 /\ overruns = 0
    /\ ran = {}
    /\ reaps = [k \in Keys |-> 0]
    /\ retried = [k \in Keys |-> {}]
    /\ waiting = [w \in Workers |-> {}]

\* Every action's record of what has been ready since each worker's poll began.
PollBegins(w) == probe'[w] = 1 \/ (pc[w] # "poll" /\ pc'[w] = "poll")

Observe ==
    waiting' = [w \in Workers |->
        {k \in Keys : Ready(k)' /\ (PollBegins(w) \/ k \in waiting[w])}]

----------------------------------------------------------------------------
(* queue.py *)

\* INSERT .. ON CONFLICT (idempotency_key) DO NOTHING: a key stays taken when its
\* job is done or dead.  With run_after_seconds > 0 the job is not due yet.
Insert(ks, now) ==
    /\ status' = [k \in Keys |-> IF k \in ks /\ ~Exists(k) THEN "ready" ELSE status[k]]
    /\ due' = [k \in Keys |-> IF k \in ks /\ ~Exists(k) THEN now ELSE due[k]]

Enqueue(k) ==
    /\ k \in Roots
    /\ ~Exists(k)
    /\ \E now \in BOOLEAN : Insert({k}, now)
    /\ UNCHANGED <<expired, attempts, pc, job, snapshot, probe, bounds, ran, reaps, retried>>
    /\ Observe

\* run_after passes.
BecomeDue(k) ==
    /\ status[k] = "ready"
    /\ ~due[k]
    /\ due' = [due EXCEPT ![k] = TRUE]
    /\ UNCHANGED <<status, expired, attempts, pc, job, snapshot, probe, bounds,
                   ran, reaps, retried>>
    /\ Observe

\* Mutant: after a job, run_once resumes at the queue the job came from.
LeaseResume(w, k) ==
    /\ pc[w] = "poll"
    /\ Priority[k] = probe[w]
    /\ Ready(k)
    /\ status' = [status EXCEPT ![k] = "leased"]
    /\ expired' = [expired EXCEPT ![k] = FALSE]
    /\ attempts' = [attempts EXCEPT ![k] = @ + 1]
    /\ pc' = [pc EXCEPT ![w] = "handle"]
    /\ job' = [job EXCEPT ![w] = k]
    /\ snapshot' = [snapshot EXCEPT ![w] = attempts[k] + 1]
    /\ UNCHANGED <<due, probe, bounds, ran, reaps, retried>>
    /\ Observe

\* One queue of run_once: the lease transaction takes a ready due job of the queue.
\* ORDER BY id is left out: SKIP LOCKED passes over any row another transaction has.
Lease(w, k) ==
    /\ pc[w] = "poll"
    /\ Priority[k] = probe[w]
    /\ Ready(k)
    /\ status' = [status EXCEPT ![k] = "leased"]
    /\ expired' = [expired EXCEPT ![k] = FALSE]
    /\ attempts' = [attempts EXCEPT ![k] = @ + 1]
    /\ pc' = [pc EXCEPT ![w] = "handle"]
    /\ job' = [job EXCEPT ![w] = k]
    /\ snapshot' = [snapshot EXCEPT ![w] = attempts[k] + 1]
    /\ probe' = [probe EXCEPT ![w] = 1]
    /\ UNCHANGED <<due, bounds, ran, reaps, retried>>
    /\ Observe

\* Mutant: the poll does not start over after the last queue.
PollOn(w) ==
    /\ pc[w] = "poll"
    /\ \A k \in Keys : Priority[k] = probe[w] => ~Ready(k)
    /\ probe' = [probe EXCEPT ![w] = @ + 1]
    /\ UNCHANGED <<table, pc, job, snapshot, bounds, ran, reaps, retried>>
    /\ Observe

\* lease() returned None: on to the next queue, and from the last one back to the
\* first after a sleep.
PollNext(w) ==
    /\ pc[w] = "poll"
    /\ \A k \in Keys : Priority[k] = probe[w] => ~Ready(k)
    /\ probe' = [probe EXCEPT ![w] = IF @ = Lowest THEN 1 ELSE @ + 1]
    /\ UNCHANGED <<table, pc, job, snapshot, bounds, ran, reaps, retried>>
    /\ Observe

\* LEASE_SECONDS pass.  Nothing extends a lease, so it also runs out under a worker
\* that is still handling the job.
LeaseExpires(k) ==
    /\ status[k] = "leased"
    /\ ~expired[k]
    /\ expired' = [expired EXCEPT ![k] = TRUE]
    /\ IF Holders(k) = {}
       THEN UNCHANGED overruns
       ELSE overruns < MaxOverruns /\ overruns' = overruns + 1
    /\ UNCHANGED <<status, due, attempts, pc, job, snapshot, probe, crashes,
                   ran, reaps, retried>>
    /\ Observe

\* Mutant: the reaper leaves a job with no attempts left.
ExpiredWithAttemptsLeft(k) == status[k] = "leased" /\ expired[k] /\ attempts[k] < MaxAttempts

Expired(k) == status[k] = "leased" /\ expired[k]

ReapExpired ==
    /\ \E k \in Keys : Expired(k)
    /\ status' = [k \in Keys |-> IF Expired(k) THEN "ready" ELSE status[k]]
    /\ expired' = [k \in Keys |-> IF Expired(k) THEN FALSE ELSE expired[k]]
    /\ reaps' = [k \in Keys |-> IF Expired(k) THEN reaps[k] + 1 ELSE reaps[k]]
    /\ UNCHANGED <<due, attempts, pc, job, snapshot, probe, bounds, ran, retried>>
    /\ Observe

----------------------------------------------------------------------------
(* worker.py: _handle, after the lease *)

\* The handler returns: its effects and the jobs it enqueued commit together.
HandlerCommits(w) ==
    /\ pc[w] = "handle"
    /\ \E now \in BOOLEAN : Insert(Follow[job[w]], now)
    /\ ran' = ran \union {job[w]}
    /\ pc' = [pc EXCEPT ![w] = "commit"]
    /\ UNCHANGED <<expired, attempts, job, snapshot, probe, bounds, reaps, retried>>
    /\ Observe

\* The handler raises and its transaction rolls back.  PermanentJobError and
\* ComplianceJobError reject the job, any other exception asks for a retry.
HandlerRaises(w) ==
    /\ pc[w] = "handle"
    /\ \E verdict \in {"retry", "reject"} : pc' = [pc EXCEPT ![w] = verdict]
    /\ UNCHANGED <<table, job, snapshot, probe, bounds, ran, reaps, retried>>
    /\ Observe

\* Mutant: off by one.
BeyondLastAttempt(w) == snapshot[w] > MaxAttempts

\* fail(): the attempts compared are those read at lease time.
LastAttempt(w) == snapshot[w] >= MaxAttempts

\* The settling transaction writes the row whatever its status has become.
Settle(w, outcome) ==
    /\ status' = [status EXCEPT ![job[w]] = outcome]
    /\ expired' = [expired EXCEPT ![job[w]] = FALSE]
    /\ pc' = [pc EXCEPT ![w] = "poll"]
    /\ job' = [job EXCEPT ![w] = NoJob]
    /\ snapshot' = [snapshot EXCEPT ![w] = 0]
    /\ UNCHANGED <<attempts, probe, bounds, ran, reaps>>

\* Mutant: a handler's exception is swallowed and the job completed.
CompleteAnyway(w) ==
    /\ pc[w] \in {"commit", "retry"}
    /\ Settle(w, "done")
    /\ UNCHANGED <<due, retried>>
    /\ Observe

Complete(w) ==
    /\ pc[w] = "commit"
    /\ Settle(w, "done")
    /\ UNCHANGED <<due, retried>>
    /\ Observe

FailForGood(w) ==
    /\ pc[w] = "reject" \/ (pc[w] = "retry" /\ LastAttempt(w))
    /\ Settle(w, "dead")
    /\ UNCHANGED <<due, retried>>
    /\ Observe

\* Back to ready after the backoff.
FailForNow(w) ==
    /\ pc[w] = "retry"
    /\ ~LastAttempt(w)
    /\ Settle(w, "ready")
    /\ due' = [due EXCEPT ![job[w]] = FALSE]
    /\ retried' = [retried EXCEPT ![job[w]] = @ \union {snapshot[w]}]
    /\ Observe

\* The process dies: an open transaction rolls back, a committed one stays.
Crash(w) ==
    /\ pc[w] # "poll"
    /\ crashes < MaxCrashes
    /\ crashes' = crashes + 1
    /\ pc' = [pc EXCEPT ![w] = "poll"]
    /\ job' = [job EXCEPT ![w] = NoJob]
    /\ snapshot' = [snapshot EXCEPT ![w] = 0]
    /\ probe' = [probe EXCEPT ![w] = 1]
    /\ UNCHANGED <<table, overruns, ran, reaps, retried>>
    /\ Observe

----------------------------------------------------------------------------
WorkerStep(w) ==
    \/ \E k \in Keys : Lease(w, k)
    \/ PollNext(w)
    \/ HandlerCommits(w)
    \/ HandlerRaises(w)
    \/ Complete(w)
    \/ FailForGood(w)
    \/ FailForNow(w)

ClockStep(k) == BecomeDue(k) \/ LeaseExpires(k)

Next ==
    \/ \E k \in Keys : Enqueue(k) \/ ClockStep(k)
    \/ \E w \in Workers : WorkerStep(w) \/ Crash(w)
    \/ ReapExpired

Spec == Init /\ [][Next]_vars

\* Time passes, run_forever keeps polling, handling and reaping, and a handler
\* returns or raises; nobody has to enqueue, crash or overrun a lease.
Fairness ==
    /\ \A k \in Keys : WF_vars(BecomeDue(k))
    /\ \A k \in Keys : WF_vars(LeaseExpires(k) /\ Holders(k) = {})
    /\ \A w \in Workers : WF_vars(WorkerStep(w))
    /\ WF_vars(ReapExpired)

FairSpec == Spec /\ Fairness

----------------------------------------------------------------------------
(* Properties *)

\* Types of the table, the workers and the history.
TypeOK ==
    /\ status \in [Keys -> Status]
    /\ due \in [Keys -> BOOLEAN]
    /\ expired \in [Keys -> BOOLEAN]
    /\ attempts \in [Keys -> Nat]
    /\ pc \in [Workers -> PC]
    /\ job \in [Workers -> Keys \union {NoJob}]
    /\ snapshot \in [Workers -> Nat]
    /\ probe \in [Workers -> 1..Lowest]
    /\ crashes \in 0..MaxCrashes
    /\ overruns \in 0..MaxOverruns
    /\ ran \subseteq Keys
    /\ reaps \in [Keys -> Nat]
    /\ retried \in [Keys -> SUBSET Nat]
    /\ waiting \in [Workers -> SUBSET Keys]

\* A job is leased at most max_attempts times plus once per reap: a stale worker's
\* late fail() cannot buy a job an attempt the reaper has not already paid for,
\* though it compares the attempts it read when it took its lease (queue.py fail).
AttemptsBounded == \A k \in Keys : attempts[k] <= MaxAttempts + reaps[k]

\* The leases out on a job, plus the one a ready job is about to give, number at most
\* one more than its reaps: only an expired lease lets two workers into one job.
HoldersBounded ==
    \A k \in Keys : Cardinality(Holders(k)) + (IF status[k] = "ready" THEN 1 ELSE 0)
                        <= 1 + reaps[k]

\* The pipeline is not cut by a crash: the jobs that a done job's handler enqueues
\* exist, because the handler's transaction comes before complete()'s.
ChainKept ==
    \A k \in Keys : status[k] = "done" => \A j \in Follow[k] : Exists(j)

\* "Control first": a worker that has polled down to a queue has left behind no job of
\* a queue above it that has been ready since the poll began (worker.py run_once).
HigherQueuesFirst ==
    \A w \in Workers : \A k \in waiting[w] : pc[w] = "poll" => Priority[k] >= probe[w]

\* Docs: "max 5 attempts, then status='dead'" (docs/engineering-spec.md section 6).
\* fail() counts the attempts; reap_expired() does not look at them.
NeverBeyondMaxAttempts == \A k \in Keys : attempts[k] <= MaxAttempts

\* Every job is done or dead in the end, in spite of crashes and overrun leases.
EventuallySettled ==
    <>[](\A k \in Keys : Exists(k) => status[k] \in {"done", "dead"})

\* The queue implements at-least-once delivery: queue.py's "At-least-once delivery with
\* leases" as AtLeastOnce.tla states it.
Outcome == [k \in Keys |-> IF status[k] = "absent" THEN "none"
                           ELSE IF status[k] \in {"done", "dead"} THEN status[k]
                           ELSE "open"]

Delivery == INSTANCE AtLeastOnce WITH outcome <- Outcome

ImplementsAtLeastOnce == Delivery!Spec
====
