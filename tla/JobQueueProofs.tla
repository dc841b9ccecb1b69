---- MODULE JobQueueProofs ----
(***************************************************************************)
(* Proofs about the job queue for any jobs, workers and bounds: types, how *)
(* often a job is leased, and how many workers can be inside one job.      *)
(***************************************************************************)
EXTENDS JobQueue, FiniteSetTheorems, TLAPS

\* A worker past its poll holds a job, and only then.
HoldingOK == \A w \in Workers : pc[w] = "poll" <=> job[w] = NoJob

\* Every lease has an attempt number of its own, and the attempts that failed into a
\* retry are leases that are over.
SnapshotsOK ==
    /\ \A w \in Workers : job[w] # NoJob =>
          /\ snapshot[w] \in 1..attempts[job[w]]
          /\ snapshot[w] \notin retried[job[w]]
    /\ \A v, w \in Workers : v # w /\ job[v] = job[w] /\ job[w] # NoJob
          => snapshot[v] # snapshot[w]

RetriedOK ==
    \A k \in Keys : retried[k] \subseteq 1..attempts[k] /\ retried[k] \subseteq 1..(MaxAttempts - 1)

\* A row that does not exist has no history.
AbsentOK ==
    \A k \in Keys : status[k] = "absent" => attempts[k] = 0 /\ \A w \in Workers : job[w] # k

Pending(k) == IF status[k] = "ready" THEN 1 ELSE 0

\* Every lease of a job is paid for by its insertion, by a reap, or by an attempt that
\* failed into a retry.
LeasesPaid ==
    \A k \in Keys : attempts[k] + Pending(k) <= 1 + reaps[k] + Cardinality(retried[k])

Accounts == SnapshotsOK /\ RetriedOK /\ AbsentOK /\ LeasesPaid

IInv == TypeOK /\ HoldingOK /\ Accounts

----------------------------------------------------------------------------
\* Insert keeps the table well typed and only turns absent rows into ready ones.
LEMMA InsertType ==
  ASSUME TypeOK, NEW ks \in SUBSET Keys, NEW now \in BOOLEAN, Insert(ks, now)
  PROVE  /\ status' \in [Keys -> Status]
         /\ due' \in [Keys -> BOOLEAN]
         /\ \A k \in Keys : \/ status'[k] = status[k]
                            \/ status[k] = "absent" /\ status'[k] = "ready"
  BY DEF TypeOK, Insert, Exists, Status

\* A worker past its poll is handling one of the jobs.
LEMMA HeldJob ==
  ASSUME TypeOK, HoldingOK, NEW w \in Workers, pc[w] # "poll"
  PROVE  job[w] \in Keys
  BY DEF TypeOK, HoldingOK

\* The types of the tables, workers and history hold for any jobs, workers and bounds.
LEMMA TypeStep ==
  ASSUME TypeOK, HoldingOK, [Next]_vars
  PROVE  TypeOK' /\ HoldingOK'
<1> USE FollowAssumption, PriorityAssumption, BoundsAssumption, KeysAssumption
<1>0. Next \/ UNCHANGED vars
  OBVIOUS
<1> waiting' \in [Workers -> SUBSET Keys] \/ waiting' = waiting
  <2>1. ASSUME Observe PROVE waiting' \in [Workers -> SUBSET Keys]
    BY <2>1 DEF Observe
  <2>2. ASSUME NEW w \in Workers, WorkerStep(w) \/ Crash(w) PROVE Observe
    BY <2>2, Zenon DEF WorkerStep, Lease, PollNext, HandlerCommits, HandlerRaises, Complete,
                       FailForGood, FailForNow, Crash
  <2>3. ASSUME NEW k \in Keys, Enqueue(k) \/ ClockStep(k) PROVE Observe
    BY <2>3, Zenon DEF Enqueue, ClockStep, BecomeDue, LeaseExpires
  <2>4. ASSUME ReapExpired PROVE Observe
    BY <2>4 DEF ReapExpired
  <2> QED
    BY <1>0, <2>1, <2>2, <2>3, <2>4 DEF Next, vars
<1> waiting' \in [Workers -> SUBSET Keys]
  BY DEF TypeOK
<1>1. ASSUME NEW k \in Keys, Enqueue(k) PROVE TypeOK' /\ HoldingOK'
  <2> PICK now \in BOOLEAN : Insert({k}, now)
    BY <1>1 DEF Enqueue
  <2>1. status' \in [Keys -> Status] /\ due' \in [Keys -> BOOLEAN]
    BY InsertType
  <2>2. UNCHANGED <<expired, attempts, pc, job, snapshot, probe, crashes, overruns, ran, reaps, retried>>
    BY <1>1 DEF Enqueue, bounds
  <2> QED
    BY <2>1, <2>2 DEF TypeOK, HoldingOK
<1>2. ASSUME NEW k \in Keys, BecomeDue(k) PROVE TypeOK' /\ HoldingOK'
  BY <1>2 DEF BecomeDue, TypeOK, HoldingOK, bounds
<1>3. ASSUME NEW k \in Keys, LeaseExpires(k) PROVE TypeOK' /\ HoldingOK'
  BY <1>3 DEF LeaseExpires, TypeOK, HoldingOK
<1>4. ASSUME NEW w \in Workers, NEW k \in Keys, Lease(w, k) PROVE TypeOK' /\ HoldingOK'
  BY <1>4 DEF Lease, TypeOK, HoldingOK, PC, Status, bounds
<1>5. ASSUME NEW w \in Workers, PollNext(w) PROVE TypeOK' /\ HoldingOK'
  <2>1. probe' \in [Workers -> 1..Lowest]
    BY <1>5 DEF PollNext, TypeOK
  <2>2. UNCHANGED <<status, due, expired, attempts, pc, job, snapshot, crashes, overruns, ran, reaps, retried>>
    BY <1>5 DEF PollNext, table, bounds
  <2> QED
    BY <2>1, <2>2 DEF TypeOK, HoldingOK
<1>6. ASSUME NEW w \in Workers, HandlerCommits(w) PROVE TypeOK' /\ HoldingOK'
  <2>1. job[w] \in Keys
    BY <1>6, HeldJob DEF HandlerCommits
  <2>2. PICK now \in BOOLEAN : Insert(Follow[job[w]], now)
    BY <1>6 DEF HandlerCommits
  <2>3. status' \in [Keys -> Status] /\ due' \in [Keys -> BOOLEAN]
    BY <2>1, <2>2, InsertType
  <2> QED
    BY <1>6, <2>1, <2>3 DEF HandlerCommits, TypeOK, HoldingOK, PC, bounds
<1>7. ASSUME NEW w \in Workers, HandlerRaises(w) PROVE TypeOK' /\ HoldingOK'
  BY <1>7 DEF HandlerRaises, TypeOK, HoldingOK, PC, table, bounds
<1>8. ASSUME NEW w \in Workers, NEW outcome \in Status, pc[w] # "poll", Settle(w, outcome)
      PROVE  /\ status' \in [Keys -> Status] /\ expired' \in [Keys -> BOOLEAN]
             /\ pc' \in [Workers -> PC] /\ job' \in [Workers -> Keys \union {NoJob}]
             /\ snapshot' \in [Workers -> Nat] /\ HoldingOK'
  BY <1>8, HeldJob DEF Settle, TypeOK, HoldingOK, PC
<1>9. ASSUME NEW w \in Workers, Complete(w) PROVE TypeOK' /\ HoldingOK'
  BY <1>9, <1>8 DEF Complete, Settle, TypeOK, Status, bounds
<1>10. ASSUME NEW w \in Workers, FailForGood(w) PROVE TypeOK' /\ HoldingOK'
  BY <1>10, <1>8 DEF FailForGood, Settle, TypeOK, Status, bounds
<1>11. ASSUME NEW w \in Workers, FailForNow(w) PROVE TypeOK' /\ HoldingOK'
  <2>1. pc[w] # "poll" /\ Settle(w, "ready") /\ job[w] \in Keys
    BY <1>11, HeldJob DEF FailForNow
  <2>2. due' \in [Keys -> BOOLEAN] /\ retried' \in [Keys -> SUBSET Nat]
    BY <1>11, <2>1 DEF FailForNow, TypeOK
  <2>3. UNCHANGED <<attempts, probe, crashes, overruns, ran, reaps>>
    BY <2>1 DEF Settle, bounds
  <2> QED
    BY <1>8, <2>1, <2>2, <2>3 DEF TypeOK, Status
<1>12. ASSUME NEW w \in Workers, Crash(w) PROVE TypeOK' /\ HoldingOK'
  BY <1>12 DEF Crash, TypeOK, HoldingOK, PC, table
<1>13. ASSUME ReapExpired PROVE TypeOK' /\ HoldingOK'
  <2>1. status' \in [Keys -> Status]
    BY <1>13 DEF ReapExpired, TypeOK, Status
  <2>3. expired' \in [Keys -> BOOLEAN]
    BY <1>13 DEF ReapExpired, TypeOK
  <2>4. reaps' \in [Keys -> Nat]
    <3>1. \A k \in Keys : reaps[k] + 1 \in Nat
      BY DEF TypeOK
    <3> QED
      BY <1>13, <3>1 DEF ReapExpired, TypeOK
  <2>2. UNCHANGED <<due, attempts, pc, job, snapshot, probe, crashes, overruns, ran, retried>>
    BY <1>13 DEF ReapExpired, bounds
  <2> QED
    BY <2>1, <2>2, <2>3, <2>4 DEF TypeOK, HoldingOK
<1>14. ASSUME UNCHANGED vars PROVE TypeOK' /\ HoldingOK'
  BY <1>14 DEF vars, TypeOK, HoldingOK
<1> QED
  BY <1>1, <1>2, <1>3, <1>4, <1>5, <1>6, <1>7, <1>9, <1>10, <1>11, <1>12, <1>13, <1>14
  DEF Next, WorkerStep, ClockStep

\* The table, the workers and the history keep their types (queue.py, worker.py).
THEOREM TypeCorrect == Spec => [](TypeOK /\ HoldingOK)
<1>1. Init => TypeOK /\ HoldingOK
  BY PriorityAssumption, BoundsAssumption DEF Init, TypeOK, HoldingOK, Status, PC
<1>2. TypeOK /\ HoldingOK /\ [Next]_vars => TypeOK' /\ HoldingOK'
  BY TypeStep
<1> QED
  BY <1>1, <1>2, PTL DEF Spec

----------------------------------------------------------------------------
\* The attempts that failed into a retry are fewer than max_attempts.
LEMMA RetriedBound ==
  ASSUME RetriedOK, NEW k \in Keys
  PROVE  /\ IsFiniteSet(retried[k])
         /\ Cardinality(retried[k]) \in Nat
         /\ Cardinality(retried[k]) <= MaxAttempts - 1
<1>1. retried[k] \in SUBSET (1..(MaxAttempts - 1))
  BY DEF RetriedOK
<1>2. /\ IsFiniteSet(1..(MaxAttempts - 1))
      /\ Cardinality(1..(MaxAttempts - 1)) = MaxAttempts - 1
  <2>1. 1 \in Int /\ MaxAttempts - 1 \in Int
    BY BoundsAssumption
  <2> QED
    BY <2>1, BoundsAssumption, FS_Interval
<1> QED
  BY <1>1, <1>2, FS_Subset, FS_CardinalityType

\* A step that leases and settles nothing keeps the accounts: it may at most turn absent
\* rows into ready ones.
LEMMA QuietStep ==
  ASSUME TypeOK, Accounts,
         UNCHANGED <<attempts, job, snapshot, reaps, retried>>,
         \A k \in Keys : \/ status'[k] = status[k]
                         \/ status[k] = "absent" /\ status'[k] = "ready"
  PROVE  Accounts'
<1>1. SnapshotsOK' /\ RetriedOK' /\ AbsentOK'
  BY DEF Accounts, SnapshotsOK, RetriedOK, AbsentOK
<1>2. ASSUME NEW k \in Keys
      PROVE  attempts'[k] + Pending(k)' <= 1 + reaps'[k] + Cardinality(retried'[k])
  <2>1. Cardinality(retried[k]) \in Nat
    BY RetriedBound DEF Accounts
  <2>2. attempts[k] \in Nat /\ reaps[k] \in Nat
    BY DEF TypeOK
  <2>3. attempts[k] + Pending(k) <= 1 + reaps[k] + Cardinality(retried[k])
    BY DEF Accounts, LeasesPaid
  <2>4. status[k] = "absent" => attempts[k] = 0
    BY DEF Accounts, AbsentOK
  <2> QED
    BY <2>1, <2>2, <2>3, <2>4 DEF Pending
<1> QED
  BY <1>1, <1>2 DEF Accounts, LeasesPaid

\* A lease takes the ready row's claim to one lease.
LEMMA LeaseStep ==
  ASSUME TypeOK, HoldingOK, Accounts, NEW w \in Workers, NEW k \in Keys, Lease(w, k)
  PROVE  Accounts'
<1> USE KeysAssumption
<1>1. /\ attempts' = [attempts EXCEPT ![k] = @ + 1]
      /\ job' = [job EXCEPT ![w] = k]
      /\ snapshot' = [snapshot EXCEPT ![w] = attempts[k] + 1]
      /\ status' = [status EXCEPT ![k] = "leased"]
      /\ UNCHANGED <<reaps, retried>>
      /\ status[k] = "ready"
  BY DEF Lease, Ready
<1>2. \A j \in Keys : attempts[j] \in Nat /\ attempts'[j] \in Nat /\ reaps[j] \in Nat
  BY <1>1 DEF TypeOK
<1>3. \A v \in Workers : job[v] # NoJob => job[v] \in Keys
  BY DEF TypeOK
<1>4. \A j \in Keys : attempts[j] <= attempts'[j]
  BY <1>1, <1>2 DEF TypeOK
<1>5. RetriedOK'
  BY <1>1, <1>2, <1>4 DEF Accounts, RetriedOK
<1>6. SnapshotsOK'
  <2>1. attempts[k] + 1 \notin retried[k] /\ attempts'[k] = attempts[k] + 1
    BY <1>1, <1>2 DEF Accounts, RetriedOK, TypeOK
  <2>2. ASSUME NEW v \in Workers, job'[v] # NoJob
        PROVE  snapshot'[v] \in 1..attempts'[job'[v]] /\ snapshot'[v] \notin retried'[job'[v]]
    <3>1. CASE v = w
      BY <1>1, <1>2, <2>1, <3>1 DEF TypeOK
    <3>2. CASE v # w
      <4>1. job'[v] = job[v] /\ snapshot'[v] = snapshot[v] /\ job[v] \in Keys
        BY <1>1, <1>3, <2>2, <3>2 DEF TypeOK
      <4>2. snapshot[v] \in 1..attempts[job[v]] /\ snapshot[v] \notin retried[job[v]]
        BY <2>2, <4>1 DEF Accounts, SnapshotsOK
      <4> QED
        BY <1>1, <1>2, <1>4, <4>1, <4>2
    <3> QED
      BY <3>1, <3>2
  <2>3. ASSUME NEW u \in Workers, NEW v \in Workers, u # v, job'[u] = job'[v], job'[v] # NoJob
        PROVE  snapshot'[u] # snapshot'[v]
    <3>1. \A x \in Workers : x # w => job'[x] = job[x] /\ snapshot'[x] = snapshot[x]
      BY <1>1 DEF TypeOK
    <3>2. job'[w] = k /\ snapshot'[w] = attempts[k] + 1
      BY <1>1 DEF TypeOK
    <3>3. \A x \in Workers : job[x] = k => snapshot[x] \in 1..attempts[k]
      BY DEF Accounts, SnapshotsOK
    <3>4. CASE u # w /\ v # w
      BY <2>3, <3>1, <3>4 DEF Accounts, SnapshotsOK
    <3>5. CASE u = w
      BY <1>2, <2>3, <3>1, <3>2, <3>3, <3>5
    <3>6. CASE v = w
      BY <1>2, <2>3, <3>1, <3>2, <3>3, <3>6
    <3> QED
      BY <3>4, <3>5, <3>6
  <2> QED
    BY <2>2, <2>3 DEF SnapshotsOK
<1>7. AbsentOK'
  BY <1>1 DEF Accounts, AbsentOK, TypeOK
<1>8. LeasesPaid'
  <2> SUFFICES ASSUME NEW j \in Keys
               PROVE  attempts'[j] + Pending(j)' <= 1 + reaps'[j] + Cardinality(retried'[j])
    BY DEF LeasesPaid
  <2>1. attempts[j] + Pending(j) <= 1 + reaps[j] + Cardinality(retried[j])
    BY DEF Accounts, LeasesPaid
  <2>2. CASE j = k
    BY <1>1, <1>2, <2>1, <2>2 DEF Pending, TypeOK
  <2>3. CASE j # k
    BY <1>1, <2>1, <2>3 DEF Pending, TypeOK
  <2> QED
    BY <2>2, <2>3
<1> QED
  BY <1>5, <1>6, <1>7, <1>8 DEF Accounts

\* A worker that lets go of its job, without adding to what is ready, keeps the accounts.
LEMMA LetGoStep ==
  ASSUME TypeOK, Accounts, NEW w \in Workers,
         job' = [job EXCEPT ![w] = NoJob],
         snapshot' = [snapshot EXCEPT ![w] = 0],
         UNCHANGED <<attempts, reaps, retried>>,
         \A k \in Keys : \/ status'[k] = status[k]
                         \/ job[w] = k /\ status'[k] \in {"done", "dead"}
  PROVE  Accounts'
<1> USE KeysAssumption
<1>1. \A v \in Workers : job'[v] # NoJob =>
         v # w /\ job'[v] = job[v] /\ snapshot'[v] = snapshot[v]
  BY DEF TypeOK
<1>2. SnapshotsOK' /\ RetriedOK'
  BY <1>1 DEF Accounts, SnapshotsOK, RetriedOK
<1>3. AbsentOK'
  BY <1>1 DEF Accounts, AbsentOK
<1>4. ASSUME NEW k \in Keys
      PROVE  attempts'[k] + Pending(k)' <= 1 + reaps'[k] + Cardinality(retried'[k])
  <2>1. attempts[k] \in Nat /\ reaps[k] \in Nat /\ Cardinality(retried[k]) \in Nat
    BY RetriedBound DEF TypeOK, Accounts
  <2>2. attempts[k] + Pending(k) <= 1 + reaps[k] + Cardinality(retried[k])
    BY DEF Accounts, LeasesPaid
  <2> QED
    BY <2>1, <2>2 DEF Pending
<1> QED
  BY <1>2, <1>3, <1>4 DEF Accounts, LeasesPaid

\* A failure into a retry pays for the lease it makes possible with its attempt number,
\* which no other worker has and no earlier retry used.
LEMMA RetryStep ==
  ASSUME TypeOK, HoldingOK, Accounts, NEW w \in Workers, FailForNow(w)
  PROVE  Accounts'
<1> DEFINE j == job[w]
           n == snapshot[w]
<1> USE KeysAssumption
<1>1. j \in Keys /\ pc[w] # "poll"
  BY HeldJob DEF FailForNow
<1>2. /\ status' = [status EXCEPT ![j] = "ready"]
      /\ job' = [job EXCEPT ![w] = NoJob]
      /\ snapshot' = [snapshot EXCEPT ![w] = 0]
      /\ retried' = [retried EXCEPT ![j] = @ \union {n}]
      /\ UNCHANGED <<attempts, reaps>>
      /\ ~LastAttempt(w)
  BY DEF FailForNow, Settle
<1>3. n \in 1..attempts[j] /\ n \notin retried[j] /\ attempts[j] \in Nat
  BY <1>1 DEF Accounts, SnapshotsOK, TypeOK
<1>4. n \in 1..(MaxAttempts - 1)
  BY <1>2, <1>3, BoundsAssumption DEF LastAttempt
<1>5. \A v \in Workers : job'[v] # NoJob =>
         v # w /\ job'[v] = job[v] /\ snapshot'[v] = snapshot[v]
  BY <1>2 DEF TypeOK
<1>6. retried'[j] = retried[j] \union {n} /\ \A k \in Keys : k # j => retried'[k] = retried[k]
  BY <1>1, <1>2 DEF TypeOK
<1>7. RetriedOK'
  BY <1>2, <1>3, <1>4, <1>6 DEF Accounts, RetriedOK
<1>8. SnapshotsOK'
  <2>1. ASSUME NEW v \in Workers, job'[v] # NoJob
        PROVE  snapshot'[v] \in 1..attempts'[job'[v]] /\ snapshot'[v] \notin retried'[job'[v]]
    <3>1. job[v] \in Keys /\ v # w /\ job'[v] = job[v] /\ snapshot'[v] = snapshot[v]
      BY <1>5, <2>1 DEF TypeOK
    <3>2. snapshot[v] \in 1..attempts[job[v]] /\ snapshot[v] \notin retried[job[v]]
      BY <3>1 DEF Accounts, SnapshotsOK
    <3>3. job[v] = j => snapshot[v] # n
      BY <1>1, <3>1 DEF Accounts, SnapshotsOK
    <3> QED
      BY <1>2, <1>6, <3>1, <3>2, <3>3
  <2> QED
    BY <1>5, <2>1 DEF Accounts, SnapshotsOK
<1>9. AbsentOK'
  <2>1. status[j] # "absent"
    BY <1>1 DEF Accounts, AbsentOK
  <2> QED
    BY <1>1, <1>2, <1>5, <2>1 DEF Accounts, AbsentOK, TypeOK
<1>10. LeasesPaid'
  <2> SUFFICES ASSUME NEW k \in Keys
               PROVE  attempts'[k] + Pending(k)' <= 1 + reaps'[k] + Cardinality(retried'[k])
    BY DEF LeasesPaid
  <2>1. /\ attempts[k] \in Nat /\ reaps[k] \in Nat
        /\ IsFiniteSet(retried[k]) /\ Cardinality(retried[k]) \in Nat
    BY RetriedBound DEF TypeOK, Accounts
  <2>2. attempts[k] + Pending(k) <= 1 + reaps[k] + Cardinality(retried[k])
    BY DEF Accounts, LeasesPaid
  <2>3. CASE k # j
    BY <1>1, <1>2, <1>6, <2>2, <2>3 DEF Pending, TypeOK
  <2>4. CASE k = j
    <3>1. Cardinality(retried'[k]) = Cardinality(retried[k]) + 1
      BY <1>3, <1>6, <2>1, <2>4, FS_AddElement
    <3> QED
      BY <1>2, <2>1, <2>2, <3>1 DEF Pending
  <2> QED
    BY <2>3, <2>4
<1> QED
  BY <1>7, <1>8, <1>9, <1>10 DEF Accounts

\* A reap pays for the lease it makes possible.
LEMMA ReapStep ==
  ASSUME TypeOK, Accounts, ReapExpired
  PROVE  Accounts'
<1>1. UNCHANGED <<attempts, job, snapshot, retried>>
  BY DEF ReapExpired
<1>2. \A k \in Keys : \/ status'[k] = status[k] /\ reaps'[k] = reaps[k]
                      \/ status[k] = "leased" /\ status'[k] = "ready" /\ reaps'[k] = reaps[k] + 1
  BY DEF ReapExpired, Expired
<1>3. SnapshotsOK' /\ RetriedOK' /\ AbsentOK'
  BY <1>1, <1>2 DEF Accounts, SnapshotsOK, RetriedOK, AbsentOK
<1>4. ASSUME NEW k \in Keys
      PROVE  attempts'[k] + Pending(k)' <= 1 + reaps'[k] + Cardinality(retried'[k])
  <2>1. attempts[k] \in Nat /\ reaps[k] \in Nat /\ Cardinality(retried[k]) \in Nat
    BY RetriedBound DEF TypeOK, Accounts
  <2>2. attempts[k] + Pending(k) <= 1 + reaps[k] + Cardinality(retried[k])
    BY DEF Accounts, LeasesPaid
  <2> QED
    BY <1>1, <1>2, <2>1, <2>2 DEF Pending
<1> QED
  BY <1>3, <1>4 DEF Accounts, LeasesPaid

\* Every step keeps the accounts of leases, retries and reaps.
LEMMA AccountsStep ==
  ASSUME TypeOK, HoldingOK, Accounts, [Next]_vars
  PROVE  Accounts'
<1>1. ASSUME NEW k \in Keys, Enqueue(k) PROVE Accounts'
  <2>1. PICK now \in BOOLEAN : Insert({k}, now)
    BY <1>1 DEF Enqueue
  <2> QED
    BY <1>1, <2>1, InsertType, QuietStep DEF Enqueue
<1>2. ASSUME NEW k \in Keys, ClockStep(k) PROVE Accounts'
  BY <1>2, QuietStep DEF ClockStep, BecomeDue, LeaseExpires
<1>3. ASSUME NEW w \in Workers, NEW k \in Keys, Lease(w, k) PROVE Accounts'
  BY <1>3, LeaseStep
<1>4. ASSUME NEW w \in Workers, PollNext(w) \/ HandlerRaises(w) PROVE Accounts'
  BY <1>4, QuietStep DEF PollNext, HandlerRaises, table
<1>5. ASSUME NEW w \in Workers, HandlerCommits(w) PROVE Accounts'
  <2>1. job[w] \in Keys
    BY <1>5, HeldJob DEF HandlerCommits
  <2>2. PICK now \in BOOLEAN : Insert(Follow[job[w]], now)
    BY <1>5 DEF HandlerCommits
  <2>3. Follow[job[w]] \in SUBSET Keys
    BY <2>1, FollowAssumption
  <2> QED
    BY <1>5, <2>2, <2>3, InsertType, QuietStep DEF HandlerCommits
<1>6. ASSUME NEW w \in Workers, Complete(w) PROVE Accounts'
  BY <1>6, LetGoStep DEF Complete, Settle, TypeOK
<1>7. ASSUME NEW w \in Workers, FailForGood(w) PROVE Accounts'
  BY <1>7, LetGoStep DEF FailForGood, Settle, TypeOK
<1>8. ASSUME NEW w \in Workers, FailForNow(w) PROVE Accounts'
  BY <1>8, RetryStep
<1>9. ASSUME NEW w \in Workers, Crash(w) PROVE Accounts'
  BY <1>9, LetGoStep DEF Crash, table
<1>10. ASSUME ReapExpired PROVE Accounts'
  BY <1>10, ReapStep
<1>11. ASSUME UNCHANGED vars PROVE Accounts'
  BY <1>11, QuietStep DEF vars
<1> QED
  BY <1>1, <1>2, <1>3, <1>4, <1>5, <1>6, <1>7, <1>8, <1>9, <1>10, <1>11 DEF Next, WorkerStep

\* The empty queue has nothing to account for.
LEMMA InitAccounts ==
  ASSUME Init
  PROVE  IInv
<1>1. TypeOK /\ HoldingOK
  BY PriorityAssumption, BoundsAssumption DEF Init, TypeOK, HoldingOK, Status, PC
<1>2. Accounts
  BY FS_EmptySet, KeysAssumption
  DEF Init, Accounts, SnapshotsOK, RetriedOK, AbsentOK, LeasesPaid, Pending
<1> QED
  BY <1>1, <1>2 DEF IInv

\* However leases expire, workers crash and stale workers settle, a job is leased at most
\* max_attempts times plus once per reap (queue.py fail, reap_expired).
THEOREM AttemptsAreBounded == Spec => []AttemptsBounded
<1>1. Init => IInv
  BY InitAccounts
<1>2. IInv /\ [Next]_vars => IInv'
  BY TypeStep, AccountsStep DEF IInv
<1>3. IInv => AttemptsBounded
  <2> SUFFICES ASSUME IInv, NEW k \in Keys PROVE attempts[k] <= MaxAttempts + reaps[k]
    BY DEF AttemptsBounded
  <2>1. /\ attempts[k] \in Nat /\ reaps[k] \in Nat /\ Cardinality(retried[k]) \in Nat
        /\ Cardinality(retried[k]) <= MaxAttempts - 1
    BY RetriedBound DEF IInv, TypeOK, Accounts
  <2>2. attempts[k] + Pending(k) <= 1 + reaps[k] + Cardinality(retried[k])
    BY DEF IInv, Accounts, LeasesPaid
  <2> QED
    BY <2>1, <2>2, BoundsAssumption DEF Pending
<1> QED
  BY <1>1, <1>2, <1>3, PTL DEF Spec

----------------------------------------------------------------------------
\* What the queue has to remember to keep its promise: a held job exists, a job on its way
\* to complete() has run, and so has every done one.
DeliveryOK ==
    /\ \A w \in Workers : job[w] # NoJob => status[job[w]] # "absent"
    /\ \A w \in Workers : pc[w] = "commit" => job[w] \in ran

\* Every step of the queue keeps DeliveryOK and is a step of AtLeastOnce or a stutter.
LEMMA DeliveryStep ==
  ASSUME TypeOK, HoldingOK, DeliveryOK, [Next]_vars
  PROVE  DeliveryOK' /\ [Delivery!Next]_(Delivery!vars)
<1> USE KeysAssumption
<1> DEFINE Stays == ran' = ran /\ Outcome' = Outcome
<1>0. ASSUME Stays \/ \E k \in Keys : \/ Delivery!Submit(k) \/ Delivery!Execute(k)
                                     \/ Delivery!Acknowledge(k) \/ Delivery!GiveUp(k)
                                     \/ Delivery!Reopen(k)
      PROVE  [Delivery!Next]_(Delivery!vars)
  BY <1>0 DEF Delivery!Next, Delivery!vars
<1>1. ASSUME NEW k \in Keys, Enqueue(k) PROVE DeliveryOK' /\ Delivery!Submit(k)
  <2>1. PICK now \in BOOLEAN : Insert({k}, now)
    BY <1>1 DEF Enqueue
  <2>2. DeliveryOK'
    BY <1>1, <2>1, InsertType DEF Enqueue, DeliveryOK, TypeOK, Status
  <2>3. k \in Roots /\ status[k] = "absent" /\ UNCHANGED ran
    BY <1>1 DEF Enqueue, Exists
  <2>4. status' = [status EXCEPT ![k] = "ready"]
    BY <2>1, <2>3 DEF Insert, Exists, TypeOK
  <2>5. Outcome[k] = "none" /\ Outcome' = [Outcome EXCEPT ![k] = "open"]
    BY <2>3, <2>4 DEF Outcome, TypeOK
  <2> QED
    BY <2>2, <2>3, <2>5 DEF Delivery!Submit
<1>2. ASSUME NEW k \in Keys, ClockStep(k) PROVE DeliveryOK' /\ Stays
  BY <1>2 DEF ClockStep, BecomeDue, LeaseExpires, DeliveryOK, Outcome
<1>3. ASSUME NEW w \in Workers, NEW k \in Keys, Lease(w, k) PROVE DeliveryOK' /\ Stays
  <2>1. /\ job' = [job EXCEPT ![w] = k] /\ pc' = [pc EXCEPT ![w] = "handle"]
        /\ status[k] = "ready" /\ status' = [status EXCEPT ![k] = "leased"]
        /\ UNCHANGED ran
    BY <1>3 DEF Lease, Ready
  <2>2. DeliveryOK'
    BY <2>1 DEF DeliveryOK, TypeOK
  <2>3. Outcome' = Outcome
    BY <2>1 DEF Outcome, TypeOK
  <2> QED
    BY <2>1, <2>2, <2>3
<1>4. ASSUME NEW w \in Workers, PollNext(w) PROVE DeliveryOK' /\ Stays
  BY <1>4 DEF PollNext, DeliveryOK, Outcome, table
<1>5. ASSUME NEW w \in Workers, HandlerRaises(w) PROVE DeliveryOK' /\ Stays
  BY <1>5 DEF HandlerRaises, DeliveryOK, Outcome, table, TypeOK
<1>6. ASSUME NEW w \in Workers, HandlerCommits(w) PROVE DeliveryOK' /\ Delivery!Execute(job[w])
  <2>1. job[w] \in Keys /\ status[job[w]] # "absent"
    BY <1>6, HeldJob DEF HandlerCommits, DeliveryOK
  <2>2. PICK now \in BOOLEAN : Insert(Follow[job[w]], now)
    BY <1>6 DEF HandlerCommits
  <2>3. UNCHANGED job /\ ran' = ran \union {job[w]} /\ pc' = [pc EXCEPT ![w] = "commit"]
    BY <1>6 DEF HandlerCommits
  <2>4. Follow[job[w]] \in SUBSET Keys
    BY <2>1, FollowAssumption
  <2>5. \A k \in Keys : \/ status'[k] = status[k]
                        \/ status[k] = "absent" /\ status'[k] = "ready"
    BY <2>2, <2>4, InsertType
  <2>6. DeliveryOK'
    BY <2>3, <2>5 DEF DeliveryOK, TypeOK
  <2>7. Outcome' = [k \in Keys |-> IF k \in Follow[job[w]] /\ Outcome[k] = "none"
                                   THEN "open" ELSE Outcome[k]]
    BY <2>2 DEF Outcome, Insert, Exists, TypeOK, Status
  <2>8. Outcome[job[w]] # "none"
    BY <2>1 DEF Outcome
  <2> QED
    BY <2>3, <2>6, <2>7, <2>8 DEF Delivery!Execute
<1>7. ASSUME NEW w \in Workers, NEW outcome \in {"ready", "done", "dead"},
             pc[w] # "poll", Settle(w, outcome)
      PROVE  /\ DeliveryOK'
             /\ job[w] \in Keys /\ Outcome[job[w]] # "none" /\ UNCHANGED ran
             /\ Outcome' = [Outcome EXCEPT ![job[w]] = IF outcome = "ready" THEN "open" ELSE outcome]
  <2>1. job[w] \in Keys /\ status[job[w]] # "absent"
    BY <1>7, HeldJob DEF DeliveryOK
  <2>2. /\ status' = [status EXCEPT ![job[w]] = outcome]
        /\ pc' = [pc EXCEPT ![w] = "poll"] /\ job' = [job EXCEPT ![w] = NoJob]
        /\ UNCHANGED ran
    BY <1>7 DEF Settle
  <2>3. DeliveryOK'
    BY <2>1, <2>2 DEF DeliveryOK, TypeOK
  <2> QED
    BY <2>1, <2>2, <2>3 DEF Outcome, TypeOK
<1>8. ASSUME NEW w \in Workers, Complete(w) PROVE DeliveryOK' /\ \E k \in Keys : Delivery!Acknowledge(k)
  BY <1>7, <1>8 DEF Complete, DeliveryOK, Delivery!Acknowledge
<1>9. ASSUME NEW w \in Workers, FailForGood(w) PROVE DeliveryOK' /\ \E k \in Keys : Delivery!GiveUp(k)
  BY <1>7, <1>9 DEF FailForGood, Delivery!GiveUp
<1>10. ASSUME NEW w \in Workers, FailForNow(w) PROVE DeliveryOK' /\ \E k \in Keys : Delivery!Reopen(k)
  BY <1>7, <1>10 DEF FailForNow, Delivery!Reopen
<1>11. ASSUME NEW w \in Workers, Crash(w) PROVE DeliveryOK' /\ Stays
  BY <1>11 DEF Crash, DeliveryOK, Outcome, table, TypeOK
<1>12. ASSUME ReapExpired PROVE DeliveryOK' /\ Stays
  <2>1. UNCHANGED <<pc, job, ran>>
    BY <1>12 DEF ReapExpired
  <2>2. \A k \in Keys : status'[k] = status[k] \/ (status[k] = "leased" /\ status'[k] = "ready")
    BY <1>12 DEF ReapExpired, Expired
  <2> QED
    BY <2>1, <2>2 DEF DeliveryOK, Outcome, TypeOK
<1>13. ASSUME UNCHANGED vars PROVE DeliveryOK' /\ Stays
  BY <1>13 DEF vars, DeliveryOK, Outcome
<1>14. ASSUME NEW w \in Workers, HandlerCommits(w) PROVE job[w] \in Keys
  BY <1>14, HeldJob DEF HandlerCommits
<1> QED
  BY <1>0, <1>1, <1>2, <1>3, <1>4, <1>5, <1>6, <1>8, <1>9, <1>10, <1>11, <1>12, <1>13, <1>14
  DEF Next, WorkerStep

\* The queue and its workers implement at-least-once delivery: a job counts as done only
\* after its handler has committed, with the jobs the handler enqueued.
THEOREM QueueImplementsAtLeastOnce == Spec => ImplementsAtLeastOnce
<1> DEFINE DInv == TypeOK /\ HoldingOK /\ DeliveryOK
<1>1. Init => DInv /\ Delivery!Init
  <2>1. Init => TypeOK /\ HoldingOK
    BY PriorityAssumption, BoundsAssumption DEF Init, TypeOK, HoldingOK, Status, PC
  <2>2. Init => DeliveryOK /\ Delivery!Init
    BY KeysAssumption DEF Init, DeliveryOK, Delivery!Init, Outcome
  <2> QED
    BY <2>1, <2>2
<1>2. DInv /\ [Next]_vars => DInv' /\ [Delivery!Next]_(Delivery!vars)
  BY TypeStep, DeliveryStep
<1> QED
  BY <1>1, <1>2, PTL DEF Spec, ImplementsAtLeastOnce, Delivery!Spec

----------------------------------------------------------------------------
\* A handler that has committed has left its jobs in the table, where nothing deletes a
\* row, and a done job's handler has committed.
ChainOK ==
    /\ \A k \in ran : \A j \in Follow[k] : Exists(j)
    /\ \A k \in Keys : status[k] = "done" => k \in ran

\* A step after which every row still exists, no new handler has committed and no job is
\* newly done keeps the chain.
LEMMA ChainQuiet ==
  ASSUME TypeOK, ChainOK, UNCHANGED ran,
         \A k \in Keys : /\ status[k] # "absent" => status'[k] # "absent"
                         /\ status'[k] = "done" => status[k] = "done" \/ k \in ran
  PROVE  ChainOK'
<1>1. \A k \in ran : Follow[k] \in SUBSET Keys
  BY FollowAssumption DEF TypeOK
<1> QED
  BY <1>1 DEF ChainOK, Exists

\* Every step keeps the chain: complete() comes after the commit that enqueued the jobs.
LEMMA ChainStep ==
  ASSUME TypeOK, HoldingOK, DeliveryOK, ChainOK, [Next]_vars
  PROVE  ChainOK'
<1>1. ASSUME NEW k \in Keys, Enqueue(k) PROVE ChainOK'
  <2>1. PICK now \in BOOLEAN : Insert({k}, now)
    BY <1>1 DEF Enqueue
  <2> QED
    BY <1>1, <2>1, InsertType, ChainQuiet DEF Enqueue
<1>2. ASSUME NEW k \in Keys, ClockStep(k) PROVE ChainOK'
  BY <1>2, ChainQuiet DEF ClockStep, BecomeDue, LeaseExpires
<1>3. ASSUME NEW w \in Workers, NEW k \in Keys, Lease(w, k) PROVE ChainOK'
  BY <1>3, ChainQuiet DEF Lease, Ready, TypeOK
<1>4. ASSUME NEW w \in Workers, PollNext(w) \/ HandlerRaises(w) \/ Crash(w) PROVE ChainOK'
  BY <1>4, ChainQuiet DEF PollNext, HandlerRaises, Crash, table
<1>5. ASSUME NEW w \in Workers, HandlerCommits(w) PROVE ChainOK'
  <2>1. job[w] \in Keys
    BY <1>5, HeldJob DEF HandlerCommits
  <2>2. PICK now \in BOOLEAN : Insert(Follow[job[w]], now)
    BY <1>5 DEF HandlerCommits
  <2>3. \A k \in Keys : Follow[k] \in SUBSET Keys
    BY FollowAssumption
  <2>4. \A k \in Keys : \/ status'[k] = status[k]
                        \/ status[k] = "absent" /\ status'[k] = "ready"
    BY <2>1, <2>2, <2>3, InsertType
  <2>5. \A j \in Follow[job[w]] : status'[j] # "absent"
    BY <2>1, <2>2, <2>3 DEF Insert, Exists
  <2>6. ran' = ran \union {job[w]} /\ ran \subseteq Keys
    BY <1>5 DEF HandlerCommits, TypeOK
  <2> QED
    BY <2>3, <2>4, <2>5, <2>6 DEF ChainOK, Exists
<1>6. ASSUME NEW w \in Workers, Complete(w) PROVE ChainOK'
  <2>1. job[w] \in ran
    BY <1>6 DEF Complete, DeliveryOK
  <2> QED
    BY <1>6, <2>1, ChainQuiet DEF Complete, Settle, TypeOK
<1>7. ASSUME NEW w \in Workers, FailForGood(w) \/ FailForNow(w) PROVE ChainOK'
  BY <1>7, ChainQuiet DEF FailForGood, FailForNow, Settle, TypeOK
<1>8. ASSUME ReapExpired PROVE ChainOK'
  BY <1>8, ChainQuiet DEF ReapExpired, Expired
<1>9. ASSUME UNCHANGED vars PROVE ChainOK'
  BY <1>9, ChainQuiet DEF vars
<1> QED
  BY <1>1, <1>2, <1>3, <1>4, <1>5, <1>6, <1>7, <1>8, <1>9 DEF Next, WorkerStep

\* Wherever a worker crashes or loses its lease, a done job's follow-up jobs are in the
\* queue: they were committed before complete() ran (worker.py _handle).
THEOREM ChainIsKept == Spec => []ChainKept
<1> DEFINE CInv == TypeOK /\ HoldingOK /\ DeliveryOK /\ ChainOK
<1>1. Init => CInv
  <2>1. Init => TypeOK /\ HoldingOK
    BY PriorityAssumption, BoundsAssumption DEF Init, TypeOK, HoldingOK, Status, PC
  <2> QED
    BY <2>1 DEF Init, DeliveryOK, ChainOK
<1>2. CInv /\ [Next]_vars => CInv'
  BY TypeStep, DeliveryStep, ChainStep
<1>3. CInv => ChainKept
  BY DEF ChainOK, ChainKept
<1> QED
  BY <1>1, <1>2, <1>3, PTL DEF Spec

----------------------------------------------------------------------------
\* The workers in a job are finitely many.
LEMMA HoldersFinite ==
  ASSUME NEW k \in Keys
  PROVE  IsFiniteSet(Holders(k)) /\ Cardinality(Holders(k)) \in Nat
  BY WorkersAssumption, FS_Subset, FS_CardinalityType DEF Holders

\* A step in which nobody takes or leaves a job and nothing is reaped may at most turn
\* absent rows, which have no holder, into ready ones.
LEMMA HoldersQuiet ==
  ASSUME TypeOK, AbsentOK, HoldersBounded, UNCHANGED <<job, reaps>>,
         \A k \in Keys : \/ status'[k] = status[k]
                         \/ status[k] = "absent" /\ status'[k] = "ready"
  PROVE  HoldersBounded'
<1> SUFFICES ASSUME NEW k \in Keys
             PROVE  Cardinality(Holders(k)') + Pending(k)' <= 1 + reaps'[k]
  BY DEF HoldersBounded, Pending
<1>1. Cardinality(Holders(k)) + Pending(k) <= 1 + reaps[k]
  BY DEF HoldersBounded, Pending
<1>2. Holders(k)' = Holders(k) /\ reaps'[k] = reaps[k]
  BY DEF Holders
<1>3. CASE status'[k] = status[k]
  BY <1>1, <1>2, <1>3 DEF Pending
<1>4. CASE status[k] = "absent" /\ status'[k] = "ready"
  <2>1. Holders(k) = {}
    BY <1>4 DEF AbsentOK, Holders
  <2>2. Cardinality(Holders(k)') = 0
    BY <1>2, <2>1, FS_EmptySet
  <2> QED
    BY <1>2, <1>4, <2>2 DEF Pending, TypeOK
<1> QED
  BY <1>3, <1>4

\* A lease turns the ready row's claim into a holder.
LEMMA HoldersLease ==
  ASSUME TypeOK, HoldingOK, HoldersBounded, NEW w \in Workers, NEW j \in Keys, Lease(w, j)
  PROVE  HoldersBounded'
<1> USE KeysAssumption
<1> SUFFICES ASSUME NEW k \in Keys
             PROVE  Cardinality(Holders(k)') + Pending(k)' <= 1 + reaps'[k]
  BY DEF HoldersBounded, Pending
<1>1. Cardinality(Holders(k)) + Pending(k) <= 1 + reaps[k]
  BY DEF HoldersBounded, Pending
<1>2. /\ job' = [job EXCEPT ![w] = j] /\ job[w] = NoJob
      /\ status' = [status EXCEPT ![j] = "leased"] /\ status[j] = "ready"
      /\ UNCHANGED reaps
  BY DEF Lease, Ready, HoldingOK
<1>3. IsFiniteSet(Holders(k)) /\ Cardinality(Holders(k)) \in Nat /\ reaps[k] \in Nat
  BY HoldersFinite DEF TypeOK
<1>4. CASE k = j
  <2>1. Holders(k)' = Holders(k) \union {w} /\ w \notin Holders(k)
    BY <1>2, <1>4 DEF Holders, TypeOK
  <2>2. Cardinality(Holders(k)') = Cardinality(Holders(k)) + 1
    BY <1>3, <2>1, FS_AddElement
  <2>3. Pending(k) = 1 /\ Pending(k)' = 0
    BY <1>2, <1>4 DEF Pending, TypeOK
  <2> QED
    BY <1>1, <1>2, <1>3, <2>2, <2>3
<1>5. CASE k # j
  <2>1. Holders(k)' = Holders(k) /\ Pending(k)' = Pending(k)
    BY <1>2, <1>5 DEF Holders, Pending, TypeOK
  <2> QED
    BY <1>1, <1>2, <2>1
<1> QED
  BY <1>4, <1>5

\* A worker that lets go of its job makes room for the lease the row may offer again.
LEMMA HoldersLetGo ==
  ASSUME TypeOK, HoldingOK, HoldersBounded, NEW w \in Workers, pc[w] # "poll",
         job' = [job EXCEPT ![w] = NoJob], UNCHANGED reaps,
         \A k \in Keys : k # job[w] => status'[k] = status[k]
  PROVE  HoldersBounded'
<1> USE KeysAssumption
<1> SUFFICES ASSUME NEW k \in Keys
             PROVE  Cardinality(Holders(k)') + Pending(k)' <= 1 + reaps'[k]
  BY DEF HoldersBounded, Pending
<1>1. Cardinality(Holders(k)) + Pending(k) <= 1 + reaps[k]
  BY DEF HoldersBounded, Pending
<1>2. IsFiniteSet(Holders(k)) /\ Cardinality(Holders(k)) \in Nat /\ reaps[k] \in Nat
  BY HoldersFinite DEF TypeOK
<1>3. CASE k = job[w]
  <2>1. Holders(k)' = Holders(k) \ {w} /\ w \in Holders(k)
    BY <1>3 DEF Holders, TypeOK
  <2>2. Cardinality(Holders(k)') = Cardinality(Holders(k)) - 1
    BY <1>2, <2>1, FS_RemoveElement
  <2>3. Pending(k) \in {0, 1} /\ Pending(k)' \in {0, 1}
    BY DEF Pending
  <2> QED
    BY <1>1, <1>2, <2>2, <2>3
<1>4. CASE k # job[w]
  <2>1. Holders(k)' = Holders(k) /\ Pending(k)' = Pending(k)
    BY <1>4 DEF Holders, Pending, TypeOK
  <2> QED
    BY <1>1, <2>1
<1> QED
  BY <1>3, <1>4

\* A reap offers the job once more and counts itself.
LEMMA HoldersReap ==
  ASSUME TypeOK, HoldersBounded, ReapExpired
  PROVE  HoldersBounded'
<1> SUFFICES ASSUME NEW k \in Keys
             PROVE  Cardinality(Holders(k)') + Pending(k)' <= 1 + reaps'[k]
  BY DEF HoldersBounded, Pending
<1>1. Cardinality(Holders(k)) + Pending(k) <= 1 + reaps[k]
  BY DEF HoldersBounded, Pending
<1>2. /\ Holders(k)' = Holders(k)
      /\ \/ status'[k] = status[k] /\ reaps'[k] = reaps[k]
         \/ status[k] = "leased" /\ status'[k] = "ready" /\ reaps'[k] = reaps[k] + 1
  BY DEF ReapExpired, Expired, Holders
<1>3. Cardinality(Holders(k)) \in Nat /\ reaps[k] \in Nat
  BY HoldersFinite DEF TypeOK
<1> QED
  BY <1>1, <1>2, <1>3 DEF Pending

\* Every step keeps the bound on the workers in one job.
LEMMA HoldersStep ==
  ASSUME TypeOK, HoldingOK, Accounts, HoldersBounded, [Next]_vars
  PROVE  HoldersBounded'
<1>0. AbsentOK
  BY DEF Accounts
<1>1. ASSUME NEW k \in Keys, Enqueue(k) PROVE HoldersBounded'
  <2>1. PICK now \in BOOLEAN : Insert({k}, now)
    BY <1>1 DEF Enqueue
  <2> QED
    BY <1>0, <1>1, <2>1, InsertType, HoldersQuiet DEF Enqueue
<1>2. ASSUME NEW k \in Keys, ClockStep(k) PROVE HoldersBounded'
  BY <1>0, <1>2, HoldersQuiet DEF ClockStep, BecomeDue, LeaseExpires
<1>3. ASSUME NEW w \in Workers, NEW k \in Keys, Lease(w, k) PROVE HoldersBounded'
  BY <1>3, HoldersLease
<1>4. ASSUME NEW w \in Workers, PollNext(w) \/ HandlerRaises(w) PROVE HoldersBounded'
  BY <1>0, <1>4, HoldersQuiet DEF PollNext, HandlerRaises, table
<1>5. ASSUME NEW w \in Workers, HandlerCommits(w) PROVE HoldersBounded'
  <2>1. job[w] \in Keys
    BY <1>5, HeldJob DEF HandlerCommits
  <2>2. PICK now \in BOOLEAN : Insert(Follow[job[w]], now)
    BY <1>5 DEF HandlerCommits
  <2>3. Follow[job[w]] \in SUBSET Keys
    BY <2>1, FollowAssumption
  <2> QED
    BY <1>0, <1>5, <2>2, <2>3, InsertType, HoldersQuiet DEF HandlerCommits
<1>6. ASSUME NEW w \in Workers, Complete(w) \/ FailForGood(w) \/ FailForNow(w)
      PROVE  HoldersBounded'
  BY <1>6, HoldersLetGo DEF Complete, FailForGood, FailForNow, Settle, TypeOK
<1>7. ASSUME NEW w \in Workers, Crash(w) PROVE HoldersBounded'
  BY <1>7, HoldersLetGo DEF Crash, table
<1>8. ASSUME ReapExpired PROVE HoldersBounded'
  BY <1>8, HoldersReap
<1>9. ASSUME UNCHANGED vars PROVE HoldersBounded'
  BY <1>0, <1>9, HoldersQuiet DEF vars
<1> QED
  BY <1>1, <1>2, <1>3, <1>4, <1>5, <1>6, <1>7, <1>8, <1>9 DEF Next, WorkerStep

\* Only an expired lease lets a second worker into a job: whoever settles when, the workers
\* in a job number at most one more than its reaps (queue.py lease, fail, reap_expired).
THEOREM HoldersAreBounded == Spec => []HoldersBounded
<1> DEFINE HInv == IInv /\ HoldersBounded
<1>1. Init => HInv
  <2> SUFFICES ASSUME Init PROVE HInv
    OBVIOUS
  <2>1. \A k \in Keys : Holders(k) = {}
    BY KeysAssumption DEF Init, Holders
  <2>2. HoldersBounded
    BY <2>1, FS_EmptySet DEF Init, HoldersBounded
  <2> QED
    BY <2>2, InitAccounts
<1>2. HInv /\ [Next]_vars => HInv'
  BY TypeStep, AccountsStep, HoldersStep DEF IInv
<1> QED
  BY <1>1, <1>2, PTL DEF Spec

----------------------------------------------------------------------------
\* A worker inside a job starts its next poll at the first queue, and what has been ready
\* since a poll began is still ready and not above the queue the poll has reached.
PollOK ==
    /\ \A w \in Workers : pc[w] # "poll" => probe[w] = 1
    /\ \A w \in Workers : \A k \in waiting[w] : Ready(k)
    /\ HigherQueuesFirst

\* What has been ready since the poll began, after a step that records it.
LEMMA Observed ==
  ASSUME Observe, NEW w \in Workers, NEW k \in waiting'[w]
  PROVE  /\ k \in Keys /\ Ready(k)'
         /\ probe'[w] # 1 /\ ~(pc[w] # "poll" /\ pc'[w] = "poll") => k \in waiting[w]
  BY DEF Observe, PollBegins

\* A step in which each worker stays where it is in its poll, or is inside a job and at the
\* first queue.
LEMMA PollQuiet ==
  ASSUME TypeOK, PollOK, Observe,
         \A w \in Workers : probe'[w] = 1 \/ (pc'[w] = pc[w] /\ probe'[w] = probe[w]),
         \A w \in Workers : pc'[w] # "poll" => probe'[w] = 1
  PROVE  PollOK'
<1>1. \A w \in Workers : \A k \in waiting'[w] : Ready(k)'
  BY Observed
<1>2. ASSUME NEW w \in Workers, NEW k \in waiting'[w], pc'[w] = "poll"
      PROVE  Priority[k] >= probe'[w]
  <2>1. k \in Keys /\ Priority[k] \in 1..Lowest
    BY Observed, PriorityAssumption
  <2>2. CASE probe'[w] = 1
    BY <2>1, <2>2
  <2>3. CASE probe'[w] # 1
    <3>1. pc'[w] = pc[w] /\ probe'[w] = probe[w]
      BY <2>3
    <3>2. k \in waiting[w]
      BY <1>2, <2>3, <3>1, Observed
    <3> QED
      BY <1>2, <3>1, <3>2 DEF PollOK, HigherQueuesFirst
  <2> QED
    BY <2>2, <2>3
<1> QED
  BY <1>1, <1>2 DEF PollOK, HigherQueuesFirst

\* On to the next queue, which leaves nothing ready behind; from the last, to the first.
LEMMA PollNextStep ==
  ASSUME TypeOK, PollOK, NEW v \in Workers, PollNext(v)
  PROVE  PollOK'
<1>1. /\ pc[v] = "poll" /\ UNCHANGED <<pc, status, due>> /\ Observe
      /\ probe' = [probe EXCEPT ![v] = IF @ = Lowest THEN 1 ELSE @ + 1]
      /\ \A k \in Keys : Priority[k] = probe[v] => ~Ready(k)
  BY DEF PollNext, table
<1>2. \A w \in Workers : \A k \in waiting'[w] : Ready(k)'
  BY <1>1, Observed
<1>3. \A w \in Workers : pc'[w] # "poll" => probe'[w] = 1
  BY <1>1 DEF PollOK, TypeOK
<1>4. ASSUME NEW w \in Workers, NEW k \in waiting'[w], pc'[w] = "poll"
      PROVE  Priority[k] >= probe'[w]
  <2>1. k \in Keys /\ Priority[k] \in 1..Lowest /\ probe[w] \in 1..Lowest
    BY <1>1, Observed, PriorityAssumption DEF TypeOK
  <2>2. CASE probe'[w] = 1
    BY <2>1, <2>2
  <2>3. CASE probe'[w] # 1
    <3>1. k \in waiting[w]
      BY <1>1, <2>3, <1>4, Observed
    <3>2. Ready(k) /\ Priority[k] >= probe[w]
      BY <1>1, <1>4, <3>1 DEF PollOK, HigherQueuesFirst
    <3>3. CASE w = v
      <4>1. Priority[k] # probe[w]
        BY <1>1, <2>1, <3>2, <3>3
      <4>2. probe'[w] = probe[w] + 1
        BY <1>1, <2>3, <3>3 DEF TypeOK
      <4> QED
        BY <2>1, <3>2, <4>1, <4>2
    <3>4. CASE w # v
      BY <1>1, <3>2, <3>4 DEF TypeOK
    <3> QED
      BY <3>3, <3>4
  <2> QED
    BY <2>2, <2>3
<1> QED
  BY <1>2, <1>3, <1>4 DEF PollOK, HigherQueuesFirst

\* Every step of the queue and its workers keeps the order of the poll.
LEMMA PollStep ==
  ASSUME TypeOK, HoldingOK, PollOK, [Next]_vars
  PROVE  PollOK'
<1>1. ASSUME UNCHANGED <<pc, probe>>, Observe PROVE PollOK'
  BY <1>1, PollQuiet DEF PollOK
<1>2. ASSUME NEW k \in Keys, Enqueue(k) \/ ClockStep(k) PROVE PollOK'
  BY <1>1, <1>2 DEF Enqueue, ClockStep, BecomeDue, LeaseExpires
<1>3. ASSUME NEW w \in Workers, NEW k \in Keys, Lease(w, k) PROVE PollOK'
  <2>1. /\ pc' = [pc EXCEPT ![w] = "handle"] /\ probe' = [probe EXCEPT ![w] = 1] /\ Observe
    BY <1>3 DEF Lease
  <2>2. \A v \in Workers : probe'[v] = 1 \/ (pc'[v] = pc[v] /\ probe'[v] = probe[v])
    BY <2>1 DEF TypeOK
  <2>3. \A v \in Workers : pc'[v] # "poll" => probe'[v] = 1
    BY <2>1 DEF PollOK, TypeOK
  <2> QED
    BY <2>1, <2>2, <2>3, PollQuiet
<1>4. ASSUME NEW w \in Workers, PollNext(w) PROVE PollOK'
  BY <1>4, PollNextStep
<1>5. ASSUME NEW w \in Workers, pc[w] # "poll", NEW to, pc' = [pc EXCEPT ![w] = to],
             UNCHANGED probe, Observe
      PROVE  PollOK'
  BY <1>5, PollQuiet DEF PollOK, TypeOK
<1>6. ASSUME NEW w \in Workers, HandlerCommits(w) PROVE PollOK'
  BY <1>5, <1>6 DEF HandlerCommits
<1>7. ASSUME NEW w \in Workers, HandlerRaises(w) PROVE PollOK'
  BY <1>5, <1>7 DEF HandlerRaises
<1>8. ASSUME NEW w \in Workers, Complete(w) \/ FailForGood(w) \/ FailForNow(w) PROVE PollOK'
  BY <1>5, <1>8 DEF Complete, FailForGood, FailForNow, Settle
<1>9. ASSUME NEW w \in Workers, Crash(w) PROVE PollOK'
  BY <1>9, PollQuiet DEF Crash, PollOK, TypeOK
<1>10. ASSUME ReapExpired PROVE PollOK'
  BY <1>1, <1>10 DEF ReapExpired
<1>11. ASSUME UNCHANGED vars PROVE PollOK'
  BY <1>11 DEF vars, PollOK, HigherQueuesFirst, Ready
<1> QED
  BY <1>2, <1>3, <1>4, <1>6, <1>7, <1>8, <1>9, <1>10, <1>11 DEF Next, WorkerStep

\* "Control first", for any number of queues, jobs and workers: a worker that has polled down
\* to a queue has left behind no job of a queue above it that was ready since the poll
\* began, whatever the other workers took or gave back meanwhile (worker.py run_once).
THEOREM HigherQueuesAreFirst == Spec => []HigherQueuesFirst
<1>1. Init => PollOK
  BY DEF Init, PollOK, HigherQueuesFirst
<1>2. TypeOK /\ HoldingOK /\ PollOK /\ [Next]_vars => PollOK'
  BY PollStep
<1>3. PollOK => HigherQueuesFirst
  BY DEF PollOK
<1> QED
  BY <1>1, <1>2, <1>3, TypeCorrect, PTL DEF Spec
====
