---- MODULE SendPathProofs ----
(***************************************************************************)
(* Proofs about the send path for any touches, workers, caps and bounds.   *)
(* What the gates find out stays true up to the commit because of the row  *)
(* locks they take: the invariant says which lock protects which finding.  *)
(***************************************************************************)
EXTENDS SendPath, SumProofs, FiniteSetTheorems, TLAPS

\* What a worker's step says of its private state.
WorkersOK ==
    \A w \in Workers :
        /\ pc[w] = "idle" <=> cur[w] = None
        /\ pc[w] \notin InTxn => box[w] = None
        /\ pc[w] \in {"confidence", "persist", "send", "record"} => box[w] # None
        /\ pc[w] \in {"frequency", "entity", "budget"} => Volume(cur[w])

\* The mailbox a worker picked is locked by it and below its cap.
BoxHeld ==
    \A w \in Workers : box[w] # None =>
        lock[box[w]] = w /\ boxUsed[box[w]] < BoxCap[box[w]]

\* Past gate 5, the tenant row is locked and the budget is still there.
Funded == {"mailbox", "confidence", "persist", "send", "record"}

BudgetHeld ==
    \A w \in Workers : pc[w] \in Funded /\ Volume(cur[w]) =>
        lock[TenantRow] = w /\ BudgetLeft(cur[w])

\* Past gate 4, the entity row is locked and the verdict of the gate still holds.
Governed == Funded \union {"budget"}

Verdict(t) ==
    /\ Kind[t] = "cold" => active[Entity(t)] = None /\ ~recent[Entity(t)]
    /\ Kind[t] = "followup" => active[Entity(t)] \in TouchesOf(ProspectOf[t])
    /\ contacts[Entity(t)] < AnnualCap

EntityHeld ==
    \A w \in Workers : pc[w] \in Governed /\ Volume(cur[w]) =>
        lock[Entity(cur[w])] = w /\ Verdict(cur[w])

\* Past gate 7, the prospect of a cold touch or follow-up is not a forgotten one.
ProspectHeld ==
    \A w \in Workers : pc[w] \in {"persist", "send", "record"} /\ Volume(cur[w]) =>
        pstate[ProspectOf[cur[w]]] # "forgotten"

\* Once claimed, the touch is locked and, to everybody else, still drafted.
TouchHeld ==
    \A w \in Workers : pc[w] \in {"send", "record"} =>
        lock[cur[w]] = w /\ touch[cur[w]] = "drafted"

\* A touch that can still be claimed was not dispatched before.
DispatchedOnce ==
    \A t \in Touches :
        /\ records[t] <= 1
        /\ touch[t] \in {"absent", "drafted"} => records[t] = 0

\* Workers past gate 1 that have not sent yet.
Passed == {w \in Workers : pc[w] \in
             {"screen", "frequency", "entity", "budget", "mailbox", "confidence", "persist", "send"}}

\* Under a halt nobody joins the workers past gate 1.
HaltInv ==
    /\ HaltLagBounded
    /\ halted => haltSends + Cardinality(Passed) <= Cardinality(Workers)

\* Workers between the provider's answer and the commit of a dispatch.
Sending(t) == {w \in Workers : pc[w] = "record" /\ cur[w] = t}

SendsCounted == \A t \in Touches : sends[t] = records[t] + lost[t] + Cardinality(Sending(t))

----------------------------------------------------------------------------
\* The rows of a touch.
LEMMA RowsOfTouch ==
  ASSUME NEW t \in Touches
  PROVE  /\ ProspectOf[t] \in Prospects /\ Entity(t) \in Entities /\ Cohort(t) \in Cohorts
         /\ t \in Rows /\ Entity(t) \in Rows /\ TenantRow \in Rows
  BY ConstantsAssumption DEF Entity, Cohort, Rows

\* A worker inside a job has its touch.
LEMMA HeldTouch ==
  ASSUME TypeOK, WorkersOK, NEW w \in Workers, pc[w] # "idle"
  PROVE  cur[w] \in Touches
  BY DEF TypeOK, WorkersOK

\* What the end of a transaction does to the private state, whatever the outcome.
LEMMA EndTxnType ==
  ASSUME TypeOK, NEW w \in Workers, NEW outcome \in {"idle"} \union AfterTxn, EndTxn(w, outcome)
  PROVE  /\ lock' \in [Rows -> Workers \union {None}]
         /\ pc' \in [Workers -> PC]
         /\ snap' \in [Workers -> Touches \union {None}]
         /\ box' \in [Workers -> Mailboxes \union {None}]
  BY DEF TypeOK, EndTxn, Goto, PC, AfterTxn

\* A read that moves on and a transaction that leaves without a write keep the types.
LEMMA ContinueType ==
  ASSUME TypeOK, NEW w \in Workers, NEW to \in PC, Continue(w, to)
  PROVE  TypeOK'
  BY DEF TypeOK, Continue, Goto, tables, flags, queue, world, bounds

LEMMA LeaveType ==
  ASSUME TypeOK, NEW w \in Workers, NEW outcome \in AfterTxn, Leave(w, outcome)
  PROVE  TypeOK'
<1>1. /\ lock' \in [Rows -> Workers \union {None}]
      /\ pc' \in [Workers -> PC]
      /\ snap' \in [Workers -> Touches \union {None}]
      /\ box' \in [Workers -> Mailboxes \union {None}]
  BY EndTxnType DEF Leave
<1> QED
  BY <1>1 DEF TypeOK, Leave, tables, flags, queue, world, bounds

\* A counter of a table of counters goes up by one.
LEMMA CountUp ==
  ASSUME NEW S, NEW f \in [S -> Nat], NEW x
  PROVE  [f EXCEPT ![x] = f[x] + 1] \in [S -> Nat]
<1>1. CASE x \in S
  <2>1. f[x] + 1 \in Nat
    BY <1>1
  <2> QED
    BY <2>1
<1>2. CASE x \notin S
  BY <1>2
<1> QED
  BY <1>1, <1>2

\* The types, step by step.
LEMMA TypeStep ==
  ASSUME TypeOK, WorkersOK, [Next]_vars
  PROVE  TypeOK'
<1> USE DEF PC, InTxn, Gates, AfterTxn
<1>1. ASSUME NEW w \in Workers, NEW t \in Touches, Lease(w, t) PROVE TypeOK'
  BY <1>1 DEF Lease, Goto, TypeOK, tables, flags, world, bounds
<1>2. ASSUME NEW w \in Workers, ReadStatus(w) PROVE TypeOK'
  BY <1>2, ContinueType, LeaveType DEF ReadStatus
<1>3. ASSUME NEW w \in Workers, LoadGateDraft(w) PROVE TypeOK'
  BY <1>3, ContinueType, LeaveType DEF LoadGateDraft
<1>4. ASSUME NEW w \in Workers, GateHalt(w) PROVE TypeOK'
  BY <1>4, ContinueType, LeaveType DEF GateHalt
<1>5. ASSUME NEW w \in Workers, GateScreen(w) PROVE TypeOK'
  BY <1>5, ContinueType DEF GateScreen
<1>6. ASSUME NEW w \in Workers, GateFrequency(w) PROVE TypeOK'
  <2>1. active[Entity(cur[w])] \in Touches \union {None}
    BY <1>6, HeldTouch, RowsOfTouch DEF GateFrequency, TypeOK
  <2> QED
    BY <1>6, <2>1 DEF GateFrequency, Goto, TypeOK, tables, flags, queue, world, bounds
<1>7. ASSUME NEW w \in Workers, GateEntity(w) PROVE TypeOK'
  <2>1. lock' \in [Rows -> Workers \union {None}]
    BY <1>7 DEF GateEntity, TypeOK
  <2>2. pc' \in [Workers -> PC]
    BY <1>7 DEF GateEntity, Goto, TypeOK
  <2> QED
    BY <1>7, <2>1, <2>2 DEF GateEntity, TypeOK, tables, flags, queue, world, bounds
<1>8. ASSUME NEW w \in Workers, GateBudget(w) PROVE TypeOK'
  <2>1. CASE Leave(w, "retry")
    BY <2>1, LeaveType
  <2>2. CASE ~Leave(w, "retry")
    BY <1>8, <2>2 DEF GateBudget, Goto, TypeOK, tables, flags, queue, world, bounds
  <2> QED
    BY <2>1, <2>2
<1>9. ASSUME NEW w \in Workers, GateMailbox(w) PROVE TypeOK'
  <2>1. CASE Leave(w, "retry")
    BY <2>1, LeaveType
  <2>2. CASE ~Leave(w, "retry")
    BY <1>9, <2>2 DEF GateMailbox, FreeBoxes, Goto, TypeOK, tables, flags, queue, world, bounds
  <2> QED
    BY <2>1, <2>2
<1>10. ASSUME NEW w \in Workers, GateConfidence(w) PROVE TypeOK'
  BY <1>10, ContinueType DEF GateConfidence
<1>11. ASSUME NEW w \in Workers, PersistClaim(w) PROVE TypeOK'
  <2>1. CASE Leave(w, "retry")
    BY <2>1, LeaveType
  <2>2. CASE ~Leave(w, "retry")
    BY <1>11, <2>2 DEF PersistClaim, Goto, TypeOK, tables, flags, queue, world, bounds
  <2> QED
    BY <2>1, <2>2
<1>12. ASSUME NEW w \in Workers, Send(w) PROVE TypeOK'
  <2>1. sends' \in [Touches -> Nat]
    BY <1>12, CountUp DEF Send, TypeOK
  <2>2. haltSends' \in Nat /\ pc' \in [Workers -> PC]
    BY <1>12 DEF Send, Goto, TypeOK
  <2> QED
    BY <1>12, <2>1, <2>2 DEF Send, TypeOK, tables, flags, queue, bounds
<1>13. ASSUME NEW w \in Workers, RecordDispatch(w) PROVE TypeOK'
  <2>1. cur[w] \in Touches /\ box[w] \in Mailboxes
    BY <1>13, HeldTouch DEF RecordDispatch, WorkersOK, TypeOK
  <2>2. /\ lock' \in [Rows -> Workers \union {None}]
        /\ pc' \in [Workers -> PC]
        /\ snap' \in [Workers -> Touches \union {None}]
        /\ box' \in [Workers -> Mailboxes \union {None}]
    BY <1>13, EndTxnType DEF RecordDispatch
  <2>3. /\ touch' \in [Touches -> {"absent", "drafted", "dispatched", "released"}]
        /\ pstate' \in [Prospects -> {"queued", "contacted", "engaged", "forgotten"}]
        /\ boxUsed' \in [Mailboxes -> Nat] /\ records' \in [Touches -> Nat]
    BY <1>13, CountUp DEF RecordDispatch, TypeOK
  <2>4. /\ active' \in [Entities -> Touches \union {None}] /\ recent' \in [Entities -> BOOLEAN]
        /\ contacts' \in [Entities -> Nat]
        /\ tenantUsed' \in Nat /\ cohortUsed' \in [Cohorts -> Nat]
    <3>1. CASE Volume(cur[w])
      <4>1. active' \in [Entities -> Touches \union {None}] /\ recent' \in [Entities -> BOOLEAN]
        <5>1. active' \in [Entities -> Touches \union {None}]
          BY <1>13, <2>1, <3>1 DEF RecordDispatch, TypeOK
        <5>2. recent' \in [Entities -> BOOLEAN]
          BY <1>13, <3>1 DEF RecordDispatch, TypeOK
        <5> QED
          BY <5>1, <5>2
      <4>2. contacts' \in [Entities -> Nat]
        BY <1>13, <3>1, CountUp DEF RecordDispatch, TypeOK
      <4>3. tenantUsed' \in Nat /\ cohortUsed' \in [Cohorts -> Nat]
        BY <1>13, <3>1, CountUp DEF RecordDispatch, TypeOK
      <4> QED
        BY <4>1, <4>2, <4>3
    <3>2. CASE ~Volume(cur[w])
      BY <1>13, <3>2 DEF RecordDispatch, TypeOK
    <3> QED
      BY <3>1, <3>2
  <2>5. planned' \subseteq Prospects \X Nat
    <3>1. ProspectOf[cur[w]] \in Prospects /\ Step[cur[w]] + 1 \in Nat
      BY <2>1, ConstantsAssumption
    <3> QED
      BY <1>13, <3>1 DEF RecordDispatch, TypeOK
  <2> QED
    BY <1>13, <2>2, <2>3, <2>4, <2>5 DEF RecordDispatch, TypeOK, flags, queue, bounds
<1>14. ASSUME NEW w \in Workers, Release(w) PROVE TypeOK'
  <2>1. /\ lock' \in [Rows -> Workers \union {None}]
        /\ pc' \in [Workers -> PC]
        /\ snap' \in [Workers -> Touches \union {None}]
        /\ box' \in [Workers -> Mailboxes \union {None}]
    BY <1>14, EndTxnType DEF Release
  <2>2. boxUsed' \in [Mailboxes -> Nat] /\ leaked' \in Nat
    BY <1>14, CountUp DEF Release, TypeOK
  <2>3. touch' \in [Touches -> {"absent", "drafted", "dispatched", "released"}]
    BY <1>14 DEF Release, TypeOK
  <2> QED
    BY <1>14, <2>1, <2>2, <2>3 DEF Release, TypeOK, flags, queue, bounds
<1>15. ASSUME NEW w \in Workers, Settle(w) PROVE TypeOK'
  BY <1>15 DEF Settle, Goto, Outcome, TypeOK, tables, flags, world, bounds
<1>16. ASSUME NEW w \in Workers, Crash(w) PROVE TypeOK'
  <2>1. /\ lock' \in [Rows -> Workers \union {None}]
        /\ pc' \in [Workers -> PC]
        /\ snap' \in [Workers -> Touches \union {None}]
        /\ box' \in [Workers -> Mailboxes \union {None}]
    BY <1>16, EndTxnType DEF Crash
  <2>2. lost' \in [Touches -> Nat]
    BY <1>16, CountUp DEF Crash, LoseSend, TypeOK
  <2>3. crashes' \in 0..MaxCrashes
    BY <1>16, BoundsAssumption DEF Crash, TypeOK
  <2> QED
    BY <1>16, <2>1, <2>2, <2>3 DEF Crash, TypeOK, tables, flags, queue
<1>17. ASSUME NEW w \in Workers, TxnError(w) PROVE TypeOK'
  <2>1. /\ lock' \in [Rows -> Workers \union {None}]
        /\ pc' \in [Workers -> PC]
        /\ snap' \in [Workers -> Touches \union {None}]
        /\ box' \in [Workers -> Mailboxes \union {None}]
    BY <1>17, EndTxnType DEF TxnError
  <2>2. lost' \in [Touches -> Nat]
    BY <1>17, CountUp DEF TxnError, LoseSend, TypeOK
  <2> QED
    BY <1>17, <2>1, <2>2 DEF TxnError, TypeOK, tables, flags, queue, bounds
<1>18. ASSUME Outside PROVE TypeOK'
  <2> USE DEF TypeOK, workers, queue, flags, bounds, world, tables
  <2>1. ASSUME NEW t \in Touches, QueueDraft(t) PROVE TypeOK'
    BY <2>1 DEF QueueDraft
  <2>2. ASSUME NEW t \in Touches, Reap(t) PROVE TypeOK'
    BY <2>2, BoundsAssumption DEF Reap
  <2>3. ASSUME NEW p \in Prospects, IngestReply(p) PROVE TypeOK'
    BY <2>3 DEF IngestReply
  <2>4. ASSUME NEW p \in Prospects, ReleaseSequence(p) PROVE TypeOK'
    BY <2>4 DEF ReleaseSequence
  <2>5. ASSUME NEW p \in Prospects, Suppress(p) PROVE TypeOK'
    BY <2>5, BoundsAssumption DEF Suppress, Incident
  <2>6. ASSUME NEW e \in Entities, Forget(e) PROVE TypeOK'
    BY <2>6, BoundsAssumption DEF Forget, Incident
  <2>7. ASSUME NEW e \in Entities, GapElapses(e) PROVE TypeOK'
    BY <2>7, BoundsAssumption DEF GapElapses, Incident
  <2>8. CASE Halt
    BY <2>8, BoundsAssumption DEF Halt, Incident
  <2>9. CASE Resume
    BY <2>9 DEF Resume
  <2> QED
    BY <1>18, <2>1, <2>2, <2>3, <2>4, <2>5, <2>6, <2>7, <2>8, <2>9 DEF Outside
<1>19. CASE UNCHANGED vars
  BY <1>19 DEF vars, TypeOK
<1> QED
  BY <1>1, <1>2, <1>3, <1>4, <1>5, <1>6, <1>7, <1>8, <1>9, <1>10, <1>11, <1>12, <1>13, <1>14,
     <1>15, <1>16, <1>17, <1>18, <1>19 DEF Next, WorkerStep, Deliver

----------------------------------------------------------------------------
\* A step of a worker, its crash and its failure included.
Move(w) == WorkerStep(w) \/ Crash(w) \/ TxnError(w)

\* A worker's step changes nothing of the other workers and takes no lock from them.
LEMMA OthersKept ==
  ASSUME TypeOK, NEW w \in Workers, Move(w), NEW v \in Workers, v # w
  PROVE  /\ pc'[v] = pc[v] /\ cur'[v] = cur[v] /\ box'[v] = box[v]
         /\ \A r \in Rows : lock[r] = v => lock'[r] = v
<1> DEFINE Kept == /\ pc'[v] = pc[v] /\ cur'[v] = cur[v] /\ box'[v] = box[v]
                   /\ \A r \in Rows : lock[r] = v => lock'[r] = v
<1> USE ConstantsAssumption DEF TypeOK, Goto
<1>1. ASSUME NEW outcome, EndTxn(w, outcome)
      PROVE  /\ pc'[v] = pc[v] /\ box'[v] = box[v]
             /\ \A r \in Rows : lock[r] = v => lock'[r] = v
  BY <1>1 DEF EndTxn
<1>2. ASSUME NEW to, Continue(w, to) PROVE Kept
  BY <1>2 DEF Continue
<1>3. ASSUME NEW outcome, Leave(w, outcome) PROVE Kept
  BY <1>1, <1>3 DEF Leave
<1>4. ASSUME NEW t \in Touches, Lease(w, t) PROVE Kept
  BY <1>4 DEF Lease
<1>5. ASSUME \/ ReadStatus(w) \/ LoadGateDraft(w) \/ GateHalt(w) \/ GateScreen(w)
             \/ GateConfidence(w)
      PROVE  Kept
  BY <1>2, <1>3, <1>5 DEF ReadStatus, LoadGateDraft, GateHalt, GateScreen, GateConfidence
<1>6. CASE GateFrequency(w)
  BY <1>6 DEF GateFrequency
<1>7. CASE GateEntity(w)
  BY <1>7 DEF GateEntity, CanLock
<1>8. CASE GateBudget(w)
  BY <1>3, <1>8 DEF GateBudget, CanLock
<1>9. CASE GateMailbox(w)
  BY <1>3, <1>9 DEF GateMailbox, FreeBoxes
<1>10. CASE PersistClaim(w)
  BY <1>3, <1>10 DEF PersistClaim, CanLock
<1>11. CASE Send(w)
  BY <1>11 DEF Send
<1>12. CASE RecordDispatch(w)
  BY <1>1, <1>12 DEF RecordDispatch
<1>13. CASE Release(w)
  BY <1>1, <1>13 DEF Release
<1>14. CASE Settle(w)
  BY <1>14 DEF Settle
<1>15. CASE Crash(w)
  BY <1>1, <1>15 DEF Crash
<1>16. CASE TxnError(w)
  BY <1>1, <1>16 DEF TxnError
<1> QED
  BY <1>4, <1>5, <1>6, <1>7, <1>8, <1>9, <1>10, <1>11, <1>12, <1>13, <1>14, <1>15, <1>16
  DEF Move, WorkerStep, Deliver

\* The other transactions are no worker's and change no counter and no history of sends.
LEMMA OutsideKept ==
  ASSUME Outside
  PROVE  UNCHANGED <<workers, lock, contacts, tenantUsed, cohortUsed, boxUsed,
                      sends, records, lost, leaked>>
<1> USE DEF workers, tables, world
<1>1. ASSUME NEW t \in Touches, QueueDraft(t) \/ Reap(t)
      PROVE  UNCHANGED <<workers, lock, contacts, tenantUsed, cohortUsed, boxUsed,
                      sends, records, lost, leaked>>
  BY <1>1 DEF QueueDraft, Reap
<1>2. ASSUME NEW p \in Prospects, IngestReply(p) \/ ReleaseSequence(p) \/ Suppress(p)
      PROVE  UNCHANGED <<workers, lock, contacts, tenantUsed, cohortUsed, boxUsed,
                      sends, records, lost, leaked>>
  BY <1>2 DEF IngestReply, ReleaseSequence, Suppress
<1>3. ASSUME NEW e \in Entities, Forget(e) \/ GapElapses(e)
      PROVE  UNCHANGED <<workers, lock, contacts, tenantUsed, cohortUsed, boxUsed,
                      sends, records, lost, leaked>>
  BY <1>3 DEF Forget, GapElapses
<1>4. CASE Halt \/ Resume
  BY <1>4 DEF Halt, Resume
<1> QED
  BY <1>1, <1>2, <1>3, <1>4 DEF Outside

\* WorkersOK, for the worker that steps.
LEMMA WorkersOKOfMover ==
  ASSUME TypeOK, WorkersOK, NEW w \in Workers, Move(w)
  PROVE  /\ pc'[w] = "idle" <=> cur'[w] = None
         /\ pc'[w] \notin InTxn => box'[w] = None
         /\ pc'[w] \in {"confidence", "persist", "send", "record"} => box'[w] # None
         /\ pc'[w] \in {"frequency", "entity", "budget"} => Volume(cur'[w])
<1> DEFINE Good == /\ pc'[w] = "idle" <=> cur'[w] = None
                   /\ pc'[w] \notin InTxn => box'[w] = None
                   /\ pc'[w] \in {"confidence", "persist", "send", "record"} => box'[w] # None
                   /\ pc'[w] \in {"frequency", "entity", "budget"} => Volume(cur'[w])
<1> USE ConstantsAssumption DEF TypeOK, WorkersOK, Goto, InTxn, Gates, AfterTxn, Rows
<1>1. ASSUME NEW outcome \in AfterTxn, EndTxn(w, outcome), pc[w] # "idle", cur' = cur PROVE Good
  BY <1>1 DEF EndTxn
<1>2. ASSUME NEW outcome \in AfterTxn, Leave(w, outcome), pc[w] # "idle" PROVE Good
  BY <1>1, <1>2 DEF Leave
<1>3. ASSUME NEW t \in Touches, Lease(w, t) PROVE Good
  BY <1>3 DEF Lease
<1>4. CASE ReadStatus(w)
  BY <1>2, <1>4 DEF ReadStatus, Continue
<1>5. CASE LoadGateDraft(w)
  BY <1>2, <1>5 DEF LoadGateDraft, Continue
<1>6. CASE GateHalt(w)
  BY <1>2, <1>6 DEF GateHalt, Continue
<1>7. CASE GateScreen(w)
  BY <1>7 DEF GateScreen, Continue
<1>8. CASE GateFrequency(w)
  BY <1>8 DEF GateFrequency
<1>9. CASE GateEntity(w)
  BY <1>9 DEF GateEntity
<1>10. CASE GateBudget(w)
  BY <1>2, <1>10 DEF GateBudget
<1>11. CASE GateMailbox(w)
  BY <1>2, <1>11 DEF GateMailbox, FreeBoxes
<1>12. CASE GateConfidence(w)
  BY <1>12 DEF GateConfidence, Continue
<1>13. CASE PersistClaim(w)
  BY <1>2, <1>13 DEF PersistClaim
<1>14. CASE Send(w)
  BY <1>14 DEF Send
<1>15. CASE RecordDispatch(w)
  BY <1>1, <1>15 DEF RecordDispatch
<1>16. CASE Release(w)
  BY <1>1, <1>16 DEF Release
<1>17. CASE Settle(w)
  BY <1>17 DEF Settle
<1>18. CASE Crash(w)
  BY <1>18 DEF Crash, EndTxn
<1>19. CASE TxnError(w)
  BY <1>1, <1>19 DEF TxnError
<1> QED
  BY <1>3, <1>4, <1>5, <1>6, <1>7, <1>8, <1>9, <1>10, <1>11, <1>12, <1>13, <1>14, <1>15, <1>16,
     <1>17, <1>18, <1>19 DEF Move, WorkerStep, Deliver

LEMMA WorkersStep ==
  ASSUME TypeOK, WorkersOK, [Next]_vars
  PROVE  WorkersOK'
<1>1. ASSUME NEW w \in Workers, Move(w) PROVE WorkersOK'
  BY <1>1, OthersKept, WorkersOKOfMover DEF WorkersOK
<1>2. CASE Outside
  BY <1>2, OutsideKept DEF WorkersOK, workers
<1>3. CASE UNCHANGED vars
  BY <1>3 DEF WorkersOK, vars
<1> QED
  BY <1>1, <1>2, <1>3 DEF Next, Move

\* The tables, the workers and the history keep their types (sendpath.py, store_pg.py).
THEOREM TypeCorrect == Spec => [](TypeOK /\ WorkersOK)
<1>1. Init => TypeOK /\ WorkersOK
  <2> SUFFICES ASSUME Init PROVE TypeOK /\ WorkersOK
    OBVIOUS
  <2>1. reaps \in 0..MaxReaps /\ crashes \in 0..MaxCrashes /\ incidents \in 0..MaxIncidents
    BY BoundsAssumption DEF Init
  <2>2. /\ job \in [Touches -> {"absent", "ready", "leased", "done", "dead"}]
        /\ touch \in [Touches -> {"absent", "drafted", "dispatched", "released"}]
    BY DEF Init
  <2>3. WorkersOK
    BY DEF Init, WorkersOK, InTxn, Gates
  <2> QED
    BY <2>1, <2>2, <2>3 DEF Init, TypeOK, PC
<1>2. TypeOK /\ WorkersOK /\ [Next]_vars => TypeOK' /\ WorkersOK'
  BY TypeStep, WorkersStep
<1> QED
  BY <1>1, <1>2, PTL DEF Spec

----------------------------------------------------------------------------
\* What a worker's step writes to the tables, and which steps write it.
LEMMA WritesOfMover ==
  ASSUME TypeOK, WorkersOK, NEW w \in Workers, Move(w)
  PROVE  /\ \/ UNCHANGED boxUsed
            \/ box[w] # None /\ boxUsed' = [boxUsed EXCEPT ![box[w]] = @ + 1]
         /\ \/ UNCHANGED <<active, recent, contacts, tenantUsed, cohortUsed>>
            \/ RecordDispatch(w) /\ Volume(cur[w])
         /\ UNCHANGED <<pstate, records>> \/ RecordDispatch(w)
         /\ UNCHANGED touch \/ RecordDispatch(w) \/ Release(w)
         /\ UNCHANGED flags
<1> USE DEF tables, world
<1>1. ASSUME NEW outcome, Leave(w, outcome) PROVE UNCHANGED <<tables, flags, records>>
  BY <1>1 DEF Leave
<1>2. ASSUME NEW to, Continue(w, to) PROVE UNCHANGED <<tables, flags, records>>
  BY <1>2 DEF Continue
<1>3. ASSUME NEW t \in Touches, Lease(w, t) PROVE UNCHANGED <<tables, flags, records>>
  BY <1>3 DEF Lease
<1>4. ASSUME \/ ReadStatus(w) \/ LoadGateDraft(w) \/ GateHalt(w) \/ GateScreen(w)
             \/ GateConfidence(w)
      PROVE  UNCHANGED <<tables, flags, records>>
  BY <1>1, <1>2, <1>4 DEF ReadStatus, LoadGateDraft, GateHalt, GateScreen, GateConfidence
<1>5. ASSUME \/ GateFrequency(w) \/ GateEntity(w) \/ GateBudget(w) \/ GateMailbox(w)
             \/ PersistClaim(w) \/ Send(w)
      PROVE  UNCHANGED <<tables, flags, records>>
  BY <1>1, <1>5 DEF GateFrequency, GateEntity, GateBudget, GateMailbox, PersistClaim, Send
<1>6. ASSUME Settle(w) \/ Crash(w) \/ TxnError(w) PROVE UNCHANGED <<tables, flags, records>>
  BY <1>6 DEF Settle, Crash, TxnError
<1>7. ASSUME RecordDispatch(w)
      PROVE  /\ box[w] # None /\ boxUsed' = [boxUsed EXCEPT ![box[w]] = @ + 1]
             /\ Volume(cur[w]) \/ UNCHANGED <<active, recent, contacts, tenantUsed, cohortUsed>>
             /\ UNCHANGED flags
  BY <1>7 DEF RecordDispatch, WorkersOK
<1>8. ASSUME Release(w)
      PROVE  /\ \/ UNCHANGED boxUsed
                \/ box[w] # None /\ boxUsed' = [boxUsed EXCEPT ![box[w]] = @ + 1]
             /\ UNCHANGED <<active, recent, contacts, tenantUsed, cohortUsed, pstate, records, flags>>
  BY <1>8 DEF Release
<1> QED
  BY <1>3, <1>4, <1>5, <1>6, <1>7, <1>8 DEF Move, WorkerStep, Deliver

\* The only ways past gate 4.
LEMMA ProgramOrder ==
  ASSUME TypeOK, NEW w \in Workers, Move(w), pc'[w] \in Governed
  PROVE  \/ GateScreen(w) \/ GateEntity(w) \/ GateBudget(w) \/ GateMailbox(w)
         \/ GateConfidence(w) \/ PersistClaim(w) \/ Send(w)
<1> USE DEF Governed, Funded, TypeOK, Goto
<1>1. ASSUME NEW outcome \in AfterTxn \union {"idle"}, EndTxn(w, outcome) PROVE FALSE
  BY <1>1 DEF EndTxn, AfterTxn
<1>2. ASSUME ReadStatus(w) \/ LoadGateDraft(w) \/ GateHalt(w) PROVE FALSE
  BY <1>1, <1>2 DEF ReadStatus, LoadGateDraft, GateHalt, Continue, Leave, AfterTxn
<1>3. ASSUME NEW t \in Touches, Lease(w, t) PROVE FALSE
  BY <1>3 DEF Lease
<1>4. ASSUME GateFrequency(w) \/ Settle(w) PROVE FALSE
  BY <1>4 DEF GateFrequency, Settle
<1>5. ASSUME RecordDispatch(w) \/ Release(w) \/ Crash(w) \/ TxnError(w) PROVE FALSE
  BY <1>1, <1>5 DEF RecordDispatch, Release, Crash, TxnError, AfterTxn
<1> QED
  BY <1>2, <1>3, <1>4, <1>5 DEF Move, WorkerStep, Deliver

\* Two workers never have the same mailbox: each holds its row lock.
LEMMA BoxStep ==
  ASSUME TypeOK, WorkersOK, BoxHeld, [Next]_vars
  PROVE  BoxHeld'
<1>1. ASSUME NEW w \in Workers, Move(w) PROVE BoxHeld'
  <2>1. ASSUME NEW v \in Workers, v # w, box'[v] # None
        PROVE  lock'[box'[v]] = v /\ boxUsed'[box'[v]] < BoxCap[box'[v]]
    <3>1. box'[v] = box[v] /\ box[v] \in Mailboxes /\ lock[box[v]] = v
      BY <1>1, <2>1, OthersKept DEF BoxHeld, TypeOK
    <3>2. lock'[box[v]] = v
      BY <1>1, <2>1, <3>1, OthersKept DEF Rows
    <3>3. box[w] # box[v]
      BY <2>1, <3>1 DEF BoxHeld, TypeOK
    <3>4. boxUsed'[box[v]] = boxUsed[box[v]]
      BY <1>1, <3>1, <3>3, WritesOfMover DEF TypeOK
    <3> QED
      BY <2>1, <3>1, <3>2, <3>4 DEF BoxHeld
  <2>2. ASSUME box'[w] # None
        PROVE  lock'[box'[w]] = w /\ boxUsed'[box'[w]] < BoxCap[box'[w]]
    <3> USE <1>1, <2>2
    <3>1. ASSUME NEW outcome, EndTxn(w, outcome) PROVE FALSE
      BY <3>1 DEF EndTxn, TypeOK
    <3>2. ASSUME NEW outcome, Leave(w, outcome) PROVE FALSE
      BY <3>1, <3>2 DEF Leave
    <3>3. CASE box'[w] = box[w] /\ lock'[box[w]] = lock[box[w]] /\ UNCHANGED boxUsed
      BY <3>3 DEF BoxHeld
    <3>4. ASSUME \/ ReadStatus(w) \/ LoadGateDraft(w) \/ GateHalt(w) \/ GateScreen(w)
                 \/ GateConfidence(w)
          PROVE  UNCHANGED <<box, lock, boxUsed>>
      BY <3>2, <3>4 DEF ReadStatus, LoadGateDraft, GateHalt, GateScreen, GateConfidence, Continue,
                        tables
    <3>5. ASSUME \/ \E t \in Touches : Lease(w, t)
                 \/ GateFrequency(w) \/ Send(w) \/ Settle(w)
          PROVE  UNCHANGED <<box, lock, boxUsed>>
      BY <3>5 DEF Lease, GateFrequency, Send, Settle, tables
    <3>6. ASSUME GateEntity(w) \/ GateBudget(w) \/ PersistClaim(w)
          PROVE  box'[w] = box[w] /\ lock'[box[w]] = lock[box[w]] /\ UNCHANGED boxUsed
      <4>1. /\ box[w] = box'[w] /\ UNCHANGED boxUsed
            /\ \E r \in Touches \union Entities \union {TenantRow} :
                  lock' = [lock EXCEPT ![r] = w] /\ CanLock(w, r)
        BY <3>2, <3>6, HeldTouch, RowsOfTouch
        DEF GateEntity, GateBudget, PersistClaim, tables, TypeOK
      <4>2. box[w] \in Mailboxes
        BY <4>1, <2>2 DEF TypeOK
      <4> QED
        BY <4>1, <4>2, ConstantsAssumption DEF TypeOK, BoxHeld
    <3>7. CASE GateMailbox(w)
      <4>1. PICK m \in FreeBoxes : /\ box' = [box EXCEPT ![w] = m]
                                   /\ lock' = [lock EXCEPT ![m] = w]
                                   /\ UNCHANGED boxUsed
        BY <3>2, <3>7 DEF GateMailbox, tables
      <4> QED
        BY <4>1 DEF FreeBoxes, TypeOK, Rows
    <3>8. ASSUME RecordDispatch(w) \/ Release(w) \/ Crash(w) \/ TxnError(w) PROVE FALSE
      BY <3>1, <3>8 DEF RecordDispatch, Release, Crash, TxnError
    <3> QED
      BY <1>1, <3>3, <3>4, <3>5, <3>6, <3>7, <3>8 DEF Move, WorkerStep, Deliver
  <2> QED
    BY <2>1, <2>2 DEF BoxHeld
<1>2. CASE Outside
  BY <1>2, OutsideKept DEF BoxHeld, workers
<1>3. CASE UNCHANGED vars
  BY <1>3 DEF BoxHeld, vars
<1> QED
  BY <1>1, <1>2, <1>3 DEF Next, Move

----------------------------------------------------------------------------
\* The tenant row, taken at gate 5, keeps the budget until the commit.
LEMMA BudgetStep ==
  ASSUME TypeOK, WorkersOK, BudgetHeld, [Next]_vars
  PROVE  BudgetHeld'
<1>1. ASSUME NEW w \in Workers, Move(w) PROVE BudgetHeld'
  <2>1. ASSUME NEW v \in Workers, v # w, pc'[v] \in Funded, Volume(cur'[v])
        PROVE  lock'[TenantRow] = v /\ BudgetLeft(cur[v])'
    <3>1. pc[v] \in Funded /\ cur'[v] = cur[v] /\ lock[TenantRow] = v /\ BudgetLeft(cur[v])
      BY <1>1, <2>1, OthersKept DEF BudgetHeld
    <3>2. lock'[TenantRow] = v
      BY <1>1, <2>1, <3>1, OthersKept DEF Rows
    <3>3. ~(RecordDispatch(w) /\ Volume(cur[w]))
      BY <2>1, <3>1 DEF RecordDispatch, BudgetHeld, Funded
    <3>4. UNCHANGED <<tenantUsed, cohortUsed>>
      BY <1>1, <3>3, WritesOfMover
    <3> QED
      BY <3>1, <3>2, <3>4 DEF BudgetLeft
  <2>2. ASSUME pc'[w] \in Funded, Volume(cur'[w])
        PROVE  lock'[TenantRow] = w /\ BudgetLeft(cur[w])'
    <3>1. \/ GateScreen(w) \/ GateEntity(w) \/ GateBudget(w) \/ GateMailbox(w)
          \/ GateConfidence(w) \/ PersistClaim(w) \/ Send(w)
      BY <1>1, <2>2, ProgramOrder DEF Governed
    <3>2. cur' = cur /\ UNCHANGED <<tenantUsed, cohortUsed>> /\ cur[w] \in Touches
      BY <3>1, HeldTouch DEF GateScreen, GateEntity, GateBudget, GateMailbox, GateConfidence,
         PersistClaim, Send, Continue, Leave, tables
    <3>3. CASE GateScreen(w) \/ GateEntity(w)
      BY <2>2, <3>2, <3>3 DEF GateScreen, GateEntity, Continue, Goto, Funded, TypeOK
    <3>4. CASE GateBudget(w)
      BY <2>2, <3>2, <3>4 DEF GateBudget, Leave, EndTxn, Goto, Funded, TypeOK, Rows, BudgetLeft
    <3>5. CASE GateMailbox(w) \/ GateConfidence(w) \/ PersistClaim(w) \/ Send(w)
      <4>1. pc[w] \in Funded
        BY <3>5 DEF GateMailbox, GateConfidence, PersistClaim, Send, Funded
      <4>2. lock[TenantRow] = w /\ BudgetLeft(cur[w])
        BY <2>2, <3>2, <4>1 DEF BudgetHeld
      <4>3. ASSUME NEW outcome \in AfterTxn, Leave(w, outcome) PROVE FALSE
        BY <2>2, <4>3 DEF Leave, EndTxn, Goto, Funded, AfterTxn, TypeOK
      <4>4. ASSUME NEW r \in Touches \union Mailboxes, lock' = [lock EXCEPT ![r] = w]
            PROVE  lock'[TenantRow] = w
        BY <4>2, <4>4, ConstantsAssumption DEF TypeOK
      <4>5. ASSUME GateMailbox(w) PROVE lock'[TenantRow] = w
        BY <3>2, <4>3, <4>4, <4>5 DEF GateMailbox, FreeBoxes, AfterTxn
      <4>6. ASSUME PersistClaim(w) PROVE lock'[TenantRow] = w
        BY <3>2, <4>3, <4>4, <4>6 DEF PersistClaim, AfterTxn
      <4>7. ASSUME GateConfidence(w) \/ Send(w) PROVE lock'[TenantRow] = w
        BY <4>2, <4>7 DEF GateConfidence, Send, Continue
      <4>8. lock'[TenantRow] = w
        BY <3>5, <4>5, <4>6, <4>7
      <4> QED
        BY <3>2, <4>2, <4>8 DEF BudgetLeft
    <3> QED
      BY <3>1, <3>3, <3>4, <3>5
  <2> QED
    BY <2>1, <2>2 DEF BudgetHeld
<1>2. CASE Outside
  BY <1>2, OutsideKept DEF BudgetHeld, BudgetLeft, workers
<1>3. CASE UNCHANGED vars
  BY <1>3 DEF BudgetHeld, BudgetLeft, vars
<1> QED
  BY <1>1, <1>2, <1>3 DEF Next, Move

\* The guarded increments: the caps hold because the budget found left was still left.
LEMMA CapsStep ==
  ASSUME TypeOK, WorkersOK, BoxHeld, BudgetHeld, CapsRespected, [Next]_vars
  PROVE  CapsRespected'
<1> USE CapsAssumption
<1>1. ASSUME NEW w \in Workers, Move(w) PROVE CapsRespected'
  <2>1. \A m \in Mailboxes : boxUsed'[m] <= BoxCap[m]
    BY <1>1, WritesOfMover DEF BoxHeld, TypeOK, CapsRespected
  <2>2. CASE UNCHANGED <<tenantUsed, cohortUsed>>
    BY <2>1, <2>2 DEF CapsRespected
  <2>3. CASE RecordDispatch(w) /\ Volume(cur[w])
    <3>1. BudgetLeft(cur[w]) /\ cur[w] \in Touches
      BY <2>3, HeldTouch DEF RecordDispatch, BudgetHeld, Funded
    <3>2. tenantUsed' <= TenantCap
      BY <2>3, <3>1 DEF RecordDispatch, BudgetLeft, TypeOK
    <3>3. \A c \in Cohorts : cohortUsed'[c] <= CohortCap[c]
      BY <2>3, <3>1 DEF RecordDispatch, BudgetLeft, TypeOK, CapsRespected
    <3> QED
      BY <2>1, <3>2, <3>3 DEF CapsRespected
  <2> QED
    BY <1>1, <2>2, <2>3, WritesOfMover
<1>2. CASE Outside
  BY <1>2, OutsideKept DEF CapsRespected
<1>3. CASE UNCHANGED vars
  BY <1>3 DEF CapsRespected, vars
<1> QED
  BY <1>1, <1>2, <1>3 DEF Next, Move

\* I-8: no interleaving of delivers takes a counter over its cap (try_consume_budget,
\* pick_mailbox), for any caps and any number of workers, mailboxes and cohorts.
THEOREM CapsAreRespected == Spec => []CapsRespected
<1> DEFINE Inv == BoxHeld /\ BudgetHeld /\ CapsRespected
<1>1. Init => Inv
  BY ConstantsAssumption, CapsAssumption
  DEF Init, BoxHeld, BudgetHeld, Funded, CapsRespected
<1>2. TypeOK /\ WorkersOK /\ Inv /\ [Next]_vars => Inv'
  BY BoxStep, BudgetStep, CapsStep
<1> QED
  BY <1>1, <1>2, TypeCorrect, PTL DEF Spec

----------------------------------------------------------------------------
\* Past gate 4 a worker only adds row locks: of the tenant, a mailbox or its touch.
LEMMA LocksOfMover ==
  ASSUME TypeOK, WorkersOK, NEW w \in Workers, Move(w), pc'[w] \in Governed
  PROVE  /\ cur'[w] = cur[w] /\ UNCHANGED <<active, recent, contacts>>
         /\ \A e \in Entities : lock[e] = w => lock'[e] = w
<1>1. \/ GateScreen(w) \/ GateEntity(w) \/ GateBudget(w) \/ GateMailbox(w)
      \/ GateConfidence(w) \/ PersistClaim(w) \/ Send(w)
  BY ProgramOrder
<1>2. /\ cur' = cur /\ UNCHANGED <<active, recent, contacts>> /\ cur[w] \in Touches
  BY <1>1, HeldTouch DEF GateScreen, GateEntity, GateBudget, GateMailbox, GateConfidence,
     PersistClaim, Send, Continue, Leave, tables
<1>3. ASSUME NEW outcome \in AfterTxn, Leave(w, outcome) PROVE FALSE
  BY <1>3 DEF Leave, EndTxn, Goto, Governed, Funded, AfterTxn, TypeOK
<1>4. UNCHANGED lock \/ \E r \in Rows : lock' = [lock EXCEPT ![r] = w]
  <2>1. CASE GateScreen(w) \/ GateConfidence(w) \/ Send(w)
    BY <2>1 DEF GateScreen, GateConfidence, Send, Continue
  <2>2. CASE GateEntity(w)
    BY <1>2, <2>2, RowsOfTouch DEF GateEntity
  <2>3. CASE GateBudget(w)
    BY <1>2, <1>3, <2>3, RowsOfTouch DEF GateBudget, AfterTxn
  <2>4. CASE GateMailbox(w)
    BY <1>3, <2>4 DEF GateMailbox, FreeBoxes, AfterTxn, Rows
  <2>5. CASE PersistClaim(w)
    BY <1>2, <1>3, <2>5, RowsOfTouch DEF PersistClaim, AfterTxn
  <2> QED
    BY <1>1, <2>1, <2>2, <2>3, <2>4, <2>5
<1> QED
  BY <1>2, <1>4 DEF TypeOK, Rows

\* The entity row, taken at gate 4, keeps its verdict until the commit.
LEMMA EntityStep ==
  ASSUME TypeOK, WorkersOK, EntityHeld, [Next]_vars
  PROVE  EntityHeld'
<1> USE ConstantsAssumption
<1>1. ASSUME NEW w \in Workers, Move(w) PROVE EntityHeld'
  <2>1. ASSUME NEW v \in Workers, v # w, pc'[v] \in Governed, Volume(cur'[v])
        PROVE  lock'[Entity(cur'[v])] = v /\ Verdict(cur[v])'
    <3>1. pc[v] \in Governed /\ cur'[v] = cur[v] /\ Volume(cur[v])
      BY <1>1, <2>1, OthersKept
    <3>2. cur[v] \in Touches /\ Entity(cur[v]) \in Entities \intersect Rows
      BY <3>1, HeldTouch, RowsOfTouch DEF Governed, Funded
    <3>3. lock[Entity(cur[v])] = v /\ Verdict(cur[v])
      BY <3>1 DEF EntityHeld
    <3>4. lock'[Entity(cur[v])] = v
      BY <1>1, <2>1, <3>2, <3>3, OthersKept
    <3>5. CASE UNCHANGED <<active, recent, contacts>>
      BY <3>1, <3>3, <3>4, <3>5 DEF Verdict
    <3>6. CASE RecordDispatch(w) /\ Volume(cur[w])
      <4>1. lock[Entity(cur[w])] = w
        BY <3>6 DEF RecordDispatch, EntityHeld, Governed, Funded
      <4>2. Entity(cur[w]) # Entity(cur[v])
        BY <2>1, <3>3, <4>1
      <4>3. /\ active'[Entity(cur[v])] = active[Entity(cur[v])]
            /\ recent'[Entity(cur[v])] = recent[Entity(cur[v])]
            /\ contacts'[Entity(cur[v])] = contacts[Entity(cur[v])]
        BY <3>2, <3>6, <4>2 DEF RecordDispatch, TypeOK
      <4> QED
        BY <3>1, <3>3, <3>4, <4>3 DEF Verdict
    <3> QED
      BY <1>1, <3>5, <3>6, WritesOfMover
  <2>2. ASSUME pc'[w] \in Governed, Volume(cur'[w])
        PROVE  lock'[Entity(cur'[w])] = w /\ Verdict(cur[w])'
    <3>1. \/ GateScreen(w) \/ GateEntity(w) \/ GateBudget(w) \/ GateMailbox(w)
          \/ GateConfidence(w) \/ PersistClaim(w) \/ Send(w)
      BY <1>1, <2>2, ProgramOrder
    <3>2. /\ cur'[w] = cur[w] /\ UNCHANGED <<active, recent, contacts>>
          /\ \A e \in Entities : lock[e] = w => lock'[e] = w
      BY <1>1, <2>2, LocksOfMover
    <3>3. cur[w] \in Touches /\ Entity(cur[w]) \in Entities \intersect Rows
      BY <3>1, HeldTouch, RowsOfTouch
      DEF GateScreen, GateEntity, GateBudget, GateMailbox, GateConfidence, PersistClaim, Send
    <3>4. CASE GateScreen(w)
      BY <2>2, <3>2, <3>4 DEF GateScreen, Continue, Goto, Governed, Funded, TypeOK
    <3>5. CASE GateEntity(w)
      <4>1. lock'[Entity(cur[w])] = w
        BY <3>3, <3>5 DEF GateEntity, TypeOK
      <4>2. IF Kind[cur[w]] = "cold" THEN FrequencyOk(cur[w]) ELSE ContinuationOk(cur[w], snap[w])
        BY <2>2, <3>5 DEF GateEntity, Goto, Governed, Funded, TypeOK
      <4>3. Verdict(cur[w])
        BY <4>2 DEF Verdict, FrequencyOk, ContinuationOk
      <4> QED
        BY <3>2, <4>1, <4>3 DEF Verdict
    <3>6. CASE \/ GateBudget(w) \/ GateMailbox(w) \/ GateConfidence(w) \/ PersistClaim(w)
               \/ Send(w)
      <4>1. pc[w] \in Governed
        BY <3>6 DEF GateBudget, GateMailbox, GateConfidence, PersistClaim, Send, Governed, Funded
      <4>2. lock[Entity(cur[w])] = w /\ Verdict(cur[w])
        BY <2>2, <3>2, <4>1 DEF EntityHeld
      <4> QED
        BY <3>2, <3>3, <4>2 DEF Verdict
    <3> QED
      BY <3>1, <3>4, <3>5, <3>6
  <2> QED
    BY <2>1, <2>2 DEF EntityHeld
<1>2. CASE Outside
  <2>1. UNCHANGED <<workers, lock, contacts>>
    BY <1>2, OutsideKept
  <2>2. SUFFICES ASSUME NEW v \in Workers, pc[v] \in Governed, Volume(cur[v])
                 PROVE  Verdict(cur[v])'
    BY <2>1 DEF EntityHeld, workers
  <2>3. lock[Entity(cur[v])] = v /\ Verdict(cur[v]) /\ cur'[v] = cur[v]
    BY <2>1, <2>2 DEF EntityHeld, workers
  <2>4. lock[Entity(cur[v])] # None
    BY <2>3
  <2>5. ASSUME NEW p \in Prospects, ReleaseSequence(p) PROVE Verdict(cur[v])'
    <3>1. /\ active'[Entity(cur[v])] = active[Entity(cur[v])] /\ UNCHANGED <<recent, contacts>>
      BY <2>4, <2>5 DEF ReleaseSequence, TypeOK
    <3> QED
      BY <2>3, <3>1 DEF Verdict
  <2>6. ASSUME NEW e \in Entities, GapElapses(e) PROVE Verdict(cur[v])'
    <3>1. UNCHANGED <<active, contacts>> /\ (~recent[Entity(cur[v])] => ~recent'[Entity(cur[v])])
      BY <2>6 DEF GapElapses, TypeOK
    <3> QED
      BY <2>3, <3>1 DEF Verdict
  <2>7. CASE UNCHANGED <<active, recent, contacts>>
    BY <2>3, <2>7 DEF Verdict
  <2> QED
    BY <1>2, <2>1, <2>5, <2>6, <2>7
    DEF Outside, QueueDraft, Reap, IngestReply, Suppress, Forget, Halt, Resume, tables
<1>3. CASE UNCHANGED vars
  BY <1>3 DEF EntityHeld, Verdict, vars
<1> QED
  BY <1>1, <1>2, <1>3 DEF Next, Move

\* I-7 at commit: what gate 4 found holds when the dispatch commits (store_pg.frequency_ok,
\* sequence_continuation_ok), for any workers, touches and entities.
THEOREM GateFourHolds == Spec => GateFourHoldsAtCommit
<1> DEFINE Kept == \A t \in Touches : records'[t] > records[t] =>
                      LET e == Entity(t)
                      IN  /\ Kind[t] = "cold" => active[e] = None /\ ~recent[e]
                          /\ Kind[t] = "followup" => active[e] \in TouchesOf(ProspectOf[t])
<1>1. Init => EntityHeld
  BY DEF Init, EntityHeld, Governed, Funded
<1>2. TypeOK /\ WorkersOK /\ EntityHeld /\ [Next]_vars => EntityHeld'
  BY EntityStep
<1>3. TypeOK /\ WorkersOK /\ EntityHeld /\ [Next]_vars => [Kept]_vars
  <2> SUFFICES ASSUME TypeOK, WorkersOK, EntityHeld, [Next]_vars,
                      NEW t \in Touches, records'[t] > records[t]
               PROVE  Volume(t) => Verdict(t)
    BY DEF Verdict, Volume
  <2>1. PICK w \in Workers : RecordDispatch(w)
    <3>1. ASSUME UNCHANGED records PROVE FALSE
      BY <3>1 DEF TypeOK
    <3> QED
      BY <3>1, WritesOfMover, OutsideKept DEF Next, Move, vars
  <2>2. t = cur[w]
    BY <2>1 DEF RecordDispatch, TypeOK
  <2> QED
    BY <2>1, <2>2 DEF RecordDispatch, EntityHeld, Governed, Funded
<1> QED
  BY <1>1, <1>2, <1>3, TypeCorrect, PTL DEF Spec, GateFourHoldsAtCommit

----------------------------------------------------------------------------
\* The entity row also keeps a forget away: the prospect found verified at gate 7 is
\* still there when the message leaves.
LEMMA ProspectStep ==
  ASSUME TypeOK, WorkersOK, EntityHeld, ProspectHeld, [Next]_vars
  PROVE  ProspectHeld'
<1> DEFINE Late == {"persist", "send", "record"}
<1>1. ASSUME NEW w \in Workers, Move(w) PROVE ProspectHeld'
  <2>1. ASSUME NEW p \in Prospects, pstate[p] # "forgotten" PROVE pstate'[p] # "forgotten"
    <3>1. CASE UNCHANGED pstate
      BY <2>1, <3>1
    <3>2. CASE RecordDispatch(w)
      BY <2>1, <3>2 DEF RecordDispatch, TypeOK
    <3> QED
      BY <1>1, <3>1, <3>2, WritesOfMover
  <2>2. ASSUME NEW v \in Workers, v # w, pc'[v] \in Late, Volume(cur'[v])
        PROVE  pstate'[ProspectOf[cur'[v]]] # "forgotten"
    <3>1. pc[v] \in Late /\ cur'[v] = cur[v] /\ Volume(cur[v])
      BY <1>1, <2>2, OthersKept
    <3>2. ProspectOf[cur[v]] \in Prospects
      BY <3>1, HeldTouch, RowsOfTouch
    <3> QED
      BY <2>1, <3>1, <3>2 DEF ProspectHeld
  <2>3. ASSUME pc'[w] \in Late, Volume(cur'[w])
        PROVE  pstate'[ProspectOf[cur'[w]]] # "forgotten"
    <3>1. \/ GateScreen(w) \/ GateEntity(w) \/ GateBudget(w) \/ GateMailbox(w)
          \/ GateConfidence(w) \/ PersistClaim(w) \/ Send(w)
      BY <1>1, <2>3, ProgramOrder DEF Governed, Funded
    <3>2. GateConfidence(w) \/ PersistClaim(w) \/ Send(w)
      BY <2>3, <3>1 DEF GateScreen, GateEntity, GateBudget, GateMailbox, Continue, Leave, EndTxn,
                        Goto, TypeOK
    <3>3. cur'[w] = cur[w] /\ UNCHANGED pstate
      BY <3>2 DEF GateConfidence, PersistClaim, Send, Continue, Leave, tables
    <3>4. CASE GateConfidence(w)
      BY <2>3, <3>3, <3>4 DEF GateConfidence, Verified, Continue, Goto, TypeOK
    <3>5. CASE PersistClaim(w) \/ Send(w)
      BY <2>3, <3>3, <3>5 DEF PersistClaim, Send, ProspectHeld
    <3> QED
      BY <3>2, <3>4, <3>5
  <2> QED
    BY <2>2, <2>3 DEF ProspectHeld
<1>2. CASE Outside
  <2>1. UNCHANGED workers
    BY <1>2, OutsideKept
  <2>2. SUFFICES ASSUME NEW v \in Workers, pc[v] \in Late, Volume(cur[v])
                 PROVE  pstate'[ProspectOf[cur[v]]] # "forgotten"
    BY <2>1 DEF ProspectHeld, workers
  <2>3. pstate[ProspectOf[cur[v]]] # "forgotten" /\ lock[Entity(cur[v])] = v
    BY <2>2 DEF ProspectHeld, EntityHeld, Governed, Funded
  <2>4. ProspectOf[cur[v]] \in Prospects
    BY <2>2, HeldTouch, RowsOfTouch
  <2>5. ASSUME NEW e \in Entities, Forget(e)
        PROVE  pstate'[ProspectOf[cur[v]]] # "forgotten"
    <3>1. EntityOf[ProspectOf[cur[v]]] # e
      BY <2>3, <2>5, ConstantsAssumption DEF Forget, Entity
    <3> QED
      BY <2>3, <2>4, <2>5, <3>1 DEF Forget, TypeOK
  <2>6. ASSUME NEW p \in Prospects, IngestReply(p)
        PROVE  pstate'[ProspectOf[cur[v]]] # "forgotten"
    BY <2>3, <2>4, <2>6 DEF IngestReply, TypeOK
  <2>7. CASE UNCHANGED pstate
    BY <2>3, <2>7
  <2> QED
    BY <1>2, <2>5, <2>6, <2>7
    DEF Outside, QueueDraft, Reap, ReleaseSequence, GapElapses, Suppress, Halt, Resume, tables
<1>3. CASE UNCHANGED vars
  BY <1>3 DEF ProspectHeld, vars
<1> QED
  BY <1>1, <1>2, <1>3 DEF Next, Move

\* A message is sent by Send only.
LEMMA SendsOfStep ==
  ASSUME [Next]_vars
  PROVE  UNCHANGED sends \/ \E w \in Workers : Send(w)
<1>1. ASSUME NEW w \in Workers, Move(w), ~Send(w) PROVE UNCHANGED sends
  <2>1. ASSUME \/ ReadStatus(w) \/ LoadGateDraft(w) \/ GateHalt(w) \/ GateScreen(w)
               \/ GateConfidence(w) \/ GateFrequency(w) \/ GateEntity(w) \/ GateBudget(w)
               \/ GateMailbox(w) \/ PersistClaim(w)
        PROVE  UNCHANGED sends
    BY <2>1 DEF ReadStatus, LoadGateDraft, GateHalt, GateScreen, GateConfidence, GateFrequency,
       GateEntity, GateBudget, GateMailbox, PersistClaim, Continue, Leave, world
  <2>2. ASSUME \/ RecordDispatch(w) \/ Release(w) \/ Settle(w) \/ Crash(w) \/ TxnError(w)
               \/ \E t \in Touches : Lease(w, t)
        PROVE  UNCHANGED sends
    BY <2>2 DEF RecordDispatch, Release, Settle, Crash, TxnError, Lease, world
  <2> QED
    BY <1>1, <2>1, <2>2 DEF Move, WorkerStep, Deliver
<1> QED
  BY <1>1, OutsideKept DEF Next, Move, vars

\* A cold touch or follow-up never reaches a forgotten prospect (forget.py waits for the
\* row that gate 4 locked), for any workers, touches and entities.
THEOREM ForgottenAreNotContacted == Spec => ForgottenNotContacted
<1> DEFINE Inv == EntityHeld /\ ProspectHeld
           Kept == \A t \in Touches : sends'[t] > sends[t] /\ Volume(t)
                      => pstate[ProspectOf[t]] # "forgotten"
<1>1. Init => Inv
  BY DEF Init, EntityHeld, ProspectHeld, Governed, Funded
<1>2. TypeOK /\ WorkersOK /\ Inv /\ [Next]_vars => Inv'
  BY EntityStep, ProspectStep
<1>3. TypeOK /\ WorkersOK /\ Inv /\ [Next]_vars => [Kept]_vars
  <2> SUFFICES ASSUME TypeOK, WorkersOK, Inv, [Next]_vars,
                      NEW t \in Touches, sends'[t] > sends[t], Volume(t)
               PROVE  pstate[ProspectOf[t]] # "forgotten"
    OBVIOUS
  <2>1. PICK w \in Workers : Send(w)
    <3>1. ASSUME UNCHANGED sends PROVE FALSE
      BY <3>1 DEF TypeOK
    <3> QED
      BY <3>1, SendsOfStep
  <2>2. t = cur[w]
    BY <2>1 DEF Send, TypeOK
  <2> QED
    BY <2>1, <2>2 DEF Send, ProspectHeld
<1> QED
  BY <1>1, <1>2, <1>3, TypeCorrect, PTL DEF Spec, ForgottenNotContacted

----------------------------------------------------------------------------
\* The row of a claimed touch is locked: nobody else claims, releases or redrafts it.
LEMMA TouchStep ==
  ASSUME TypeOK, WorkersOK, TouchHeld, [Next]_vars
  PROVE  TouchHeld'
<1>1. ASSUME NEW w \in Workers, Move(w) PROVE TouchHeld'
  <2>1. ASSUME NEW v \in Workers, v # w, pc'[v] \in {"send", "record"}
        PROVE  lock'[cur'[v]] = v /\ touch'[cur'[v]] = "drafted"
    <3>1. pc[v] \in {"send", "record"} /\ cur'[v] = cur[v]
      BY <1>1, <2>1, OthersKept
    <3>2. lock[cur[v]] = v /\ touch[cur[v]] = "drafted" /\ cur[v] \in Touches /\ cur[v] \in Rows
      BY <3>1, HeldTouch, RowsOfTouch DEF TouchHeld
    <3>3. lock'[cur[v]] = v
      BY <1>1, <2>1, <3>2, OthersKept
    <3>4. ASSUME RecordDispatch(w) \/ Release(w) PROVE cur[w] # cur[v]
      <4>1. lock[cur[w]] \in {None, w}
        BY <3>4 DEF RecordDispatch, Release, CanLock, TouchHeld
      <4> QED
        BY <2>1, <3>2, <4>1, ConstantsAssumption
    <3>5. touch'[cur[v]] = "drafted"
      BY <1>1, <3>2, <3>4, WritesOfMover DEF RecordDispatch, Release, TypeOK
    <3> QED
      BY <3>1, <3>3, <3>5
  <2>2. ASSUME pc'[w] \in {"send", "record"}
        PROVE  lock'[cur'[w]] = w /\ touch'[cur'[w]] = "drafted"
    <3>1. \/ GateScreen(w) \/ GateEntity(w) \/ GateBudget(w) \/ GateMailbox(w)
          \/ GateConfidence(w) \/ PersistClaim(w) \/ Send(w)
      BY <1>1, <2>2, ProgramOrder DEF Governed, Funded
    <3>2. PersistClaim(w) \/ Send(w)
      BY <2>2, <3>1 DEF GateScreen, GateEntity, GateBudget, GateMailbox, GateConfidence, Continue,
                        Leave, EndTxn, Goto, TypeOK
    <3>3. CASE PersistClaim(w)
      <4>1. cur[w] \in Touches /\ cur[w] \in Rows
        BY <3>3, HeldTouch, RowsOfTouch DEF PersistClaim
      <4>2. ~Leave(w, "retry")
        BY <2>2 DEF Leave, EndTxn, Goto, TypeOK
      <4> QED
        BY <3>3, <4>1, <4>2 DEF PersistClaim, Claimable, tables, TypeOK
    <3>4. CASE Send(w)
      BY <3>4 DEF Send, TouchHeld, tables
    <3> QED
      BY <3>2, <3>3, <3>4
  <2> QED
    BY <2>1, <2>2 DEF TouchHeld
<1>2. CASE Outside
  <2>1. UNCHANGED <<workers, lock>>
    BY <1>2, OutsideKept
  <2>2. ASSUME NEW t \in Touches, touch[t] = "drafted" PROVE touch'[t] = "drafted"
    <3>1. ASSUME NEW u \in Touches, QueueDraft(u) PROVE touch'[t] = "drafted"
      BY <2>2, <3>1 DEF QueueDraft, TypeOK
    <3> QED
      BY <1>2, <2>2, <3>1
      DEF Outside, Reap, IngestReply, ReleaseSequence, GapElapses, Suppress, Forget, Halt, Resume, tables
  <2> QED
    BY <2>1, <2>2, HeldTouch DEF TouchHeld, workers
<1>3. CASE UNCHANGED vars
  BY <1>3 DEF TouchHeld, vars
<1> QED
  BY <1>1, <1>2, <1>3 DEF Next, Move

\* A dispatch is recorded on a touch that was still drafted, so once.
LEMMA DispatchedStep ==
  ASSUME TypeOK, WorkersOK, TouchHeld, DispatchedOnce, [Next]_vars
  PROVE  DispatchedOnce'
<1>1. ASSUME NEW w \in Workers, Move(w) PROVE DispatchedOnce'
  <2>1. CASE RecordDispatch(w)
    <3>1. cur[w] \in Touches /\ touch[cur[w]] = "drafted"
      BY <2>1, HeldTouch DEF RecordDispatch, TouchHeld
    <3>2. records[cur[w]] = 0
      BY <3>1 DEF DispatchedOnce
    <3>3. /\ touch' = [touch EXCEPT ![cur[w]] = "dispatched"]
          /\ records' = [records EXCEPT ![cur[w]] = @ + 1]
      BY <2>1 DEF RecordDispatch
    <3> QED
      BY <3>1, <3>2, <3>3 DEF DispatchedOnce, TypeOK
  <2>2. CASE Release(w)
    BY <2>2 DEF Release, DispatchedOnce, TypeOK
  <2>3. CASE UNCHANGED <<touch, records>>
    BY <2>3 DEF DispatchedOnce
  <2> QED
    BY <1>1, <2>1, <2>2, <2>3, WritesOfMover
<1>2. CASE Outside
  <2>1. UNCHANGED records
    BY <1>2, OutsideKept
  <2>2. ASSUME NEW t \in Touches, QueueDraft(t) PROVE DispatchedOnce'
    BY <2>1, <2>2 DEF QueueDraft, DispatchedOnce, TypeOK
  <2>3. CASE UNCHANGED touch
    BY <2>1, <2>3 DEF DispatchedOnce
  <2> QED
    BY <1>2, <2>2, <2>3
    DEF Outside, Reap, IngestReply, ReleaseSequence, GapElapses, Suppress, Forget, Halt, Resume, tables
<1>3. CASE UNCHANGED vars
  BY <1>3 DEF DispatchedOnce, vars
<1> QED
  BY <1>1, <1>2, <1>3 DEF Next, Move

\* A step that is none of the four that send, commit or lose a message touches neither
\* the counts nor who is sending.
LEMMA QuietForSends ==
  ASSUME TypeOK, NEW w \in Workers, Move(w),
         ~Send(w), ~RecordDispatch(w), ~((Crash(w) \/ TxnError(w)) /\ pc[w] = "record")
  PROVE  /\ UNCHANGED <<sends, records, lost>>
         /\ pc[w] # "record" /\ pc'[w] # "record"
<1> USE DEF world, Goto, TypeOK
<1>1. ASSUME NEW outcome \in AfterTxn, Leave(w, outcome)
      PROVE  UNCHANGED <<sends, records, lost>> /\ pc'[w] # "record"
  BY <1>1 DEF Leave, EndTxn, AfterTxn
<1>2. ASSUME NEW to, Continue(w, to)
      PROVE  UNCHANGED <<sends, records, lost>> /\ pc'[w] = to
  BY <1>2 DEF Continue
<1>3. ASSUME NEW t \in Touches, Lease(w, t)
      PROVE  UNCHANGED <<sends, records, lost>> /\ pc[w] # "record" /\ pc'[w] # "record"
  BY <1>3 DEF Lease
<1>4. ASSUME \/ ReadStatus(w) \/ LoadGateDraft(w) \/ GateHalt(w) \/ GateScreen(w)
             \/ GateConfidence(w)
      PROVE  UNCHANGED <<sends, records, lost>> /\ pc[w] # "record" /\ pc'[w] # "record"
  BY <1>1, <1>2, <1>4
  DEF ReadStatus, LoadGateDraft, GateHalt, GateScreen, GateConfidence, AfterTxn
<1>5. ASSUME \/ GateFrequency(w) \/ GateEntity(w) \/ GateBudget(w) \/ GateMailbox(w)
             \/ PersistClaim(w)
      PROVE  UNCHANGED <<sends, records, lost>> /\ pc[w] # "record" /\ pc'[w] # "record"
  BY <1>1, <1>5 DEF GateFrequency, GateEntity, GateBudget, GateMailbox, PersistClaim, AfterTxn
<1>6. ASSUME Release(w) \/ Settle(w)
      PROVE  UNCHANGED <<sends, records, lost>> /\ pc[w] # "record" /\ pc'[w] # "record"
  BY <1>6 DEF Release, Settle, EndTxn, AfterTxn
<1>7. ASSUME Crash(w) \/ TxnError(w), pc[w] # "record"
      PROVE  UNCHANGED <<sends, records, lost>> /\ pc'[w] # "record"
  BY <1>7 DEF Crash, TxnError, LoseSend, EndTxn
<1> QED
  BY <1>3, <1>4, <1>5, <1>6, <1>7 DEF Move, WorkerStep, Deliver

LEMMA SendsStep ==
  ASSUME TypeOK, WorkersOK, SendsCounted, [Next]_vars
  PROVE  SendsCounted'
<1>1. ASSUME NEW w \in Workers, Move(w) PROVE SendsCounted'
  <2> SUFFICES ASSUME NEW t \in Touches
               PROVE  sends'[t] = records'[t] + lost'[t] + Cardinality(Sending(t)')
    BY DEF SendsCounted
  <2>1. /\ IsFiniteSet(Sending(t)) /\ Cardinality(Sending(t)) \in Nat
        /\ sends[t] = records[t] + lost[t] + Cardinality(Sending(t))
        /\ sends[t] \in Nat /\ records[t] \in Nat /\ lost[t] \in Nat
    <3>1. IsFiniteSet(Sending(t))
      BY ConstantsAssumption, FS_Subset DEF Sending
    <3> QED
      BY <3>1, FS_CardinalityType DEF SendsCounted, TypeOK
  <2>2. \A v \in Workers : v # w => pc'[v] = pc[v] /\ cur'[v] = cur[v]
    BY <1>1, OthersKept
  <2>3. CASE Send(w)
    <3>1. pc[w] = "send" /\ pc'[w] = "record" /\ cur'[w] = cur[w] /\ UNCHANGED <<records, lost>>
      BY <2>3 DEF Send, Goto, TypeOK
    <3>2. CASE cur[w] = t
      <4>1. sends'[t] = sends[t] + 1
        BY <2>3, <3>2 DEF Send, TypeOK
      <4>2. Sending(t)' = Sending(t) \union {w} /\ w \notin Sending(t)
        BY <2>2, <3>1, <3>2 DEF Sending
      <4>3. Cardinality(Sending(t)') = Cardinality(Sending(t)) + 1
        BY <2>1, <4>2, FS_AddElement
      <4> QED
        BY <2>1, <3>1, <4>1, <4>3
    <3>3. CASE cur[w] # t
      <4>1. sends'[t] = sends[t] /\ Sending(t)' = Sending(t)
        BY <2>2, <2>3, <3>1, <3>3 DEF Send, Sending, TypeOK
      <4> QED
        BY <2>1, <3>1, <4>1
    <3> QED
      BY <3>2, <3>3
  <2>4. CASE \/ RecordDispatch(w)
             \/ (Crash(w) \/ TxnError(w)) /\ pc[w] = "record"
    <3>1. pc[w] = "record" /\ pc'[w] # "record" /\ UNCHANGED sends
      BY <2>4 DEF RecordDispatch, Crash, TxnError, EndTxn, Goto, TypeOK
    <3>2. CASE cur[w] = t
      <4>1. records'[t] + lost'[t] = records[t] + lost[t] + 1
        <5>1. CASE RecordDispatch(w)
          BY <2>1, <3>2, <5>1 DEF RecordDispatch, TypeOK
        <5>2. CASE Crash(w) \/ TxnError(w)
          BY <2>1, <3>1, <3>2, <5>2 DEF Crash, TxnError, LoseSend, TypeOK
        <5> QED
          BY <2>4, <5>1, <5>2
      <4>2. Sending(t)' = Sending(t) \ {w} /\ w \in Sending(t)
        BY <2>2, <3>1, <3>2 DEF Sending
      <4>3. Cardinality(Sending(t)') = Cardinality(Sending(t)) - 1
        BY <2>1, <4>2, FS_RemoveElement
      <4> QED
        BY <2>1, <3>1, <4>1, <4>3
    <3>3. CASE cur[w] # t
      <4>1. records'[t] = records[t] /\ lost'[t] = lost[t]
        BY <2>4, <3>3 DEF RecordDispatch, Crash, TxnError, LoseSend, TypeOK
      <4>2. Sending(t)' = Sending(t)
        BY <2>2, <3>1, <3>3 DEF Sending
      <4> QED
        BY <2>1, <3>1, <4>1, <4>2
    <3> QED
      BY <3>2, <3>3
  <2>5. CASE /\ ~Send(w) /\ ~RecordDispatch(w)
             /\ ~((Crash(w) \/ TxnError(w)) /\ pc[w] = "record")
    <3>1. UNCHANGED <<sends, records, lost>> /\ pc[w] # "record" /\ pc'[w] # "record"
      BY <1>1, <2>5, QuietForSends
    <3>2. Sending(t)' = Sending(t)
      BY <2>2, <3>1 DEF Sending
    <3> QED
      BY <2>1, <3>1, <3>2
  <2> QED
    BY <2>3, <2>4, <2>5
<1>2. CASE Outside
  BY <1>2, OutsideKept DEF SendsCounted, Sending, workers
<1>3. CASE UNCHANGED vars
  BY <1>3 DEF SendsCounted, Sending, vars
<1> QED
  BY <1>1, <1>2, <1>3 DEF Next, Move

\* Every message the provider accepted is recorded by one committed dispatch, or was lost
\* before the commit, or is being recorded (sendpath.deliver, persist_claim's guard).
THEOREM SendsAreAccounted == Spec => []SendsAccounted
<1> DEFINE Inv == TouchHeld /\ DispatchedOnce /\ SendsCounted
<1>1. Init => Inv
  <2> SUFFICES ASSUME Init PROVE Inv
    OBVIOUS
  <2>1. \A t \in Touches : Sending(t) = {}
    BY DEF Init, Sending
  <2>2. TouchHeld /\ DispatchedOnce
    BY DEF Init, TouchHeld, DispatchedOnce
  <2>3. ASSUME NEW t \in Touches
        PROVE  sends[t] = records[t] + lost[t] + Cardinality(Sending(t))
    <3>1. sends[t] = 0 /\ records[t] = 0 /\ lost[t] = 0
      BY DEF Init
    <3>2. Cardinality(Sending(t)) = 0
      BY <2>1, FS_EmptySet
    <3> QED
      BY <3>1, <3>2
  <2> QED
    BY <2>2, <2>3 DEF SendsCounted
<1>2. TypeOK /\ WorkersOK /\ Inv /\ [Next]_vars => Inv'
  BY TouchStep, DispatchedStep, SendsStep
<1>3. Inv => SendsAccounted
  BY DEF DispatchedOnce, SendsCounted, SendsAccounted, Sending
<1> QED
  BY <1>1, <1>2, <1>3, TypeCorrect, PTL DEF Spec

----------------------------------------------------------------------------
\* The steps a worker has between gate 1 and the message leaving.
Unsent == {"screen", "frequency", "entity", "budget", "mailbox", "confidence", "persist", "send"}

\* Under a halt nobody comes past gate 1.
LEMMA NobodyJoins ==
  ASSUME TypeOK, NEW w \in Workers, Move(w), halted, pc'[w] \in Unsent
  PROVE  pc[w] \in Unsent /\ ~Send(w)
<1> USE DEF Unsent, TypeOK, Goto
<1>1. ASSUME NEW outcome \in AfterTxn \union {"idle"}, EndTxn(w, outcome) PROVE FALSE
  BY <1>1 DEF EndTxn, AfterTxn
<1>2. ASSUME ReadStatus(w) \/ LoadGateDraft(w) PROVE FALSE
  BY <1>1, <1>2 DEF ReadStatus, LoadGateDraft, Continue, Leave, AfterTxn
<1>3. ASSUME GateHalt(w) PROVE FALSE
  BY <1>1, <1>3 DEF GateHalt, Leave, AfterTxn
<1>4. ASSUME NEW t \in Touches, Lease(w, t) PROVE FALSE
  BY <1>4 DEF Lease
<1>5. ASSUME Send(w) \/ Settle(w) PROVE FALSE
  BY <1>5 DEF Send, Settle
<1>6. ASSUME RecordDispatch(w) \/ Release(w) \/ Crash(w) \/ TxnError(w) PROVE FALSE
  BY <1>1, <1>6 DEF RecordDispatch, Release, Crash, TxnError, AfterTxn
<1>7. ASSUME \/ GateScreen(w) \/ GateFrequency(w) \/ GateEntity(w) \/ GateBudget(w)
             \/ GateMailbox(w) \/ GateConfidence(w) \/ PersistClaim(w)
      PROVE  pc[w] \in Unsent
  BY <1>7 DEF GateScreen, GateFrequency, GateEntity, GateBudget, GateMailbox, GateConfidence,
              PersistClaim
<1> QED
  BY <1>2, <1>3, <1>4, <1>5, <1>6, <1>7 DEF Move, WorkerStep, Deliver

\* Only Send, Halt and Resume touch the halt and its count of messages.
LEMMA HaltSendsOfStep ==
  ASSUME [Next]_vars
  PROVE  \/ UNCHANGED <<halted, haltSends>>
         \/ \E w \in Workers : Send(w)
         \/ Halt \/ Resume
<1> USE DEF world, flags
<1>1. ASSUME NEW w \in Workers, Move(w), ~Send(w) PROVE UNCHANGED <<halted, haltSends>>
  <2>1. ASSUME \/ ReadStatus(w) \/ LoadGateDraft(w) \/ GateHalt(w) \/ GateScreen(w)
               \/ GateConfidence(w) \/ GateFrequency(w) \/ GateEntity(w) \/ GateBudget(w)
               \/ GateMailbox(w) \/ PersistClaim(w)
        PROVE  UNCHANGED <<halted, haltSends>>
    BY <2>1 DEF ReadStatus, LoadGateDraft, GateHalt, GateScreen, GateConfidence, GateFrequency,
       GateEntity, GateBudget, GateMailbox, PersistClaim, Continue, Leave
  <2>2. ASSUME \/ RecordDispatch(w) \/ Release(w) \/ Settle(w) \/ Crash(w) \/ TxnError(w)
               \/ \E t \in Touches : Lease(w, t)
        PROVE  UNCHANGED <<halted, haltSends>>
    BY <2>2 DEF RecordDispatch, Release, Settle, Crash, TxnError, Lease
  <2> QED
    BY <1>1, <2>1, <2>2 DEF Move, WorkerStep, Deliver
<1>2. ASSUME Outside, ~Halt, ~Resume PROVE UNCHANGED <<halted, haltSends>>
  BY <1>2 DEF Outside, QueueDraft, Reap, IngestReply, ReleaseSequence, Suppress, Forget, GapElapses
<1>3. CASE UNCHANGED vars
  BY <1>3 DEF vars
<1> QED
  BY <1>1, <1>2, <1>3 DEF Next, Move

LEMMA HaltStep ==
  ASSUME TypeOK, HaltInv, [Next]_vars
  PROVE  HaltInv'
<1>1. IsFiniteSet(Workers) /\ Cardinality(Workers) \in Nat /\ haltSends \in Nat
  BY ConstantsAssumption, FS_CardinalityType DEF TypeOK
<1>2. /\ IsFiniteSet(Passed) /\ Cardinality(Passed) \in Nat
      /\ Cardinality(Passed) <= Cardinality(Workers)
  BY <1>1, FS_Subset, FS_CardinalityType DEF Passed
<1>3. ASSUME NEW w \in Workers, Send(w) PROVE HaltInv'
  <2>1. pc[w] = "send" /\ pc'[w] = "record" /\ UNCHANGED halted
    BY <1>3 DEF Send, Goto, TypeOK, flags
  <2>2. \A v \in Workers : v # w => pc'[v] = pc[v]
    BY <1>3 DEF Send, Goto, TypeOK
  <2>3. Passed' = Passed \ {w} /\ w \in Passed
    BY <2>1, <2>2 DEF Passed
  <2>4. Cardinality(Passed') = Cardinality(Passed) - 1 /\ Cardinality(Passed') \in Nat
    BY <1>2, <2>3, FS_RemoveElement, FS_CardinalityType
  <2>5. haltSends' = IF halted THEN haltSends + 1 ELSE haltSends
    BY <1>3 DEF Send
  <2> QED
    BY <1>1, <1>2, <2>1, <2>4, <2>5 DEF HaltInv, HaltLagBounded
<1>4. CASE Halt
  <2>1. haltSends' = 0 /\ Passed' = Passed
    BY <1>4 DEF Halt, Passed, workers
  <2> QED
    BY <1>1, <1>2, <2>1 DEF HaltInv, HaltLagBounded
<1>5. CASE Resume
  BY <1>5 DEF Resume, HaltInv, HaltLagBounded, world
<1>6. CASE UNCHANGED <<halted, haltSends>> /\ ~(\E w \in Workers : Send(w))
  <2>1. ASSUME halted PROVE Passed' \subseteq Passed
    <3>1. ASSUME NEW w \in Workers, Move(w) PROVE Passed' \subseteq Passed
      <4>1. \A v \in Workers : v # w => pc'[v] = pc[v]
        BY <3>1, OthersKept
      <4>2. pc'[w] \in Unsent => pc[w] \in Unsent
        BY <2>1, <3>1, NobodyJoins
      <4> QED
        BY <4>1, <4>2 DEF Passed, Unsent
    <3>2. CASE Outside
      BY <3>2, OutsideKept DEF Passed, workers
    <3>3. CASE UNCHANGED vars
      BY <3>3 DEF Passed, vars
    <3> QED
      BY <3>1, <3>2, <3>3 DEF Next, Move
  <2>2. ASSUME halted PROVE Cardinality(Passed') <= Cardinality(Passed) /\ Cardinality(Passed') \in Nat
    BY <1>2, <2>1, <2>2, FS_Subset, FS_CardinalityType
  <2> QED
    BY <1>1, <1>2, <1>6, <2>2 DEF HaltInv, HaltLagBounded
<1> QED
  BY <1>3, <1>4, <1>5, <1>6, HaltSendsOfStep

\* A halt overtakes at most one message per worker (Gatekeeper.claim's gate 1 runs first),
\* for any number of workers and touches.
THEOREM HaltLagIsBounded == Spec => []HaltLagBounded
<1>1. Init => HaltInv
  <2>1. Cardinality(Workers) \in Nat
    BY ConstantsAssumption, FS_CardinalityType
  <2> QED
    BY <2>1 DEF Init, HaltInv, HaltLagBounded
<1>2. TypeOK /\ HaltInv /\ [Next]_vars => HaltInv'
  BY HaltStep
<1>3. HaltInv => HaltLagBounded
  BY DEF HaltInv
<1> QED
  BY <1>1, <1>2, <1>3, TypeCorrect, PTL DEF Spec

----------------------------------------------------------------------------
\* The touches whose dispatches each counter counts.
VolumeTouches == {t \in Touches : Volume(t)}
VolumeOfCohort(c) == {t \in Touches : Volume(t) /\ Cohort(t) = c}
VolumeOfEntity(e) == {t \in Touches : Volume(t) /\ Entity(t) = e}

\* The sequence that holds an entity was opened or continued by a touch that went out to it.
HolderOK ==
    \A e \in Entities : active[e] # None => Entity(active[e]) = e /\ records[active[e]] = 1

\* The counters of the database agree with the dispatches that were committed.
ContactsOK == \A e \in Entities : contacts[e] = SumFunctionOnSet(records, VolumeOfEntity(e))

ContactsCapped == \A e \in Entities : contacts[e] <= AnnualCap

TenantOK == tenantUsed = SumFunctionOnSet(records, VolumeTouches)

CohortsOK == \A c \in Cohorts : cohortUsed[c] = SumFunctionOnSet(records, VolumeOfCohort(c))

BoxesOK == SumFunctionOnSet(boxUsed, Mailboxes) = SumFunctionOnSet(records, Touches) + leaked

CountersOK == ContactsOK /\ TenantOK /\ CohortsOK /\ BoxesOK

\* The committed dispatches among some touches, a natural number.
LEMMA DispatchesType ==
  ASSUME TypeOK, NEW S \in SUBSET Touches
  PROVE  /\ IsFiniteSet(S) /\ \A t \in S : records[t] \in Nat
         /\ SumFunctionOnSet(records, S) \in Nat
<1>1. IsFiniteSet(S)
  BY ConstantsAssumption, FS_Subset
<1>2. \A t \in S : records[t] \in Nat
  BY DEF TypeOK
<1> QED
  BY <1>1, <1>2, SumType

\* A committed dispatch adds one to every sum that its touch is part of.
LEMMA OneDispatchMore ==
  ASSUME TypeOK, NEW t \in Touches, records' = [records EXCEPT ![t] = @ + 1],
         NEW S \in SUBSET Touches
  PROVE  SumFunctionOnSet(records', S) = SumFunctionOnSet(records, S) + (IF t \in S THEN 1 ELSE 0)
<1>1. \A y \in S : records'[y] = IF y = t THEN records[y] + 1 ELSE records[y]
  BY DEF TypeOK
<1>2. /\ IsFiniteSet(S) /\ \A y \in S : records[y] \in Nat
      /\ SumFunctionOnSet(records, S) \in Nat
  BY DispatchesType
<1>3. CASE t \in S
  BY <1>1, <1>2, <1>3, SumIncremented
<1>4. CASE t \notin S
  <2>1. \A y \in S : records'[y] = records[y]
    BY <1>1, <1>4
  <2>2. SumFunctionOnSet(records', S) = SumFunctionOnSet(records, S)
    BY <1>2, <2>1, SumSame
  <2> QED
    BY <1>2, <1>4, <2>2
<1> QED
  BY <1>3, <1>4

\* A mailbox slot that is used adds one to what all mailboxes have used.
LEMMA OneSlotMore ==
  ASSUME TypeOK, NEW m \in Mailboxes, boxUsed' = [boxUsed EXCEPT ![m] = @ + 1]
  PROVE  SumFunctionOnSet(boxUsed', Mailboxes) = SumFunctionOnSet(boxUsed, Mailboxes) + 1
<1>1. \A n \in Mailboxes : boxUsed'[n] = IF n = m THEN boxUsed[n] + 1 ELSE boxUsed[n]
  BY DEF TypeOK
<1>2. IsFiniteSet(Mailboxes) /\ \A n \in Mailboxes : boxUsed[n] \in Nat
  BY ConstantsAssumption DEF TypeOK
<1> QED
  BY <1>1, <1>2, SumIncremented

\* Only a release leaks a slot; a step that is neither a release nor a dispatch changes
\* neither the counters nor what they count.
LEMMA CountsOfMover ==
  ASSUME TypeOK, WorkersOK, NEW w \in Workers, Move(w), ~RecordDispatch(w), ~Release(w)
  PROVE  UNCHANGED <<active, contacts, tenantUsed, cohortUsed, boxUsed, records, leaked>>
<1> USE DEF tables, world
<1>1. ASSUME NEW outcome, Leave(w, outcome)
      PROVE  UNCHANGED <<active, contacts, tenantUsed, cohortUsed, boxUsed, records, leaked>>
  BY <1>1 DEF Leave
<1>2. ASSUME \/ ReadStatus(w) \/ LoadGateDraft(w) \/ GateHalt(w) \/ GateScreen(w)
             \/ GateConfidence(w)
      PROVE  UNCHANGED <<active, contacts, tenantUsed, cohortUsed, boxUsed, records, leaked>>
  BY <1>1, <1>2 DEF ReadStatus, LoadGateDraft, GateHalt, GateScreen, GateConfidence, Continue
<1>3. ASSUME \/ GateFrequency(w) \/ GateEntity(w) \/ GateBudget(w) \/ GateMailbox(w)
             \/ PersistClaim(w) \/ Send(w)
      PROVE  UNCHANGED <<active, contacts, tenantUsed, cohortUsed, boxUsed, records, leaked>>
  BY <1>1, <1>3 DEF GateFrequency, GateEntity, GateBudget, GateMailbox, PersistClaim, Send
<1>4. ASSUME Settle(w) \/ Crash(w) \/ TxnError(w) \/ \E t \in Touches : Lease(w, t)
      PROVE  UNCHANGED <<active, contacts, tenantUsed, cohortUsed, boxUsed, records, leaked>>
  BY <1>4 DEF Settle, Crash, TxnError, Lease
<1> QED
  BY <1>2, <1>3, <1>4 DEF Move, WorkerStep, Deliver

\* A dispatch counts its touch once in every counter that covers it.
LEMMA DispatchCounted ==
  ASSUME TypeOK, WorkersOK, CountersOK, NEW w \in Workers, RecordDispatch(w)
  PROVE  CountersOK'
<1> DEFINE t == cur[w]
<1>1. t \in Touches /\ box[w] \in Mailboxes
  BY HeldTouch DEF RecordDispatch, WorkersOK, TypeOK
<1>2. /\ records' = [records EXCEPT ![t] = @ + 1]
      /\ boxUsed' = [boxUsed EXCEPT ![box[w]] = @ + 1]
      /\ UNCHANGED leaked
  BY DEF RecordDispatch
<1>3. \A S \in SUBSET Touches :
         SumFunctionOnSet(records', S) = SumFunctionOnSet(records, S) + (IF t \in S THEN 1 ELSE 0)
  BY <1>1, <1>2, OneDispatchMore
<1>4. \A S \in SUBSET Touches : SumFunctionOnSet(records, S) \in Nat
  BY DispatchesType
<1>5. /\ \A e \in Entities :
            contacts'[e] = contacts[e] + (IF Volume(t) /\ Entity(t) = e THEN 1 ELSE 0)
      /\ tenantUsed' = tenantUsed + (IF Volume(t) THEN 1 ELSE 0)
      /\ \A c \in Cohorts :
            cohortUsed'[c] = cohortUsed[c] + (IF Volume(t) /\ Cohort(t) = c THEN 1 ELSE 0)
  <2>1. CASE Volume(t)
    BY <2>1 DEF RecordDispatch, TypeOK
  <2>2. CASE ~Volume(t)
    BY <2>2 DEF RecordDispatch, TypeOK
  <2> QED
    BY <2>1, <2>2
<1>6. ContactsOK'
  <2> SUFFICES ASSUME NEW e \in Entities
               PROVE  contacts'[e] = SumFunctionOnSet(records', VolumeOfEntity(e))
    BY DEF ContactsOK, VolumeOfEntity, Volume, Entity
  <2>1. /\ VolumeOfEntity(e) \in SUBSET Touches
        /\ t \in VolumeOfEntity(e) <=> Volume(t) /\ Entity(t) = e
    BY <1>1 DEF VolumeOfEntity
  <2>2. contacts[e] = SumFunctionOnSet(records, VolumeOfEntity(e))
    BY DEF CountersOK, ContactsOK
  <2> QED
    BY <1>3, <1>5, <2>1, <2>2
<1>7. TenantOK'
  <2>1. VolumeTouches \in SUBSET Touches /\ (t \in VolumeTouches <=> Volume(t))
    BY <1>1 DEF VolumeTouches
  <2>2. tenantUsed' = SumFunctionOnSet(records', VolumeTouches)
    BY <1>3, <1>5, <2>1 DEF CountersOK, TenantOK
  <2> QED
    BY <2>2 DEF TenantOK, VolumeTouches, Volume
<1>8. CohortsOK'
  <2> SUFFICES ASSUME NEW c \in Cohorts
               PROVE  cohortUsed'[c] = SumFunctionOnSet(records', VolumeOfCohort(c))
    BY DEF CohortsOK, VolumeOfCohort, Volume, Cohort
  <2>1. /\ VolumeOfCohort(c) \in SUBSET Touches
        /\ t \in VolumeOfCohort(c) <=> Volume(t) /\ Cohort(t) = c
    BY <1>1 DEF VolumeOfCohort
  <2>2. cohortUsed[c] = SumFunctionOnSet(records, VolumeOfCohort(c))
    BY DEF CountersOK, CohortsOK
  <2> QED
    BY <1>3, <1>5, <2>1, <2>2
<1>9. BoxesOK'
  <2>1. SumFunctionOnSet(boxUsed', Mailboxes) = SumFunctionOnSet(boxUsed, Mailboxes) + 1
    BY <1>1, <1>2, OneSlotMore
  <2>2. Touches \in SUBSET Touches
    OBVIOUS
  <2>3. SumFunctionOnSet(records', Touches) = SumFunctionOnSet(records, Touches) + 1
    BY <1>1, <1>3, <2>2
  <2>4. SumFunctionOnSet(records, Touches) \in Nat /\ leaked \in Nat
    BY <1>4, <2>2 DEF TypeOK
  <2> QED
    BY <1>2, <2>1, <2>3, <2>4 DEF CountersOK, BoxesOK
<1> QED
  BY <1>6, <1>7, <1>8, <1>9 DEF CountersOK

\* A release counts at most a mailbox slot, which has leaked.
LEMMA ReleaseCounted ==
  ASSUME TypeOK, WorkersOK, CountersOK, NEW w \in Workers, Release(w)
  PROVE  CountersOK'
<1>1. UNCHANGED <<contacts, tenantUsed, cohortUsed, records>>
  BY DEF Release
<1>2. ContactsOK' /\ TenantOK' /\ CohortsOK'
  BY <1>1 DEF CountersOK, ContactsOK, TenantOK, CohortsOK, VolumeOfEntity, VolumeTouches,
              VolumeOfCohort, Volume, Entity, Cohort
<1>3. SumFunctionOnSet(records, Touches) \in Nat /\ leaked \in Nat
  <2>1. Touches \in SUBSET Touches
    OBVIOUS
  <2> QED
    BY <2>1, DispatchesType DEF TypeOK
<1>4. CASE box[w] = None
  BY <1>1, <1>2, <1>4 DEF Release, CountersOK, BoxesOK
<1>5. CASE box[w] # None
  <2>1. /\ box[w] \in Mailboxes /\ leaked' = leaked + 1
        /\ boxUsed' = [boxUsed EXCEPT ![box[w]] = @ + 1]
    BY <1>5 DEF Release, TypeOK
  <2>2. SumFunctionOnSet(boxUsed', Mailboxes) = SumFunctionOnSet(boxUsed, Mailboxes) + 1
    BY <2>1, OneSlotMore
  <2> QED
    BY <1>1, <1>2, <1>3, <2>1, <2>2 DEF CountersOK, BoxesOK
<1> QED
  BY <1>4, <1>5

\* Every step keeps the counters in agreement with what they count.
LEMMA CountersStep ==
  ASSUME TypeOK, WorkersOK, CountersOK, [Next]_vars
  PROVE  CountersOK'
<1>1. CASE UNCHANGED <<contacts, tenantUsed, cohortUsed, boxUsed, records, leaked>>
  BY <1>1 DEF CountersOK, ContactsOK, TenantOK, CohortsOK, BoxesOK, VolumeOfEntity,
              VolumeTouches, VolumeOfCohort, Volume, Entity, Cohort
<1>2. ASSUME NEW w \in Workers, Move(w) PROVE CountersOK'
  BY <1>1, <1>2, CountsOfMover, DispatchCounted, ReleaseCounted
<1> QED
  BY <1>1, <1>2, OutsideKept DEF Next, Move, vars

\* The counters agree with what they count when nothing has been sent.
LEMMA CountersInit ==
  ASSUME Init
  PROVE  CountersOK
<1>1. \A S \in SUBSET Touches : SumFunctionOnSet(records, S) = 0
  <2>1. ASSUME NEW S \in SUBSET Touches PROVE SumFunctionOnSet(records, S) = 0
    <3>1. IsFiniteSet(S) /\ \A t \in S : records[t] = 0
      BY ConstantsAssumption, FS_Subset DEF Init
    <3> QED
      BY <3>1, SumZero
  <2> QED
    BY <2>1
<1>2. SumFunctionOnSet(boxUsed, Mailboxes) = 0
  <2>1. IsFiniteSet(Mailboxes) /\ \A m \in Mailboxes : boxUsed[m] = 0
    BY ConstantsAssumption DEF Init
  <2> QED
    BY <2>1, SumZero
<1>3. /\ \A e \in Entities : VolumeOfEntity(e) \in SUBSET Touches
      /\ \A c \in Cohorts : VolumeOfCohort(c) \in SUBSET Touches
      /\ VolumeTouches \in SUBSET Touches /\ Touches \in SUBSET Touches
  BY DEF VolumeOfEntity, VolumeOfCohort, VolumeTouches
<1> QED
  BY <1>1, <1>2, <1>3 DEF Init, CountersOK, ContactsOK, TenantOK, CohortsOK, BoxesOK

\* Budget used is exactly the volume sends recorded, and mailbox slots exactly the sends
\* recorded and the slots leaked (store_pg.release_budget), for any touches, workers,
\* cohorts, mailboxes and caps.
THEOREM BudgetIsConserved == Spec => []BudgetConserved
<1>1. Init => CountersOK
  BY CountersInit
<1>2. TypeOK /\ WorkersOK /\ CountersOK /\ [Next]_vars => CountersOK'
  BY CountersStep
<1>3. CountersOK => BudgetConserved
  BY DEF CountersOK, TenantOK, CohortsOK, BoxesOK, BudgetConserved, VolumeTouches, VolumeOfCohort
<1> QED
  BY <1>1, <1>2, <1>3, TypeCorrect, PTL DEF Spec

----------------------------------------------------------------------------
\* The sequence that holds an entity changes hands at a dispatch of one of the entity's
\* touches and is otherwise only given up.
LEMMA HolderStep ==
  ASSUME TypeOK, WorkersOK, TouchHeld, DispatchedOnce, HolderOK, [Next]_vars
  PROVE  HolderOK'
<1> USE ConstantsAssumption
<1>1. ASSUME NEW w \in Workers, Move(w) PROVE HolderOK'
  <2>1. CASE RecordDispatch(w)
    <3> DEFINE t == cur[w]
    <3>1. t \in Touches /\ touch[t] = "drafted"
      BY <2>1, HeldTouch DEF RecordDispatch, TouchHeld
    <3>2. records[t] = 0 /\ records' = [records EXCEPT ![t] = @ + 1]
      BY <2>1, <3>1 DEF RecordDispatch, DispatchedOnce
    <3>3. records'[t] = 1 /\ \A u \in Touches : records[u] = 1 => records'[u] = 1
      BY <3>1, <3>2 DEF TypeOK
    <3>4. \A e \in Entities :
             \/ active'[e] = active[e]
             \/ active'[e] = None
             \/ active'[e] = t /\ Entity(t) = e
      BY <2>1, <3>1 DEF RecordDispatch, TypeOK
    <3>5. \A e \in Entities : active[e] # None => active[e] \in Touches
      BY DEF TypeOK
    <3> QED
      BY <3>3, <3>4, <3>5 DEF HolderOK, Entity
  <2>2. CASE UNCHANGED <<active, records>>
    BY <2>2 DEF HolderOK, Entity
  <2>3. CASE Release(w)
    BY <2>3 DEF Release, HolderOK, Entity
  <2> QED
    BY <1>1, <2>1, <2>2, <2>3, CountsOfMover
<1>2. CASE Outside
  <2>1. UNCHANGED records
    BY <1>2, OutsideKept
  <2>2. ASSUME NEW p \in Prospects, ReleaseSequence(p) PROVE HolderOK'
    BY <2>1, <2>2 DEF ReleaseSequence, HolderOK, Entity, TypeOK
  <2>3. CASE UNCHANGED active
    BY <2>1, <2>3 DEF HolderOK, Entity
  <2> QED
    BY <1>2, <2>2, <2>3
    DEF Outside, QueueDraft, Reap, IngestReply, GapElapses, Suppress, Forget, Halt, Resume, tables
<1>3. CASE UNCHANGED vars
  BY <1>3 DEF HolderOK, Entity, vars
<1> QED
  BY <1>1, <1>2, <1>3 DEF Next, Move

\* The annual cap: the count gate 4 found below it is the count the dispatch raises.
LEMMA ContactsStep ==
  ASSUME TypeOK, WorkersOK, EntityHeld, ContactsCapped, [Next]_vars
  PROVE  ContactsCapped'
<1>1. CASE UNCHANGED contacts
  BY <1>1 DEF ContactsCapped
<1>2. ASSUME NEW w \in Workers, RecordDispatch(w), Volume(cur[w]) PROVE ContactsCapped'
  <2>1. contacts[Entity(cur[w])] < AnnualCap
    BY <1>2 DEF RecordDispatch, EntityHeld, Governed, Funded, Verdict
  <2>2. contacts' = [contacts EXCEPT ![Entity(cur[w])] = @ + 1]
    BY <1>2 DEF RecordDispatch
  <2> QED
    BY <2>1, <2>2, CapsAssumption DEF ContactsCapped, TypeOK
<1> QED
  BY <1>1, <1>2, WritesOfMover, OutsideKept DEF Next, Move, vars

\* I-7: an entity's sequence is held by a touch that went out to it, its contacts count
\* exactly its dispatches and never pass the annual cap (store_pg.frequency_ok,
\* record_dispatch), for any touches, workers, entities and caps.
THEOREM EntityIsGoverned == Spec => []EntityGoverned
<1> DEFINE Inv == /\ TouchHeld /\ DispatchedOnce /\ HolderOK /\ CountersOK
                  /\ EntityHeld /\ ContactsCapped
<1>1. Init => Inv
  <2> SUFFICES ASSUME Init PROVE Inv
    OBVIOUS
  <2>1. TouchHeld /\ DispatchedOnce
    BY DEF Init, TouchHeld, DispatchedOnce
  <2>2. HolderOK /\ EntityHeld
    BY DEF Init, HolderOK, EntityHeld, Governed, Funded
  <2>3. ContactsCapped
    BY CapsAssumption DEF Init, ContactsCapped
  <2> QED
    BY <2>1, <2>2, <2>3, CountersInit
<1>2. TypeOK /\ WorkersOK /\ Inv /\ [Next]_vars => Inv'
  BY TouchStep, DispatchedStep, HolderStep, CountersStep, EntityStep, ContactsStep
<1>3. Inv => EntityGoverned
  BY DEF HolderOK, CountersOK, ContactsOK, ContactsCapped, VolumeOfEntity, EntityGoverned
<1> QED
  BY <1>1, <1>2, <1>3, TypeCorrect, PTL DEF Spec
====
