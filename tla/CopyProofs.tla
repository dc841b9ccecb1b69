---- MODULE CopyProofs ----
(***************************************************************************)
(* Proofs about the statistics and the texts for any variants, prospects,  *)
(* replies, workers, limits and bounds: what a guardrail lets pass, that   *)
(* the pipeline moves the statistics by observations alone, that no task   *)
(* is dropped, and that the review ramp counts exactly.                    *)
(***************************************************************************)
EXTENDS Copy, FiniteSetTheorems, TLAPS

----------------------------------------------------------------------------
\* The statistics by themselves.

\* A variant judged when it had enough trials was within its limits then, and marks
\* come with a judgement.
JudgedOK ==
    \A v \in Variants :
        /\ judged[v] <= trials[v]
        /\ v \notin paused /\ judged[v] >= MinTrials => Breaches(marks[v], trials[v]) = {}

LearningInv == LearningTypeOK /\ JudgedOK

LEMMA LearningInitially == ASSUME LearningInit PROVE LearningInv
  BY LearningAssumption DEF LearningInit, LearningInv, LearningTypeOK, JudgedOK

\* One more trial keeps a variant that is within its limits within them.
LEMMA TrialStep ==
  ASSUME LearningInv, NEW v \in Variants, RecordTrial(v)
  PROVE  LearningInv'
<1> USE LearningAssumption
<1>1. LearningTypeOK'
  BY DEF LearningInv, LearningTypeOK, RecordTrial
<1>2. ASSUME NEW u \in Variants PROVE judged'[u] <= trials'[u]
  BY DEF LearningInv, LearningTypeOK, JudgedOK, RecordTrial
<1>3. ASSUME NEW u \in Variants, u \notin paused', judged'[u] >= MinTrials,
             NEW k \in Breaches(marks'[u], trials'[u])
      PROVE  FALSE
  <2>1. k \in Kinds /\ trials'[u] >= MinTrials /\ marks'[u][k] * Per[k] > trials'[u]
    BY <1>3 DEF Breaches
  <2>2. marks'[u] = marks[u] /\ judged'[u] = judged[u] /\ paused' = paused
    BY DEF RecordTrial
  <2>3. trials[u] >= MinTrials
    BY <1>3, <2>2 DEF LearningInv, LearningTypeOK, JudgedOK
  <2>4. trials'[u] >= trials[u] /\ trials[u] \in Nat /\ trials'[u] \in Nat
    BY DEF LearningInv, LearningTypeOK, RecordTrial
  <2>5. marks[u][k] \in Nat /\ Per[k] \in Nat
    BY <2>1 DEF LearningInv, LearningTypeOK
  <2>6. marks[u][k] * Per[k] \in Nat
    BY <2>5
  <2>7. marks[u][k] * Per[k] > trials[u]
    BY <2>1, <2>2, <2>4, <2>6
  <2>8. Breaches(marks[u], trials[u]) # {}
    BY <2>1, <2>3, <2>7 DEF Breaches
  <2> QED
    BY <1>3, <2>2, <2>8 DEF LearningInv, JudgedOK
<1> QED
  BY <1>1, <1>2, <1>3 DEF LearningInv, JudgedOK, Breaches

\* A mark is judged on the counts it is part of.
LEMMA MarkStep ==
  ASSUME LearningInv, NEW v \in Variants, NEW k \in Kinds, RecordGuardrail(v, k)
  PROVE  LearningInv'
<1> USE LearningAssumption
<1>1. Marked(v, k) \in [Kinds -> Nat]
  BY DEF Marked, LearningInv, LearningTypeOK
<1>2. LearningTypeOK'
  BY <1>1 DEF LearningInv, LearningTypeOK, RecordGuardrail, PausedBy
<1>3. ASSUME NEW u \in Variants
      PROVE  /\ judged'[u] <= trials'[u]
             /\ u \notin paused' /\ judged'[u] >= MinTrials => Breaches(marks'[u], trials'[u]) = {}
  <2>1. CASE u = v
    <3>1. judged'[u] = trials[u] /\ trials'[u] = trials[u] /\ marks'[u] = Marked(v, k)
      BY <2>1 DEF LearningInv, LearningTypeOK, RecordGuardrail
    <3> QED
      BY <2>1, <3>1 DEF LearningInv, LearningTypeOK, RecordGuardrail, PausedBy
  <2>2. CASE u # v
    <3>1. judged'[u] = judged[u] /\ trials'[u] = trials[u] /\ marks'[u] = marks[u]
      BY <2>2 DEF LearningInv, LearningTypeOK, RecordGuardrail
    <3>2. u \notin paused' => u \notin paused
      BY DEF RecordGuardrail, PausedBy
    <3> QED
      BY <3>1, <3>2 DEF LearningInv, JudgedOK
  <2> QED
    BY <2>1, <2>2
<1> QED
  BY <1>2, <1>3 DEF LearningInv, JudgedOK

LEMMA LearningStep == ASSUME LearningInv, [LearningNext]_learning PROVE LearningInv'
<1>1. CASE UNCHANGED learning
  BY <1>1 DEF learning, LearningInv, LearningTypeOK, JudgedOK, Breaches
<1>2. ASSUME NEW v \in Variants, RecordSuccess(v) PROVE LearningInv'
  BY <1>2 DEF RecordSuccess, LearningInv, LearningTypeOK, JudgedOK, Breaches
<1> QED
  BY <1>1, <1>2, TrialStep, MarkStep DEF LearningNext

\* A variant that no guardrail may reach has a judgement within the limits.
LEMMA BreachesAreYoung == ASSUME LearningInv PROVE UnpausedBreachIsYoung
  BY LearningAssumption DEF LearningInv, LearningTypeOK, JudgedOK, UnpausedBreachIsYoung

\* The guardrails by themselves: whatever observations come in whatever order, no bounce,
\* complaint or opt-out of a variant with enough trials is let pass (record_guardrail).
THEOREM GuardrailsHold == LearningSpec => []UnpausedBreachIsYoung
<1>1. LearningSpec => []LearningInv
  BY LearningInitially, LearningStep, PTL DEF LearningSpec
<1> QED
  BY <1>1, BreachesAreYoung, PTL

----------------------------------------------------------------------------
\* The state of the jobs and the mail.

Shape ==
    /\ LearningTypeOK
    /\ job \in [Subjects -> {"none", "ready", "running", "done", "dead"}]
    /\ working \in [Workers -> Tasks]
    /\ lock \in [Variants -> Workers \cup {None}]
    /\ touch \in [Prospects -> {"none", "held", "drafted", "sending", "dispatched", "released"}]
    /\ variant \in [Prospects -> Variants \cup {None}]
    /\ left \subseteq Prospects

\* Only a prospect's task is audited and counted for the ramp, and it has a variant.
TaskOK(t) ==
    /\ t.subject = None <=> t.step = "idle"
    /\ t.subject \in Prospects => t.variant \in Variants
    /\ t.subject \in Replies => OfReply[t.subject] \in left
    /\ t.step \in {"audit", "insert"} => t.subject \in Prospects

\* The messages written, and the people they went to, have a variant, and whoever
\* answers was written to.
Bindings ==
    /\ \A p \in Prospects : touch[p] # "none" \/ p \in left => variant[p] \in Variants
    /\ \A r \in Replies : job[r] # "none" => OfReply[r] \in left
    /\ \A w \in Workers : TaskOK(working[w])

WorkInv == Shape /\ Bindings

LEMMA IdleTask == NoTask \in Tasks /\ TaskOK(NoTask)
  BY CopyAssumption DEF NoTask, Tasks, TaskOK, Subjects

LEMMA WorkInitially == ASSUME Init PROVE WorkInv
  BY LearningAssumption, CopyAssumption, IdleTask
  DEF Init, LearningInit, WorkInv, Shape, LearningTypeOK, Bindings, Subjects

\* A step that leaves the mail and the statistics alone and gives one worker a task.
LEMMA TaskStep ==
  ASSUME WorkInv, NEW w \in Workers, NEW t \in Tasks, TaskOK(t),
         working' = [working EXCEPT ![w] = t],
         job' \in [Subjects -> {"none", "ready", "running", "done", "dead"}],
         \A r \in Replies : job'[r] # "none" => OfReply[r] \in left,
         LearningTypeOK', touch' = touch, variant' = variant, left' = left,
         lock' \in [Variants -> Workers \cup {None}]
  PROVE  WorkInv'
<1>1. Shape'
  BY DEF WorkInv, Shape
<1>2. \A x \in Workers : TaskOK(working'[x])
  BY DEF WorkInv, Shape, Bindings
<1> QED
  BY <1>1, <1>2 DEF WorkInv, Bindings, TaskOK

\* The task with which a job begins.
LEMMA StartsStep ==
  ASSUME WorkInv, NEW w \in Workers, NEW s \in Subjects, NEW v \in Variants \cup {None},
         Starts(w, s, "write", v), s \in Prospects => v \in Variants,
         UNCHANGED <<learning, mail>>
  PROVE  WorkInv'
<1> DEFINE t == [subject |-> s, step |-> "write", variant |-> v, tries |-> 0, hold |-> FALSE]
<1>1. /\ job' \in [Subjects -> {"none", "ready", "running", "done", "dead"}]
      /\ \A r \in Replies : job'[r] # "none" => OfReply[r] \in left
      /\ s \in Replies => OfReply[s] \in left
  BY DEF Starts, Leases, WorkInv, Shape, Bindings, Subjects
<1>2. t \in Tasks /\ TaskOK(t)
  <2>1. s # None
    BY CopyAssumption
  <2> QED
    BY <1>1, <2>1 DEF Tasks, TaskOK
<1>3. LearningTypeOK'
  BY DEF WorkInv, Shape, LearningTypeOK, learning
<1>4. working' = [working EXCEPT ![w] = t]
  BY DEF Starts
<1> HIDE DEF t
<1> QED
  BY <1>1, <1>2, <1>3, <1>4, TaskStep DEF mail, WorkInv, Shape

\* A worker that ends its transaction gives its locks back.
LEMMA EndsTask ==
  ASSUME WorkInv, NEW w \in Workers, NEW to \in {"ready", "done", "dead"}, Ends(w, to)
  PROVE  /\ job' \in [Subjects -> {"none", "ready", "running", "done", "dead"}]
         /\ \A r \in Replies : job'[r] # "none" => OfReply[r] \in left
         /\ working' = [working EXCEPT ![w] = NoTask]
         /\ lock' \in [Variants -> Workers \cup {None}]
  BY DEF Ends, WorkInv, Shape, Bindings, TaskOK, Subjects

\* What the statistics do in a step of the pipeline.
LEMMA ObservationStep ==
  ASSUME WorkInv, NEW v \in Variants,
         RecordTrial(v) \/ RecordSuccess(v) \/ \E k \in Kinds : RecordGuardrail(v, k)
  PROVE  LearningTypeOK' /\ [LearningNext]_learning
<1>1. LearningTypeOK
  BY DEF WorkInv, Shape
<1>2. \A k \in Kinds : Marked(v, k) \in [Kinds -> Nat]
  BY <1>1 DEF Marked, LearningTypeOK
<1>3. CASE RecordTrial(v) \/ RecordSuccess(v)
  BY <1>1, <1>3 DEF LearningTypeOK, RecordTrial, RecordSuccess, LearningNext
<1>4. ASSUME NEW k \in Kinds, RecordGuardrail(v, k) PROVE LearningTypeOK'
  <2>1. PausedBy(v, k) \subseteq paused \cup {v}
    BY DEF PausedBy
  <2> QED
    BY <1>1, <1>2, <1>4, <2>1 DEF LearningTypeOK, RecordGuardrail
<1> QED
  BY <1>3, <1>4 DEF LearningNext

LEMMA NoObservationStep ==
  ASSUME WorkInv, UNCHANGED learning PROVE LearningTypeOK' /\ [LearningNext]_learning
  BY DEF learning, LearningTypeOK, WorkInv, Shape

WorkStep == WorkInv' /\ [LearningNext]_learning

\* A transaction that ends without having queued a draft.
LEMMA FinishStep ==
  ASSUME WorkInv, NEW w \in Workers, NEW to \in {"ready", "done", "dead"}, Ends(w, to),
         Counted(w) \/ UNCHANGED learning, UNCHANGED <<touch, variant, left>>
  PROVE  WorkStep
<1>1. LearningTypeOK' /\ [LearningNext]_learning
  <2>1. CASE UNCHANGED learning
    BY <2>1, NoObservationStep
  <2>2. CASE Counted(w) /\ ~UNCHANGED learning
    <3>1. working[w].variant \in Variants /\ RecordSuccess(working[w].variant)
      BY <2>2 DEF Counted, WorkInv, Shape, Tasks
    <3> QED
      BY <3>1, ObservationStep
  <2> QED
    BY <2>1, <2>2
<1> QED
  BY <1>1, EndsTask, IdleTask, TaskStep DEF WorkStep

\* A step of a job that no worker takes up as a task.
LEMMA JobStep ==
  ASSUME WorkInv, NEW s \in Subjects, NEW to \in {"none", "ready", "done", "dead"},
         job' = [job EXCEPT ![s] = to],
         s \in Replies /\ to # "none" => OfReply[s] \in left,
         UNCHANGED <<learning, working, mail>>
  PROVE  WorkStep
<1>1. LearningTypeOK' /\ [LearningNext]_learning
  BY NoObservationStep
<1>2. Shape'
  BY <1>1 DEF WorkInv, Shape, mail
<1> QED
  BY <1>1, <1>2 DEF WorkStep, WorkInv, Shape, Bindings, TaskOK, mail

LEMMA BeginningsStep ==
  ASSUME WorkInv, NEW w \in Workers,
         \/ ComposeJob(w) \/ ReplyJob(w) \/ \E b \in Briefs : SynthesisBegins(w, b)
  PROVE  WorkStep
<1> USE DEF WorkStep
<1>1. ASSUME NEW p \in Prospects, ComposeBegins(w, p) PROVE WorkStep
  <2>1. PICK v \in Live(Variants) : Starts(w, p, "write", v)
    BY <1>1 DEF ComposeBegins
  <2>2. v \in Variants /\ p \in Subjects
    BY DEF Live, Subjects
  <2>3. UNCHANGED <<learning, mail>>
    BY <1>1 DEF ComposeBegins
  <2> QED
    BY <2>1, <2>2, <2>3, StartsStep
<1>2. ASSUME NEW p \in Prospects, ComposeRaises(w, p) \/ ComposeReturns(w, p) PROVE WorkStep
  <2>1. p \in Subjects /\ p \notin Replies
    BY CopyAssumption DEF Subjects
  <2> QED
    BY <1>2, <2>1, JobStep DEF ComposeRaises, ComposeReturns, AfterFailure
<1>3. ASSUME NEW r \in Replies, Leases(w, r) PROVE r \in Subjects /\ OfReply[r] \in left
  BY <1>3 DEF Leases, WorkInv, Bindings, Subjects
<1>4. ASSUME NEW r \in Replies, ReplySettles(w, r) PROVE WorkStep
  BY <1>3, <1>4, JobStep DEF ReplySettles
<1>5. ASSUME NEW r \in Replies, ReplyEscalates(w, r) PROVE WorkStep
  <2>1. Leases(w, r) /\ job' = [job EXCEPT ![r] = "done"] /\ UNCHANGED <<working, mail>>
    BY <1>5 DEF ReplyEscalates
  <2>2. OfReply[r] \in left /\ r \in Subjects /\ variant[OfReply[r]] \in Variants
    BY <1>3, <2>1, CopyAssumption DEF WorkInv, Shape, Bindings
  <2>3. LearningTypeOK' /\ [LearningNext]_learning
    BY <1>5, <2>2, ObservationStep, NoObservationStep DEF ReplyEscalates, MayCount
  <2>4. Shape'
    BY <2>1, <2>2, <2>3 DEF WorkInv, Shape, mail
  <2> QED
    BY <2>1, <2>2, <2>3, <2>4 DEF WorkInv, Shape, Bindings, TaskOK, mail
<1>6. ASSUME NEW r \in Replies, ReplyBegins(w, r) PROVE WorkStep
  <2>1. PICK v \in {None, variant[OfReply[r]]} : Starts(w, r, "write", v)
    BY <1>6 DEF ReplyBegins
  <2>2. v \in Variants \cup {None} /\ r \in Subjects /\ r \notin Prospects
    BY CopyAssumption DEF WorkInv, Shape, Subjects
  <2>3. UNCHANGED <<learning, mail>>
    BY <1>6 DEF ReplyBegins
  <2> QED
    BY <2>1, <2>2, <2>3, StartsStep
<1>7. ASSUME NEW b \in Briefs, SynthesisBegins(w, b) PROVE WorkStep
  <2>1. Starts(w, b, "write", None) /\ UNCHANGED <<learning, mail>>
    BY <1>7 DEF SynthesisBegins
  <2>2. b \in Subjects /\ b \notin Prospects
    BY CopyAssumption DEF Subjects
  <2> QED
    BY <2>1, <2>2, StartsStep
<1> QED
  BY <1>1, <1>2, <1>4, <1>5, <1>6, <1>7 DEF ComposeJob, ReplyJob

LEMMA WritingStep == ASSUME WorkInv, NEW w \in Workers, Writing(w) PROVE WorkStep
<1> USE DEF AtStep, Subject
<1>1. working[w] \in Tasks /\ TaskOK(working[w])
  BY DEF WorkInv, Shape, Bindings
<1>2. ASSUME NEW t \in Tasks, TaskOK(t), working' = [working EXCEPT ![w] = t],
             UNCHANGED <<learning, job, touch, variant, left>>,
             lock' \in [Variants -> Workers \cup {None}]
      PROVE  WorkStep
  <2>1. LearningTypeOK' /\ [LearningNext]_learning
    BY <1>2, NoObservationStep
  <2>2. /\ job' \in [Subjects -> {"none", "ready", "running", "done", "dead"}]
        /\ \A r \in Replies : job'[r] # "none" => OfReply[r] \in left
    BY <1>2 DEF WorkInv, Shape, Bindings
  <2> QED
    BY <1>2, <2>1, <2>2, TaskStep DEF WorkStep
<1>3. CASE Rewrites(w)
  <2> DEFINE t == [working[w] EXCEPT !.tries = @ + 1]
  <2>1. t \in Tasks /\ TaskOK(t)
    BY <1>1 DEF Tasks, TaskOK
  <2>2. working' = [working EXCEPT ![w] = t] /\ lock' = lock
    BY <1>3 DEF Rewrites, mail
  <2> HIDE DEF t
  <2> QED
    BY <1>2, <1>3, <2>1, <2>2 DEF Rewrites, mail, WorkInv, Shape
<1>4. CASE HandsOver(w)
  BY <1>4, FinishStep DEF HandsOver
<1>5. CASE ComposeAccepted(w)
  <2> DEFINE t == [working[w] EXCEPT !.step = "audit"]
  <2>1. t \in Tasks /\ TaskOK(t)
    BY <1>1, <1>5, CopyAssumption DEF Tasks, TaskOK, ComposeAccepted, Subjects
  <2>2. working' = [working EXCEPT ![w] = t] /\ lock' = lock
    BY <1>5 DEF ComposeAccepted, mail
  <2> HIDE DEF t
  <2> QED
    BY <1>2, <1>5, <2>1, <2>2 DEF ComposeAccepted, mail, WorkInv, Shape
<1>6. CASE Answered(w) \/ Filed(w)
  BY <1>6, FinishStep DEF Answered, Filed
<1>7. CASE CountsRamp(w)
  <2> DEFINE H(v) == Cardinality(Drafts(v)) < ApproveFirst
             t(v) == [working[w] EXCEPT !.step = "insert", !.hold = H(v)]
  <2>1. PICK v \in Variants : /\ lock' = [lock EXCEPT ![v] = w]
                              /\ working' = [working EXCEPT ![w] = t(v)]
    BY <1>7 DEF CountsRamp
  <2>2. H(v) \in BOOLEAN
    OBVIOUS
  <2> HIDE DEF H
  <2>3. t(v) \in Tasks /\ TaskOK(t(v))
    BY <1>1, <1>7, <2>2, CopyAssumption DEF Tasks, TaskOK, CountsRamp, Subjects
  <2> HIDE DEF t
  <2>4. lock' \in [Variants -> Workers \cup {None}]
    BY <2>1 DEF WorkInv, Shape
  <2> QED
    BY <1>2, <1>7, <2>1, <2>3, <2>4 DEF CountsRamp
<1>8. CASE QueuesDraft(w)
  <2>1. /\ Ends(w, "done") /\ UNCHANGED <<learning, left>>
        /\ touch' = [touch EXCEPT ![working[w].subject] =
                        IF working[w].hold THEN "held" ELSE "drafted"]
        /\ variant' = [variant EXCEPT ![working[w].subject] = working[w].variant]
    BY <1>8 DEF QueuesDraft
  <2>2. working[w].subject \in Prospects /\ working[w].variant \in Variants
    BY <1>1, <1>8 DEF TaskOK, QueuesDraft
  <2>3. LearningTypeOK' /\ [LearningNext]_learning
    BY <2>1, NoObservationStep
  <2>4. Shape'
    BY <2>1, <2>2, <2>3, EndsTask, IdleTask DEF WorkInv, Shape
  <2>5. \A p \in Prospects : touch'[p] # "none" \/ p \in left' => variant'[p] \in Variants
    BY <2>1, <2>2 DEF WorkInv, Shape, Bindings
  <2>6. \A r \in Replies : job'[r] # "none" => OfReply[r] \in left'
    BY <2>1, EndsTask
  <2>7. \A x \in Workers : TaskOK(working[x])'
    BY <2>1, EndsTask, IdleTask DEF WorkInv, Shape, Bindings, TaskOK
  <2> QED
    BY <2>3, <2>4, <2>5, <2>6, <2>7 DEF WorkStep, WorkInv, Bindings
<1>9. CASE Raises(w)
  <2>1. AfterFailure(working[w].subject, attempts[working[w].subject])
           \in {"ready", "done", "dead"}
    BY DEF AfterFailure
  <2> QED
    BY <1>9, <2>1, FinishStep DEF Raises
<1> QED
  BY <1>3, <1>4, <1>5, <1>6, <1>7, <1>8, <1>9 DEF Writing, GivesUp, Suspects

LEMMA MailingStep == ASSUME WorkInv, NEW p \in Prospects, Mailing(p) PROVE WorkStep
<1>1. UNCHANGED <<queue, lock, variant>> /\ touch[p] # "none" /\ variant[p] \in Variants
  BY DEF Mailing, Reviewed, Refused, Sent, Dispatched, SendLost, Touched, WorkInv, Bindings
<1>2. LearningTypeOK' /\ [LearningNext]_learning
  BY <1>1, ObservationStep, NoObservationStep
  DEF Mailing, Reviewed, Refused, Sent, Dispatched, SendLost
<1>3. /\ left' \in {left, left \cup {p}}
      /\ \E to \in {"drafted", "sending", "dispatched", "released"} :
            touch' = [touch EXCEPT ![p] = to]
  BY DEF Mailing, Reviewed, Refused, Sent, Dispatched, SendLost, Touched
<1>4. Shape'
  BY <1>1, <1>2, <1>3 DEF WorkInv, Shape, queue
<1> QED
  BY <1>1, <1>2, <1>3, <1>4 DEF WorkStep, WorkInv, Shape, Bindings, TaskOK, queue

LEMMA NextStep == ASSUME WorkInv, [Next]_vars PROVE WorkStep
<1>1. ASSUME UNCHANGED <<queue, mail>>, LearningTypeOK', [LearningNext]_learning PROVE WorkStep
  BY <1>1 DEF WorkStep, WorkInv, Shape, Bindings, TaskOK, queue, mail
<1>2. CASE UNCHANGED vars
  BY <1>1, <1>2, NoObservationStep DEF vars
<1>3. ASSUME NEW b \in Briefs, BriefPosted(b) PROVE WorkStep
  <2>1. b \in Subjects /\ b \notin Replies
    BY CopyAssumption DEF Subjects
  <2>2. /\ job' \in {job, [job EXCEPT ![b] = "ready"]}
        /\ UNCHANGED <<learning, working, mail>>
    BY <1>3 DEF BriefPosted, Enqueue
  <2>3. LearningTypeOK' /\ [LearningNext]_learning
    BY <2>2, NoObservationStep
  <2>4. job \in [Subjects -> {"none", "ready", "running", "done", "dead"}]
    BY DEF WorkInv, Shape
  <2>5. job' \in [Subjects -> {"none", "ready", "running", "done", "dead"}]
    BY <2>1, <2>2, <2>4
  <2>6. \A r \in Replies : job'[r] # "none" => OfReply[r] \in left'
    BY <2>1, <2>2 DEF WorkInv, Shape, Bindings, mail, Subjects
  <2> QED
    BY <2>2, <2>3, <2>5, <2>6 DEF WorkStep, WorkInv, Shape, Bindings, TaskOK, mail
<1>4. ASSUME NEW r \in Replies, ReplyArrives(r) \/ Repeats(r) PROVE WorkStep
  <2>1. r \in Subjects /\ OfReply[r] \in left /\ job' = [job EXCEPT ![r] = "ready"]
    BY <1>4 DEF ReplyArrives, Repeats, Enqueue, WorkInv, Shape, Bindings, Subjects
  <2>2. UNCHANGED <<learning, working, mail>>
    BY <1>4 DEF ReplyArrives, Repeats, Enqueue
  <2> QED
    BY <2>1, <2>2, JobStep
<1>5. ASSUME NEW p \in Prospects, Leaves(p) PROVE WorkStep
  BY <1>5, NoObservationStep
  DEF Leaves, WorkStep, WorkInv, Shape, Bindings, TaskOK, queue
<1>6. ASSUME NEW p \in Prospects, NEW k \in Kinds, Mark(p, k) PROVE WorkStep
  <2>1. variant[p] \in Variants
    BY <1>6 DEF Mark, WorkInv, Bindings
  <2> QED
    BY <1>1, <1>6, <2>1, ObservationStep DEF Mark
<1>7. CASE AuditSentSample \/ \E s \in Subjects : Resolve(s)
  BY <1>1, <1>7, NoObservationStep DEF AuditSentSample, Resolve
<1> QED
  BY <1>2, <1>3, <1>4, <1>5, <1>6, <1>7, BeginningsStep, WritingStep, MailingStep DEF Next

\* The pipeline moves the statistics by observations of its own only, one at a time: the
\* counters that the composer, the sender and the event handlers share keep what is said
\* of them alone.
THEOREM StatisticsImplemented == Spec => LearningSpec
<1>1. Spec => []WorkInv
  BY WorkInitially, NextStep, PTL DEF Spec, WorkStep
<1>2. Init => LearningInit
  BY DEF Init
<1>3. WorkInv /\ [Next]_vars => [LearningNext]_learning
  BY NextStep DEF WorkStep
<1> QED
  BY <1>1, <1>2, <1>3, PTL DEF Spec, LearningSpec

\* No bounce, complaint or opt-out of a variant with enough trials is let pass, whatever
\* composes, sends and answers concurrently (record_guardrail).
THEOREM GuardrailsHoldInPipeline == Spec => []UnpausedBreachIsYoung
  BY StatisticsImplemented, GuardrailsHold, PTL

----------------------------------------------------------------------------
\* What a job leaves behind.

Recorded ==
    /\ outcome \in [Subjects -> SUBSET {"drafted", "answered", "filed", "settled", "escalated"}]
    /\ NothingDropped

\* A job that becomes done has left something.
LEMMA OutcomeStep ==
  ASSUME WorkInv, Recorded, NEW s, NEW to, job' = [job EXCEPT ![s] = to],
         UNCHANGED <<flagged, reported>>, gone \subseteq gone',
         \/ UNCHANGED outcome /\ (to = "done" => s \in gone)
         \/ \E what \in {"drafted", "answered", "filed", "settled", "escalated"} :
               outcome' = [outcome EXCEPT ![s] = @ \cup {what}]
  PROVE  Recorded'
<1>1. job \in [Subjects -> {"none", "ready", "running", "done", "dead"}]
  BY DEF WorkInv, Shape
<1>2. ASSUME NEW x \in Subjects \ gone', job'[x] = "done" PROVE outcome'[x] # {}
  <2>1. CASE x = s
    <3>1. to = "done" /\ s \notin gone
      BY <1>1, <1>2, <2>1
    <3> QED
      BY <3>1, <2>1 DEF Recorded
  <2>2. CASE x # s
    <3>1. job[x] = "done" /\ outcome'[x] = outcome[x]
      BY <1>1, <1>2, <2>2 DEF Recorded
    <3> QED
      BY <3>1, <1>2 DEF Recorded, NothingDropped
  <2> QED
    BY <2>1, <2>2
<1>3. outcome' \in [Subjects -> SUBSET {"drafted", "answered", "filed", "settled", "escalated"}]
  BY DEF Recorded
<1> QED
  BY <1>2, <1>3 DEF Recorded, NothingDropped

\* A message that an audit of less than twenty finds ungrounded is an alert.
LEMMA AlertsStep ==
  ASSUME IsFiniteSet(Prospects), PerCohort < 20, Recorded, AuditSentSample
  PROVE  Recorded'
<1>1. PICK sample \in SUBSET Prospects, bad \in SUBSET Prospects :
        /\ bad \subseteq sample
        /\ Cardinality(sample) <= PerCohort
        /\ flagged' = flagged \cup bad
        /\ reported' = IF Alerts(sample, bad) THEN reported \cup bad ELSE reported
  BY DEF AuditSentSample
<1>2. bad # {} => Alerts(sample, bad)
  <2>1. IsFiniteSet(sample) /\ IsFiniteSet(bad)
    BY FS_Subset
  <2>2. Cardinality(sample) \in Nat /\ Cardinality(bad) \in Nat
    BY <2>1, FS_CardinalityType
  <2>3. bad # {} => Cardinality(bad) # 0
    BY <2>1, FS_EmptySet
  <2> QED
    BY <1>1, <2>2, <2>3, CopyAssumption DEF Alerts
<1>3. flagged' \subseteq reported'
  BY <1>1, <1>2 DEF Recorded, NothingDropped
<1> QED
  BY <1>3 DEF Recorded, NothingDropped, AuditSentSample, queue, mail

LEMMA RecordedStep ==
  ASSUME IsFiniteSet(Prospects), PerCohort < 20, WorkInv, Recorded, [Next]_vars
  PROVE  Recorded'
<1>1. ASSUME UNCHANGED <<job, outcome, flagged, reported>>, gone \subseteq gone' PROVE Recorded'
  BY <1>1 DEF Recorded, NothingDropped
<1>2. CASE UNCHANGED vars
  BY <1>1, <1>2 DEF vars, queue, mail, monitor
<1>3. ASSUME NEW w \in Workers, NEW p \in Prospects,
             ComposeBegins(w, p) \/ ComposeRaises(w, p) \/ ComposeReturns(w, p)
      PROVE  Recorded'
  BY <1>3, OutcomeStep
  DEF ComposeBegins, ComposeRaises, ComposeReturns, Starts, AfterFailure, mail, monitor
<1>4. ASSUME NEW w \in Workers, NEW r \in Replies,
             ReplySettles(w, r) \/ ReplyEscalates(w, r) \/ ReplyBegins(w, r)
      PROVE  Recorded'
  BY <1>4, OutcomeStep DEF ReplySettles, ReplyEscalates, ReplyBegins, Starts, mail, monitor
<1>5. ASSUME NEW w \in Workers, NEW b \in Briefs, SynthesisBegins(w, b) PROVE Recorded'
  BY <1>5, OutcomeStep DEF SynthesisBegins, Starts, mail, monitor
<1>6. ASSUME NEW w \in Workers, Rewrites(w) \/ ComposeAccepted(w) \/ CountsRamp(w)
      PROVE  Recorded'
  BY <1>1, <1>6 DEF Rewrites, ComposeAccepted, CountsRamp, mail, monitor
<1>7. ASSUME NEW w \in Workers,
             HandsOver(w) \/ Answered(w) \/ Filed(w) \/ QueuesDraft(w) \/ Raises(w)
      PROVE  Recorded'
  BY <1>7, OutcomeStep
  DEF HandsOver, Answered, Filed, QueuesDraft, Raises, Ends, AfterFailure, Subject, monitor
<1>8. ASSUME NEW s \in Subjects, Enqueue(s) PROVE Recorded'
  <2>1. CASE job[s] = "none"
    BY <1>8, <2>1, OutcomeStep DEF Enqueue, mail, monitor
  <2>2. CASE job[s] # "none"
    BY <1>1, <1>8, <2>2 DEF Enqueue, mail, monitor
  <2> QED
    BY <2>1, <2>2
<1>9. ASSUME NEW r \in Replies, Repeats(r) PROVE Recorded'
  BY <1>9, OutcomeStep DEF Repeats, mail, monitor
<1>10. ASSUME NEW p \in Prospects, Mailing(p) \/ Leaves(p) \/ \E k \in Kinds : Mark(p, k)
       PROVE  Recorded'
  BY <1>1, <1>10
  DEF Mailing, Reviewed, Refused, Sent, Dispatched, SendLost, Leaves, Mark, queue, mail, monitor
<1>11. ASSUME NEW s \in Subjects, Resolve(s) PROVE Recorded'
  BY <1>1, <1>11 DEF Resolve, queue, mail, monitor
<1>12. Replies \subseteq Subjects /\ Briefs \subseteq Subjects
  BY DEF Subjects
<1> QED
  BY <1>2, <1>3, <1>4, <1>5, <1>6, <1>7, <1>8, <1>9, <1>10, <1>11, <1>12, AlertsStep
  DEF Next, ComposeJob, ReplyJob, Writing, GivesUp, Suspects, ReplyArrives, BriefPosted

\* Nothing is dropped in silence, for any number of workers, prospects, replies and
\* Briefs: every job that ended left its mark or failed five times, and no message that
\* the monitor found ungrounded goes unnamed as long as a sample has less than twenty
\* messages (PER_COHORT_SAMPLE is 5, ALERT_BELOW is 0.95).
THEOREM NothingDroppedHolds ==
  ASSUME IsFiniteSet(Prospects), PerCohort < 20
  PROVE  Spec => []NothingDropped
<1>1. Init => WorkInv /\ Recorded
  BY WorkInitially DEF Init, Recorded, NothingDropped
<1>2. WorkInv /\ Recorded /\ [Next]_vars => (WorkInv /\ Recorded)'
  BY NextStep, RecordedStep DEF WorkStep
<1>3. Recorded => NothingDropped
  BY DEF Recorded
<1> QED
  BY <1>1, <1>2, <1>3, PTL DEF Spec

----------------------------------------------------------------------------
\* The review ramp.

\* A running job has one worker.
Owned ==
    /\ \A w \in Workers : working[w].subject # None => job[working[w].subject] = "running"
    /\ \A w, x \in Workers :
          working[w].subject = working[x].subject /\ working[w].subject # None => w = x

\* A prospect has no draft while its compose job has not ended.
Undrafted ==
    /\ \A p \in Prospects : /\ job[p] # "none"
                            /\ job[p] \in {"ready", "running"} => variant[p] = None
    /\ \A p \in ramped : p \in Prospects /\ variant[p] # None

\* Who is about to insert a draft holds the lock of its variant, and the count it has
\* taken is still right.
Counting ==
    \A w \in Workers : working[w].step = "insert" =>
        /\ lock[working[w].variant] = w
        /\ working[w].hold <=> Cardinality(Drafts(working[w].variant)) < ApproveFirst

RampInv == Owned /\ Undrafted /\ Counting /\ RampExact

\* What a step does to jobs, tasks, locks and drafts.
Begins(w) == \E s \in Subjects : \E v \in Variants \cup {None} :
                /\ Starts(w, s, "write", v) /\ UNCHANGED mail
                /\ s \in Prospects => v \notin paused
Finishes(w) == \E to \in {"ready", "done", "dead"} : Ends(w, to) /\ UNCHANGED <<variant, ramped>>
Skips == \E s \in Subjects : \E to \in {"ready", "done", "dead"} :
            /\ job[s] # "running" /\ (s \in Prospects => job[s] = "ready")
            /\ job' = [job EXCEPT ![s] = to]
            /\ UNCHANGED <<working, lock, variant, ramped>>

LEMMA StepKinds ==
  ASSUME WorkInv, [Next]_vars, \A p \in Prospects : job[p] # "none"
  PROVE  \/ UNCHANGED <<job, working, lock, variant, ramped>>
         \/ Skips
         \/ \E w \in Workers : \/ Begins(w) \/ Finishes(w) \/ Rewrites(w) \/ ComposeAccepted(w)
                               \/ CountsRamp(w) \/ QueuesDraft(w)
<1> DEFINE Goal == \/ UNCHANGED <<job, working, lock, variant, ramped>>
                   \/ Skips
                   \/ \E w \in Workers : \/ Begins(w) \/ Finishes(w) \/ Rewrites(w)
                                         \/ ComposeAccepted(w) \/ CountsRamp(w) \/ QueuesDraft(w)
<1>1. CASE UNCHANGED vars
  BY <1>1 DEF vars, queue, mail
<1>2. ASSUME NEW w \in Workers, ComposeJob(w) PROVE Goal
  <2>1. PICK p \in Prospects : ComposeBegins(w, p) \/ ComposeRaises(w, p) \/ ComposeReturns(w, p)
    BY <1>2 DEF ComposeJob
  <2>2. p \in Subjects
    BY DEF Subjects
  <2>3. CASE ComposeBegins(w, p)
    BY <2>2, <2>3 DEF ComposeBegins, Begins, Live
  <2>4. CASE ComposeRaises(w, p) \/ ComposeReturns(w, p)
    BY <2>2, <2>4 DEF ComposeRaises, ComposeReturns, Leases, AfterFailure, Skips, mail
  <2> QED
    BY <2>1, <2>3, <2>4
<1>3. ASSUME NEW w \in Workers, ReplyJob(w) PROVE Goal
  <2>1. PICK r \in Replies : ReplySettles(w, r) \/ ReplyEscalates(w, r) \/ ReplyBegins(w, r)
    BY <1>3 DEF ReplyJob
  <2>2. r \in Subjects /\ r \notin Prospects /\ variant[OfReply[r]] \in Variants \cup {None}
    BY CopyAssumption DEF Subjects, WorkInv, Shape
  <2>3. CASE ReplyBegins(w, r)
    BY <2>2, <2>3 DEF ReplyBegins, Begins
  <2>4. CASE ReplySettles(w, r) \/ ReplyEscalates(w, r)
    BY <2>2, <2>4 DEF ReplySettles, ReplyEscalates, Leases, Skips, mail
  <2> QED
    BY <2>1, <2>3, <2>4
<1>4. ASSUME NEW w \in Workers, NEW b \in Briefs, SynthesisBegins(w, b) PROVE Goal
  BY <1>4, CopyAssumption DEF SynthesisBegins, Begins, Subjects
<1>5. ASSUME NEW w \in Workers, Writing(w) PROVE Goal
  BY <1>5
  DEF Writing, GivesUp, Suspects, HandsOver, Answered, Filed, Raises, Finishes, AfterFailure
<1>6. ASSUME NEW s \in Subjects, Enqueue(s) PROVE Goal
  BY <1>6 DEF Enqueue, Skips, mail
<1>7. ASSUME NEW r \in Replies, Repeats(r) PROVE Goal
  BY <1>7, CopyAssumption DEF Repeats, Skips, mail, Subjects
<1>8. ASSUME NEW p \in Prospects, Mailing(p) \/ Leaves(p) \/ \E k \in Kinds : Mark(p, k)
      PROVE  Goal
  BY <1>8 DEF Mailing, Reviewed, Refused, Sent, Dispatched, SendLost, Leaves, Mark, queue, mail
<1>9. CASE AuditSentSample \/ \E s \in Subjects : Resolve(s)
  BY <1>9 DEF AuditSentSample, Resolve, queue, mail
<1>10. Replies \subseteq Subjects /\ Briefs \subseteq Subjects
  BY DEF Subjects
<1> QED
  BY <1>1, <1>2, <1>3, <1>4, <1>5, <1>6, <1>7, <1>8, <1>9, <1>10
  DEF Next, ReplyArrives, BriefPosted

\* Nothing changes for the ramp while no draft and no lock does.
LEMMA SameDrafts ==
  ASSUME RampExact, UNCHANGED <<variant, ramped>>
  PROVE  RampExact' /\ \A v \in Variants : Drafts(v)' = Drafts(v)
  BY DEF RampExact, Drafts

LEMMA RampKeeps ==
  ASSUME RampInv, UNCHANGED <<job, working, lock, variant, ramped>>
  PROVE  RampInv'
  BY DEF RampInv, Owned, Undrafted, Counting, RampExact, Drafts

LEMMA RampSkips == ASSUME WorkInv, RampInv, Skips PROVE RampInv'
<1>1. PICK s \in Subjects, to \in {"ready", "done", "dead"} :
        /\ job[s] # "running" /\ (s \in Prospects => job[s] = "ready")
        /\ job' = [job EXCEPT ![s] = to]
        /\ UNCHANGED <<working, lock, variant, ramped>>
  BY DEF Skips
<1>2. Owned' /\ Undrafted'
  BY <1>1 DEF RampInv, Owned, Undrafted, WorkInv, Shape
<1>3. RampExact' /\ Counting'
  BY <1>1 DEF RampInv, Counting, RampExact, Drafts
<1> QED
  BY <1>2, <1>3 DEF RampInv

LEMMA RampBegins == ASSUME WorkInv, RampInv, NEW w \in Workers, Begins(w) PROVE RampInv'
<1>1. PICK s \in Subjects, v \in Variants \cup {None} :
        Starts(w, s, "write", v) /\ UNCHANGED mail
  BY DEF Begins
<1>2. /\ job \in [Subjects -> {"none", "ready", "running", "done", "dead"}]
      /\ working \in [Workers -> Tasks]
  BY DEF WorkInv, Shape
<1>3. /\ working[w] = NoTask /\ job[s] = "ready"
      /\ job' = [job EXCEPT ![s] = "running"]
      /\ working' = [working EXCEPT ![w] =
            [subject |-> s, step |-> "write", variant |-> v, tries |-> 0, hold |-> FALSE]]
  BY <1>1 DEF Starts, Leases
<1>4. UNCHANGED <<lock, variant, ramped>>
  BY <1>1 DEF mail
<1>5. Owned'
  BY <1>2, <1>3 DEF RampInv, Owned
<1>6. Undrafted'
  BY <1>2, <1>3, <1>4 DEF RampInv, Undrafted
<1>7. Counting' /\ RampExact'
  BY <1>2, <1>3, <1>4 DEF RampInv, Counting, RampExact, Drafts
<1> QED
  BY <1>5, <1>6, <1>7 DEF RampInv

LEMMA RampFinishes == ASSUME WorkInv, RampInv, NEW w \in Workers, Finishes(w) PROVE RampInv'
<1>1. PICK to \in {"ready", "done", "dead"} : Ends(w, to) /\ UNCHANGED <<variant, ramped>>
  BY DEF Finishes
<1>2. /\ job \in [Subjects -> {"none", "ready", "running", "done", "dead"}]
      /\ working \in [Workers -> Tasks] /\ lock \in [Variants -> Workers \cup {None}]
  BY DEF WorkInv, Shape
<1>3. /\ job' = [job EXCEPT ![working[w].subject] = to]
      /\ working' = [working EXCEPT ![w] = NoTask]
      /\ lock' = [v \in Variants |-> IF lock[v] = w THEN None ELSE lock[v]]
  BY <1>1 DEF Ends
<1>4. NoTask.subject = None /\ NoTask.step = "idle"
  BY DEF NoTask
<1>5. Owned'
  BY <1>2, <1>3, <1>4 DEF RampInv, Owned
<1>6. Undrafted'
  <2>1. \A p \in Prospects : job[p] # job'[p] => job[p] = "running"
    BY <1>2, <1>3, CopyAssumption DEF RampInv, Owned, Subjects
  <2>2. \A p \in Prospects : job'[p] # "none"
    BY <1>2, <1>3 DEF RampInv, Undrafted, Subjects
  <2> QED
    BY <1>1, <2>1, <2>2 DEF RampInv, Undrafted
<1>7. Counting'
  <2> SUFFICES ASSUME NEW x \in Workers, working'[x].step = "insert"
               PROVE  (/\ lock[working[x].variant] = x
                       /\ working[x].hold <=> Cardinality(Drafts(working[x].variant)) < ApproveFirst)'
    BY DEF Counting
  <2>1. x # w /\ working'[x] = working[x]
    BY <1>2, <1>3, <1>4
  <2>2. working[x].variant \in Variants /\ lock[working[x].variant] = x
    BY <2>1 DEF RampInv, Counting, WorkInv, Bindings, TaskOK
  <2>3. lock'[working[x].variant] = x
    BY <1>3, <2>1, <2>2
  <2>4. Drafts(working[x].variant)' = Drafts(working[x].variant)
    BY <1>1, <2>1 DEF Drafts
  <2>5. working[x].hold <=> Cardinality(Drafts(working[x].variant)) < ApproveFirst
    BY <2>1 DEF RampInv, Counting
  <2> QED
    BY <2>1, <2>3, <2>4, <2>5
<1> QED
  BY <1>1, <1>5, <1>6, <1>7, SameDrafts DEF RampInv

LEMMA RampWrites ==
  ASSUME WorkInv, RampInv, NEW w \in Workers, Rewrites(w) \/ ComposeAccepted(w)
  PROVE  RampInv'
<1>1. working \in [Workers -> Tasks]
  BY DEF WorkInv, Shape
<1>2. UNCHANGED <<job, lock, variant, ramped>>
  BY DEF Rewrites, ComposeAccepted, mail
<1>3. /\ working'[w].subject = working[w].subject /\ working'[w].step # "insert"
      /\ \A x \in Workers : x # w => working'[x] = working[x]
  BY <1>1 DEF Rewrites, ComposeAccepted, AtStep, Tasks
<1>4. Owned' /\ Undrafted'
  BY <1>2, <1>3 DEF RampInv, Owned, Undrafted
<1>5. Counting' /\ RampExact'
  BY <1>2, <1>3 DEF RampInv, Counting, RampExact, Drafts
<1> QED
  BY <1>4, <1>5 DEF RampInv

LEMMA RampCounts == ASSUME WorkInv, RampInv, NEW w \in Workers, CountsRamp(w) PROVE RampInv'
<1> DEFINE H(v) == Cardinality(Drafts(v)) < ApproveFirst
<1>1. /\ working \in [Workers -> Tasks]
      /\ lock \in [Variants -> Workers \cup {None}]
  BY DEF WorkInv, Shape
<1>2. PICK v \in Variants :
        /\ v = working[w].variant /\ lock[v] = None
        /\ lock' = [lock EXCEPT ![v] = w]
        /\ working' = [working EXCEPT ![w].step = "insert", ![w].hold = H(v)]
  BY DEF CountsRamp, RampLocked
<1> HIDE DEF H
<1>3. UNCHANGED <<job, variant, ramped>>
  BY DEF CountsRamp
<1>4. /\ working'[w].subject = working[w].subject /\ working'[w].variant = v
      /\ working'[w].hold = H(v) /\ lock'[v] = w
      /\ \A x \in Workers : x # w => working'[x] = working[x]
  BY <1>1, <1>2 DEF Tasks
<1>5. Owned' /\ Undrafted'
  BY <1>3, <1>4 DEF RampInv, Owned, Undrafted
<1>6. \A u : Drafts(u)' = Drafts(u)
  BY <1>3 DEF Drafts
<1>7. Counting'
  <2> SUFFICES ASSUME NEW x \in Workers, working'[x].step = "insert"
               PROVE  (/\ lock[working[x].variant] = x
                       /\ working[x].hold <=> Cardinality(Drafts(working[x].variant)) < ApproveFirst)'
    BY DEF Counting
  <2>1. CASE x = w
    BY <1>4, <1>6, <2>1 DEF H
  <2>2. CASE x # w
    <3>1. working'[x] = working[x]
      BY <1>4, <2>2
    <3>2. /\ lock[working[x].variant] = x
          /\ working[x].hold <=> Cardinality(Drafts(working[x].variant)) < ApproveFirst
      BY <3>1 DEF RampInv, Counting
    <3>3. working[x].variant # v
      BY <1>2, <3>2, CopyAssumption
    <3>4. lock'[working[x].variant] = x
      BY <1>1, <1>2, <3>2, <3>3
    <3> QED
      BY <1>6, <3>1, <3>2, <3>4
  <2> QED
    BY <2>1, <2>2
<1>8. RampExact'
  BY <1>3 DEF RampInv, RampExact, Drafts
<1> QED
  BY <1>5, <1>7, <1>8 DEF RampInv

\* The draft that is inserted is the next of its variant, as it was counted.
LEMMA RampQueues ==
  ASSUME IsFiniteSet(Prospects), WorkInv, RampInv, NEW w \in Workers, QueuesDraft(w)
  PROVE  RampInv'
<1>1. /\ working \in [Workers -> Tasks] /\ variant \in [Prospects -> Variants \cup {None}]
      /\ job \in [Subjects -> {"none", "ready", "running", "done", "dead"}]
      /\ lock \in [Variants -> Workers \cup {None}]
  BY DEF WorkInv, Shape
<1>2. PICK p \in Prospects, v \in Variants :
        /\ working[w].step = "insert" /\ p = working[w].subject /\ v = working[w].variant
        /\ p \in Subjects
  BY DEF QueuesDraft, AtStep, WorkInv, Bindings, TaskOK, Subjects
<1>3. p # None /\ v # None /\ None \notin Subjects
  BY <1>2, CopyAssumption
<1>4. variant[p] = None /\ p \notin ramped
  BY <1>2, <1>3 DEF RampInv, Owned, Undrafted
<1>5. lock[v] = w /\ (working[w].hold <=> Cardinality(Drafts(v)) < ApproveFirst)
  BY <1>2 DEF RampInv, Counting
<1>6. /\ job' = [job EXCEPT ![p] = "done"]
      /\ working' = [working EXCEPT ![w] = NoTask]
      /\ lock' = [u \in Variants |-> IF lock[u] = w THEN None ELSE lock[u]]
      /\ variant' = [variant EXCEPT ![p] = v]
      /\ ramped' = IF working[w].hold THEN ramped \cup {p} ELSE ramped
  BY <1>2 DEF QueuesDraft, Ends, Subject
<1>7. NoTask.subject = None /\ NoTask.step = "idle"
  BY DEF NoTask
<1>8. Owned'
  <2>1. \A x \in Workers : x # w /\ working[x].subject # None => working[x].subject # p
    BY <1>2, <1>3 DEF RampInv, Owned
  <2> QED
    BY <1>1, <1>6, <1>7, <2>1 DEF RampInv, Owned
<1>9. Undrafted'
  BY <1>1, <1>2, <1>3, <1>4, <1>6 DEF RampInv, Undrafted, Subjects
<1>10. Drafts(v)' = Drafts(v) \cup {p} /\ p \notin Drafts(v)
  BY <1>1, <1>2, <1>3, <1>4, <1>6 DEF Drafts
<1>11. \A u \in Variants : u # v => Drafts(u)' = Drafts(u) /\ p \notin Drafts(u)
  BY <1>1, <1>2, <1>4, <1>6, CopyAssumption DEF Drafts
<1>12. Counting'
  <2> SUFFICES ASSUME NEW x \in Workers, working'[x].step = "insert"
               PROVE  (/\ lock[working[x].variant] = x
                       /\ working[x].hold <=> Cardinality(Drafts(working[x].variant)) < ApproveFirst)'
    BY DEF Counting
  <2>1. x # w /\ working'[x] = working[x]
    BY <1>1, <1>6, <1>7
  <2>2. PICK u \in Variants :
          u = working[x].variant /\ lock[u] = x /\ (working[x].hold <=> Cardinality(Drafts(u)) < ApproveFirst)
    BY <2>1 DEF RampInv, Counting, WorkInv, Bindings, TaskOK
  <2>3. u # v
    BY <1>5, <2>1, <2>2
  <2>4. lock'[u] = x
    BY <1>6, <2>1, <2>2
  <2>5. working'[x].variant = u
    BY <2>1, <2>2
  <2>6. Drafts(u)' = Drafts(u)
    BY <1>11, <2>3
  <2>7. Drafts(working[x].variant)' = Drafts(u)'
    BY <2>5 DEF Drafts
  <2> QED
    BY <2>1, <2>2, <2>4, <2>5, <2>6, <2>7
<1>13. RampExact'
  <2>1. \A u : IsFiniteSet(Drafts(u)) /\ Cardinality(Drafts(u)) \in Nat
    <3>2. \A u : Drafts(u) \subseteq Prospects
      BY DEF Drafts
    <3> QED
      BY <3>2, FS_Subset, FS_CardinalityType
  <2>2. IsFiniteSet(Drafts(v) \cap ramped)
    BY <2>1, FS_Subset
  <2>3. Cardinality(Drafts(v) \cup {p}) = Cardinality(Drafts(v)) + 1
    BY <1>10, <2>1, FS_AddElement
  <2>4. Cardinality((Drafts(v) \cap ramped) \cup {p}) = Cardinality(Drafts(v) \cap ramped) + 1
    BY <1>10, <2>2, FS_AddElement
  <2>5. Cardinality(Drafts(v) \cap ramped) =
           IF Cardinality(Drafts(v)) < ApproveFirst THEN Cardinality(Drafts(v)) ELSE ApproveFirst
    BY <1>2 DEF RampInv, RampExact
  <2>6. Cardinality(Drafts(v) \cap ramped)' =
           IF Cardinality(Drafts(v))' < ApproveFirst THEN Cardinality(Drafts(v))' ELSE ApproveFirst
    <3>1. PICK n \in Nat : Cardinality(Drafts(v)) = n /\ Cardinality(Drafts(v))' = n + 1
      <4>1. Cardinality(Drafts(v)') = Cardinality(Drafts(v)) + 1
        BY <1>10, <2>3
      <4> QED
        BY <2>1, <4>1
    <3>2. CASE working[w].hold
      <4>1. (Drafts(v) \cap ramped)' = (Drafts(v) \cap ramped) \cup {p}
        BY <1>6, <1>10, <3>2
      <4>2. Cardinality(Drafts(v) \cap ramped)' = n + 1
        BY <1>5, <2>4, <2>5, <3>1, <3>2, <4>1
      <4> QED
        BY <1>5, <3>1, <3>2, <4>2, CopyAssumption
    <3>3. CASE ~working[w].hold
      <4>1. (Drafts(v) \cap ramped)' = Drafts(v) \cap ramped
        BY <1>4, <1>6, <1>10, <3>3
      <4>2. Cardinality(Drafts(v) \cap ramped)' = ApproveFirst
        BY <1>5, <2>5, <3>3, <4>1
      <4> QED
        BY <1>5, <3>1, <3>3, <4>2, CopyAssumption
    <3> QED
      BY <3>2, <3>3
  <2>7. ASSUME NEW u \in Variants, u # v
        PROVE  (Drafts(u) \cap ramped)' = Drafts(u) \cap ramped /\ Drafts(u)' = Drafts(u)
    BY <1>6, <1>11, <2>7
  <2> QED
    BY <2>6, <2>7 DEF RampInv, RampExact
<1> QED
  BY <1>8, <1>9, <1>12, <1>13 DEF RampInv

LEMMA RampStep ==
  ASSUME IsFiniteSet(Prospects), WorkInv, RampInv, [Next]_vars PROVE RampInv'
  BY StepKinds, RampKeeps, RampSkips, RampBegins, RampFinishes, RampWrites, RampCounts, RampQueues
  DEF RampInv, Undrafted

LEMMA RampInitially == ASSUME Init PROVE RampInv
<1>1. \A v \in Variants : Drafts(v) = {} /\ Drafts(v) \cap ramped = {}
  BY CopyAssumption DEF Init, Drafts
<1>2. RampExact
  <2>1. Cardinality({}) = 0 /\ ApproveFirst \in Nat
    BY FS_EmptySet, CopyAssumption
  <2>2. \A v \in Variants : Cardinality(Drafts(v)) = 0 /\ Cardinality(Drafts(v) \cap ramped) = 0
    BY <1>1, <2>1
  <2>3. (IF 0 < ApproveFirst THEN 0 ELSE ApproveFirst) = 0
    BY <2>1
  <2> QED
    BY <2>2, <2>3 DEF RampExact
<1>3. Owned /\ Undrafted /\ Counting
  BY CopyAssumption DEF Init, Owned, Undrafted, Counting, NoTask, Subjects
<1> QED
  BY <1>2, <1>3 DEF RampInv

\* The review ramp is exact for any number of workers: the first approve_first drafts of
\* a variant are held for review and no others, because who counts the drafts holds the
\* variant's advisory lock until the draft is committed (queue_draft).
THEOREM RampIsExact == ASSUME IsFiniteSet(Prospects) PROVE Spec => []RampExact
<1>1. Init => WorkInv /\ RampInv
  BY WorkInitially, RampInitially
<1>2. WorkInv /\ RampInv /\ [Next]_vars => (WorkInv /\ RampInv)'
  BY NextStep, RampStep DEF WorkStep
<1>3. RampInv => RampExact
  BY DEF RampInv
<1> QED
  BY <1>1, <1>2, <1>3, PTL DEF Spec

\* The jobs that the ramp is about have been enqueued.
RampJobs == \A p \in Prospects : job[p] # "none"

LEMMA JobsStep == ASSUME WorkInv, RampJobs, [Next]_vars PROVE RampJobs'
<1>1. job \in [Subjects -> {"none", "ready", "running", "done", "dead"}]
  BY DEF WorkInv, Shape
<1>2. CASE UNCHANGED job
  BY <1>2 DEF RampJobs
<1>3. ASSUME NEW s, NEW to \in {"ready", "running", "done", "dead"},
             job' = [job EXCEPT ![s] = to]
      PROVE  RampJobs'
  BY <1>1, <1>3 DEF RampJobs, Subjects
<1>4. CASE Skips
  BY <1>3, <1>4 DEF Skips
<1>5. ASSUME NEW w \in Workers, Begins(w) \/ Finishes(w) \/ QueuesDraft(w) PROVE RampJobs'
  BY <1>3, <1>5 DEF Begins, Starts, Finishes, QueuesDraft, Ends
<1>6. ASSUME NEW w \in Workers, Rewrites(w) \/ ComposeAccepted(w) \/ CountsRamp(w)
      PROVE  UNCHANGED job
  BY <1>6 DEF Rewrites, ComposeAccepted, CountsRamp
<1> QED
  BY <1>2, <1>4, <1>5, <1>6, StepKinds DEF RampJobs

LEMMA BoundProspects == \A v : Bound(v) \subseteq Prospects /\ Bound(v)' \subseteq Prospects
  BY DEF Bound, Drafts

\* Who is bound to a paused variant after a step was bound to it before.
LEMMA DrainStep ==
  ASSUME WorkInv, [Next]_vars, \A q \in Prospects : job[q] # "none",
         NEW v \in paused, NEW p \in Prospects, p \in Bound(v)'
  PROVE  p \in Bound(v)
<1>1. /\ v \in Variants /\ v # None /\ p # None
      /\ working \in [Workers -> Tasks] /\ variant \in [Prospects -> Variants \cup {None}]
  BY CopyAssumption DEF WorkInv, Shape, LearningTypeOK, Subjects
<1>2. \/ variant'[p] = v
      \/ \E w \in Workers : working'[w].subject = p /\ working'[w].variant = v
  BY DEF Bound, Drafts
<1>3. ASSUME variant[p] = v \/ \E w \in Workers : working[w].subject = p /\ working[w].variant = v
      PROVE  p \in Bound(v)
  BY <1>3 DEF Bound, Drafts
<1>4. CASE UNCHANGED <<job, working, lock, variant, ramped>> \/ Skips
  BY <1>2, <1>3, <1>4 DEF Skips
<1>5. ASSUME NEW w \in Workers, Begins(w) PROVE p \in Bound(v)
  <2>1. PICK s \in Subjects, u \in Variants \cup {None} :
          /\ working' = [working EXCEPT ![w] =
                [subject |-> s, step |-> "write", variant |-> u, tries |-> 0, hold |-> FALSE]]
          /\ variant' = variant /\ (s \in Prospects => u \notin paused)
    BY <1>5 DEF Begins, Starts, mail
  <2> QED
    BY <1>1, <1>2, <1>3, <2>1
<1>6. ASSUME NEW w \in Workers, Finishes(w) PROVE p \in Bound(v)
  <2>1. working' = [working EXCEPT ![w] = NoTask] /\ variant' = variant /\ NoTask.subject # p
    BY <1>1, <1>6 DEF Finishes, Ends, NoTask
  <2> QED
    BY <1>1, <1>2, <1>3, <2>1
<1>7. ASSUME NEW w \in Workers, Rewrites(w) \/ ComposeAccepted(w) \/ CountsRamp(w)
      PROVE  p \in Bound(v)
  <2>1. \A x \in Workers : /\ working'[x].subject = working[x].subject
                           /\ working'[x].variant = working[x].variant
    BY <1>1, <1>7 DEF Rewrites, ComposeAccepted, CountsRamp, Tasks
  <2>2. variant' = variant
    BY <1>7 DEF Rewrites, ComposeAccepted, CountsRamp, mail
  <2> QED
    BY <1>2, <1>3, <2>1, <2>2
<1>8. ASSUME NEW w \in Workers, QueuesDraft(w) PROVE p \in Bound(v)
  <2>1. /\ working' = [working EXCEPT ![w] = NoTask] /\ NoTask.subject # p
        /\ variant' = [variant EXCEPT ![working[w].subject] = working[w].variant]
    BY <1>1, <1>8 DEF QueuesDraft, Ends, Subject, NoTask
  <2> QED
    BY <1>1, <1>2, <1>3, <2>1
<1> QED
  BY <1>4, <1>5, <1>6, <1>7, <1>8, StepKinds

\* Once a variant is paused no prospect is newly bound to it (Sampler.select draws from
\* the arms that are not paused), whatever transactions are open at that moment.
THEOREM PausedDrains == Spec => PausedOnlyDrains
<1>1. Init => WorkInv /\ RampJobs
  BY WorkInitially, CopyAssumption DEF Init, RampJobs, Subjects
<1>2. WorkInv /\ RampJobs /\ [Next]_vars => (WorkInv /\ RampJobs)'
  BY NextStep, JobsStep DEF WorkStep
<1>3. WorkInv /\ RampJobs /\ [Next]_vars => [\A v \in paused : Bound(v)' \subseteq Bound(v)]_vars
  BY DrainStep, BoundProspects DEF RampJobs
<1> QED
  BY <1>1, <1>2, <1>3, PTL DEF Spec, PausedOnlyDrains
====
