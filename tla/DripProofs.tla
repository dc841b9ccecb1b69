---- MODULE DripProofs ----
(***************************************************************************)
(* Proofs about the drip for any prospects, entities, addresses, steps and *)
(* bounds: types, one referral ask per entity, one answer per reply, that  *)
(* whoever left is suppressed, what the count of contacts counts, what     *)
(* keeps a drip going, that rows move along the life cycle, and what a     *)
(* step that leaves twice needs.                                           *)
(***************************************************************************)
EXTENDS Drip, SumProofs, FiniteSetTheorems, TLAPS

\* The names of the jobs that the handlers use.
LEMMA JobNames ==
  ASSUME NEW p \in Prospects
  PROVE  /\ \A s \in 0..(Steps - 1) : s \in Numbers /\ Compose(p, s) \in Jobs
         /\ \A n \in 1..MaxReplies : n \in Numbers /\ Classify(p, n) \in Jobs
         /\ 0 \in Numbers
         /\ <<"referral", p, 0>> \in Jobs /\ <<"reengage", p, 0>> \in Jobs
  BY DripAssumption DEF Numbers, Jobs, Queues, Compose, Classify

\* The parts of a touch.
LEMMA TouchParts ==
  ASSUME NEW t \in Touches
  PROVE  /\ t[1] \in Prospects /\ EntityOf[t[1]] \in Entities /\ AddressOf[t[1]] \in Addresses
         /\ t[2] \in Kinds /\ t[3] \in Numbers
  BY DripAssumption DEF Touches

\* A new touch is one that was absent, and the only one that changes.
LEMMA NewTouchIs ==
  ASSUME NEW p \in Prospects, NEW k \in Kinds, NEW n \in Numbers, NEW status,
         NewTouch(p, k, n, status)
  PROVE  \E t \in Touches :
            /\ t[1] = p /\ t[2] = k /\ t[3] = n
            /\ touch[t] = "absent"
            /\ touch' = [touch EXCEPT ![t] = status]
            /\ plain' = plain \union {t}
            /\ delivers' = IF status = "drafted" THEN delivers \union {t} ELSE delivers
<1>1. PICK c \in 1..MaxCopies :
         /\ touch[<<p, k, n, c>>] = "absent"
         /\ touch' = [touch EXCEPT ![<<p, k, n, c>>] = status]
         /\ plain' = plain \union {<<p, k, n, c>>}
         /\ delivers' = IF status = "drafted" THEN delivers \union {<<p, k, n, c>>} ELSE delivers
  BY Zenon DEF NewTouch
<1>2. <<p, k, n, c>> \in Touches
  BY DEF Touches
<1> QED
  BY <1>1, <1>2

----------------------------------------------------------------------------
(* Types *)

LEMMA NewTouchType ==
  ASSUME MailType, NEW p \in Prospects, NEW k \in Kinds, NEW n \in Numbers,
         NEW status \in TouchStates \ {"absent"}, NewTouch(p, k, n, status)
  PROVE  MailType'
<1>1. PICK t \in Touches :
         /\ touch[t] = "absent"
         /\ touch' = [touch EXCEPT ![t] = status]
         /\ plain' = plain \union {t}
         /\ delivers' = IF status = "drafted" THEN delivers \union {t} ELSE delivers
  <2>1. \E t \in Touches :
            /\ t[1] = p /\ t[2] = k /\ t[3] = n
            /\ touch[t] = "absent"
            /\ touch' = [touch EXCEPT ![t] = status]
            /\ plain' = plain \union {t}
            /\ delivers' = IF status = "drafted" THEN delivers \union {t} ELSE delivers
    BY NewTouchIs
  <2> QED
    BY <2>1
<1> QED
  BY <1>1 DEF MailType

\* A touch that exists changes its status.
LEMMA MarkType ==
  ASSUME MailType, NEW t \in Touches,
         NEW status \in TouchStates \ {"absent", "pending_review"},
         touch' = [touch EXCEPT ![t] = status],
         plain' = plain, delivers' \subseteq delivers \union {t}
  PROVE  MailType'
  BY DEF MailType

LEMMA EnqueueType ==
  ASSUME JobsType, NEW js, Enqueue(js), run' = run, redeliveries' \in 0..MaxRedeliveries
  PROVE  JobsType'
  BY DEF JobsType, Enqueue, Enqueued, Live

LEMMA CommitsType ==
  ASSUME JobsType, NEW j \in Jobs, Live(j), NEW new, Commits(j, new)
  PROVE  JobsType'
<1>1. CASE /\ job' = [Enqueued(new) EXCEPT ![j] = "over"]
           /\ run' = [run EXCEPT ![j] = "idle"]
           /\ UNCHANGED redeliveries
  BY <1>1 DEF JobsType, Enqueued, Live
<1>2. CASE /\ redeliveries < MaxRedeliveries
           /\ redeliveries' = redeliveries + 1
           /\ Enqueue(new)
           /\ \E again \in {"idle", run[j]} : run' = [run EXCEPT ![j] = again]
  BY <1>2, DripAssumption DEF JobsType, Enqueue, Enqueued, Live
<1> QED
  BY <1>1, <1>2 DEF Commits

LEMMA WaitsType ==
  ASSUME JobsType, NEW j \in Jobs, Live(j), NEW seen \in {"address", "noaddress"},
         Waits(j, seen)
  PROVE  JobsType'
  BY DEF JobsType, Waits, Live

LEMMA DeliverCommitsType ==
  ASSUME JobsType, MailType, NEW t \in Touches, DeliverCommits(t)
  PROVE  /\ delivers' \subseteq delivers /\ redeliveries' \in 0..MaxRedeliveries
  BY DripAssumption DEF JobsType, DeliverCommits

LEMMA TransitionType ==
  ASSUME pstate \in [Prospects -> ProspectStates], NEW p \in Prospects,
         NEW target \in DOMAIN Allowed, Transition(p, target)
  PROVE  pstate' \in [Prospects -> ProspectStates]
  BY DEF Transition, ProspectStates

\* What is left alone keeps its type.
LEMMA RowsKept ==
  ASSUME RowsType,
         UNCHANGED <<drip, thread, lists, events>>, givenUp' \subseteq Prospects
  PROVE  RowsType'
  BY DEF RowsType, drip, thread, lists

LEMMA MailKept ==
  ASSUME MailType, UNCHANGED mail
  PROVE  MailType'
  BY DEF MailType, mail

LEMMA JobsKept ==
  ASSUME JobsType, UNCHANGED jobs
  PROVE  JobsType'
  BY DEF JobsType, jobs, Live

LEMMA ComposeType ==
  ASSUME TypeOK, NEW p \in Prospects, NEW s \in 0..(Steps - 1), ComposeStep(p, s)
  PROVE  TypeOK'
<1> DEFINE j == Compose(p, s)
<1>1. RowsType /\ MailType /\ JobsType /\ j \in Jobs /\ s \in Numbers /\ (run[j] # "idle" => Live(j))
  BY JobNames DEF TypeOK, JobsType
<1>2. CASE ComposeReads(p, s)
  <2>1. JobsType'
    BY <1>1, <1>2, WaitsType DEF ComposeReads
  <2>2. RowsType' /\ MailType'
    BY <1>1, <1>2, RowsKept, MailKept DEF ComposeReads, RowsType
  <2> QED
    BY <2>1, <2>2 DEF TypeOK
<1>3. CASE ComposeDrafts(p, s)
  <2>1. JobsType'
    BY <1>1, <1>3, CommitsType DEF ComposeDrafts
  <2>2. MailType'
    <3>1. PICK status \in {"pending_review", "drafted"} : NewTouch(p, "step", s, status)
      BY <1>3 DEF ComposeDrafts
    <3> QED
      BY <1>1, <3>1, NewTouchType DEF TouchStates, Kinds
  <2>3. RowsType'
    BY <1>1, <1>3, RowsKept DEF ComposeDrafts, RowsType
  <2> QED
    BY <2>1, <2>2, <2>3 DEF TypeOK
<1>4. CASE ComposeEscalates(p, s)
  <2>1. JobsType'
    BY <1>1, <1>4, CommitsType DEF ComposeEscalates
  <2>2. RowsType' /\ MailType'
    BY <1>1, <1>4, RowsKept, MailKept DEF ComposeEscalates, RowsType
  <2> QED
    BY <2>1, <2>2 DEF TypeOK
<1>5. CASE ComposeParks(p, s)
  <2>1. JobsType'
    BY <1>1, <1>5, CommitsType DEF ComposeParks
  <2>2. MailType'
    BY <1>1, <1>5, NewTouchType DEF ComposeParks, TouchStates, Kinds
  <2>3. RowsType'
    BY <1>1, <1>5, RowsKept DEF ComposeParks, RowsType
  <2> QED
    BY <2>1, <2>2, <2>3 DEF TypeOK
<1>6. CASE ComposeStops(p, s)
  <2>1. JobsType'
    BY <1>1, <1>6, CommitsType DEF ComposeStops
  <2>2. MailType'
    BY <1>1, <1>6, MailKept DEF ComposeStops
  <2>3. RowsType'
    BY <1>1, <1>6, DripAssumption DEF ComposeStops, RowsType, Released, thread, lists
  <2> QED
    BY <2>1, <2>2, <2>3 DEF TypeOK
<1> QED
  BY <1>2, <1>3, <1>4, <1>5, <1>6 DEF ComposeStep

LEMMA HumanType ==
  ASSUME TypeOK, NEW t \in Touches, Approve(t) \/ Reject(t) \/ TaskDone(t) \/ TaskEnds(t)
  PROVE  TypeOK'
<1>1. RowsType /\ MailType /\ JobsType
  BY DEF TypeOK
<1>2. t[1] \in Prospects /\ EntityOf[t[1]] \in Entities
  BY TouchParts
<1>3. MailType'
  <2>1. PICK status \in {"drafted", "released", "sent"} :
           /\ touch' = [touch EXCEPT ![t] = status]
           /\ plain' = plain /\ delivers' \subseteq delivers \union {t}
    BY DEF Approve, Reject, TaskDone, TaskEnds
  <2> QED
    BY <1>1, <2>1, MarkType DEF TouchStates
<1>4. JobsType'
  BY <1>1, JobsKept DEF Approve, Reject, TaskDone, TaskEnds
<1>5. CASE TaskDone(t)
  <2>1. givenUp' \subseteq Prospects
    BY <1>1, <1>2, <1>5 DEF TaskDone, GiveUp, RowsType
  <2>2. contacts' \in [Entities -> Nat] /\ recent' \in [Entities -> BOOLEAN]
    BY <1>1, <1>2, <1>5 DEF TaskDone, RowsType
  <2>3. RowsType'
    BY <1>1, <1>5, <2>1, <2>2 DEF TaskDone, RowsType, thread, lists
  <2> QED
    BY <1>3, <1>4, <2>3 DEF TypeOK
<1>6. CASE Approve(t) \/ Reject(t) \/ TaskEnds(t)
  <2>1. givenUp' \subseteq Prospects
    BY <1>1, <1>2, <1>6 DEF Approve, Reject, TaskEnds, GiveUp, RowsType
  <2>2. RowsType'
    BY <1>1, <1>6, <2>1, RowsKept DEF Approve, Reject, TaskEnds
  <2> QED
    BY <1>3, <1>4, <2>2 DEF TypeOK
<1> QED
  BY <1>5, <1>6

LEMMA DeliverType ==
  ASSUME TypeOK, NEW t \in Touches, DeliverStep(t)
  PROVE  TypeOK'
<1>1. RowsType /\ MailType /\ JobsType
  BY DEF TypeOK
<1>2. t[1] \in Prospects /\ EntityOf[t[1]] \in Entities
  BY TouchParts
<1>3. CASE DeliverSends(t)
  <2> DEFINE p == t[1]
             e == EntityOf[p]
             last == t[3] + 1 >= Steps
  <2>1. delivers' \subseteq delivers /\ redeliveries' \in 0..MaxRedeliveries
    BY <1>1, <1>3, DeliverCommitsType DEF DeliverSends
  <2>2. MailType'
    BY <1>1, <1>3, <2>1, MarkType DEF DeliverSends, TouchStates
  <2>3. JobsType'
    <3>1. CASE Volume(t)
      <4>1. Enqueue(IF last THEN {} ELSE {Compose(p, t[3] + 1)}) /\ run' = run
        BY <1>3, <3>1 DEF DeliverSends
      <4> QED
        BY <1>1, <2>1, <4>1, EnqueueType
    <3>2. CASE ~Volume(t)
      <4>1. job' = job /\ run' = run
        BY <1>3, <3>2 DEF DeliverSends
      <4> QED
        BY <1>1, <2>1, <4>1 DEF JobsType, Live
    <3> QED
      BY <3>1, <3>2
  <2>4. pstate' \in [Prospects -> ProspectStates]
    BY <1>1, <1>2, <1>3, TransitionType DEF DeliverSends, RowsType, Allowed
  <2>5. givenUp' \subseteq Prospects
    BY <1>1, <1>2, <1>3 DEF DeliverSends, RowsType
  <2>6. /\ active' \in [Entities -> Prospects \union {None}]
        /\ recent' \in [Entities -> BOOLEAN]
        /\ contacts' \in [Entities -> Nat]
    <3>1. CASE Volume(t)
      <4>1. /\ active' = [active EXCEPT ![e] = IF last THEN None ELSE p]
            /\ recent' = [recent EXCEPT ![e] = TRUE]
            /\ contacts' = [contacts EXCEPT ![e] = @ + 1]
        BY <1>3, <3>1 DEF DeliverSends
      <4>2. contacts' \in [Entities -> Nat]
        BY <1>1, <1>2, <4>1 DEF RowsType
      <4> QED
        BY <1>1, <1>2, <4>1, <4>2 DEF RowsType
    <3>2. CASE ~Volume(t)
      BY <1>1, <1>3, <3>2 DEF DeliverSends, RowsType
    <3> QED
      BY <3>1, <3>2
  <2>7. UNCHANGED <<asked, reply, exchanged, noshows, suppression, tombstones, expired, events>>
    BY <1>3 DEF DeliverSends, thread, lists
  <2>8. RowsType'
    BY <1>1, <2>4, <2>5, <2>6, <2>7 DEF RowsType
  <2> QED
    BY <2>2, <2>3, <2>8 DEF TypeOK
<1>4. CASE DeliverReleases(t)
  <2>1. delivers' \subseteq delivers /\ redeliveries' \in 0..MaxRedeliveries
    BY <1>1, <1>4, DeliverCommitsType DEF DeliverReleases
  <2>2. MailType'
    BY <1>1, <1>4, <2>1, MarkType DEF DeliverReleases, TouchStates
  <2>3. JobsType'
    BY <1>1, <1>4, <2>1 DEF DeliverReleases, JobsType, Live
  <2>4. givenUp' \subseteq Prospects
    BY <1>1, <1>2, <1>4 DEF DeliverReleases, GiveUp, RowsType
  <2>5. RowsType'
    BY <1>1, <1>4, <2>4, RowsKept DEF DeliverReleases
  <2> QED
    BY <2>2, <2>3, <2>5 DEF TypeOK
<1>5. CASE DeliverEnds(t)
  <2>1. MailType'
    BY <1>1, <1>5 DEF DeliverEnds, MailType
  <2>2. JobsType'
    BY <1>1, <1>5, JobsKept DEF DeliverEnds
  <2>3. givenUp' \subseteq Prospects
    BY <1>1, <1>2, <1>5 DEF DeliverEnds, GiveUp, RowsType
  <2>4. RowsType'
    BY <1>1, <1>5, <2>3, RowsKept DEF DeliverEnds
  <2> QED
    BY <2>1, <2>2, <2>4 DEF TypeOK
<1> QED
  BY <1>3, <1>4, <1>5 DEF DeliverStep

\* Every outcome of a classify run commits its job and releases the sequence.
LEMMA ClassifiedType ==
  ASSUME TypeOK, NEW p \in Prospects, NEW n \in 1..MaxReplies, NEW mayRefer,
         Classified(p, n, mayRefer)
  PROVE  /\ JobsType'
         /\ active' \in [Entities -> Prospects \union {None}]
         /\ UNCHANGED <<recent, contacts, asked, events, givenUp, reply, noshows,
                        tombstones, expired>>
<1>1. RowsType /\ JobsType /\ Classify(p, n) \in Jobs /\ Live(Classify(p, n))
  BY JobNames DEF TypeOK, JobsType, Classified
<1>2. JobsType'
  <2>1. PICK new \in {{}, {<<"referral", p, 0>>}} : Commits(Classify(p, n), new)
    BY DEF Classified
  <2> QED
    BY <1>1, <2>1, CommitsType
<1>3. active' \in [Entities -> Prospects \union {None}]
  BY <1>1, DripAssumption DEF Classified, Released, RowsType
<1> QED
  BY <1>2, <1>3 DEF Classified

LEMMA ClassifyType ==
  ASSUME TypeOK, NEW p \in Prospects, NEW n \in 1..MaxReplies, ClassifyStep(p, n)
  PROVE  TypeOK'
<1> DEFINE j == Classify(p, n)
<1>1. /\ RowsType /\ MailType /\ JobsType
      /\ j \in Jobs /\ n \in Numbers /\ AddressOf[p] \in Addresses /\ <<p, n>> \in Replies
  BY JobNames, DripAssumption DEF TypeOK, Replies
<1>2. CASE ClassifyReads(p, n)
  <2>1. JobsType'
    BY <1>1, <1>2, WaitsType DEF ClassifyReads
  <2>2. RowsType' /\ MailType'
    BY <1>1, <1>2, RowsKept, MailKept DEF ClassifyReads, RowsType
  <2> QED
    BY <2>1, <2>2 DEF TypeOK
<1>3. CASE ClassifyScrubbed(p, n)
  <2>1. JobsType'
    BY <1>1, <1>3, CommitsType DEF ClassifyScrubbed
  <2>2. RowsType' /\ MailType'
    BY <1>1, <1>3, RowsKept, MailKept DEF ClassifyScrubbed, RowsType
  <2> QED
    BY <2>1, <2>2 DEF TypeOK
<1>4. CASE ClassifyOptsOut(p, n) \/ ClassifyDeclines(p, n)
  <2>1. PICK kind \in {"forever", "timed"}, target \in {"unsubscribed", "declined"} :
           /\ Classified(p, n, FALSE)
           /\ List(p, kind) /\ Transition(p, target)
           /\ UNCHANGED <<mail, exchanged>>
    BY <1>4 DEF ClassifyOptsOut, ClassifyDeclines
  <2>2. pstate' \in [Prospects -> ProspectStates]
    BY <1>1, <2>1, TransitionType DEF RowsType, Allowed
  <2>3. suppression' \in [Addresses -> {"none", "timed", "forever"}]
    BY <1>1, <2>1 DEF List, RowsType
  <2>4. RowsType'
    BY <1>1, <2>1, <2>2, <2>3, ClassifiedType DEF RowsType
  <2>5. MailType'
    BY <1>1, <2>1, MailKept
  <2> QED
    BY <2>1, <2>4, <2>5, ClassifiedType DEF TypeOK
<1>5. CASE ClassifyAnswers(p, n)
  <2>1. Classified(p, n, TRUE) /\ exchanged' = exchanged \union {<<p, n>>}
        /\ UNCHANGED <<pstate, suppression>>
    BY <1>5 DEF ClassifyAnswers
  <2>2. MailType'
    BY <1>1, <1>5, NewTouchType, MailKept DEF ClassifyAnswers, TouchStates, Kinds
  <2>3. RowsType'
    BY <1>1, <2>1, ClassifiedType DEF RowsType
  <2> QED
    BY <2>1, <2>2, <2>3, ClassifiedType DEF TypeOK
<1>6. CASE ClassifyLeaves(p, n)
  <2>1. Classified(p, n, TRUE) /\ UNCHANGED <<mail, pstate, exchanged, suppression>>
    BY <1>6 DEF ClassifyLeaves
  <2>2. RowsType' /\ MailType'
    BY <1>1, <2>1, ClassifiedType, MailKept DEF RowsType
  <2> QED
    BY <2>1, <2>2, ClassifiedType DEF TypeOK
<1> QED
  BY <1>2, <1>3, <1>4, <1>5, <1>6 DEF ClassifyStep

AskStep(p) ==
    \/ ReferralAsks(p) \/ ReferralPasses(p)
    \/ ReengageReads(p) \/ ReengageDrafts(p) \/ ReengagePasses(p)

LEMMA AskType ==
  ASSUME TypeOK, NEW p \in Prospects, AskStep(p)
  PROVE  TypeOK'
<1> DEFINE r == <<"referral", p, 0>>
           g == <<"reengage", p, 0>>
<1>1. /\ RowsType /\ MailType /\ JobsType /\ r \in Jobs /\ g \in Jobs /\ 0 \in Numbers
      /\ EntityOf[p] \in Entities
      /\ run[g] # "idle" => Live(g)
  BY JobNames, DripAssumption DEF TypeOK, JobsType
<1>2. CASE ReferralAsks(p)
  <2>1. JobsType'
    BY <1>1, <1>2, CommitsType DEF ReferralAsks
  <2>2. MailType'
    <3>1. CASE UNCHANGED mail
      BY <1>1, <3>1, MailKept
    <3>2. CASE NewTouch(p, "referral", 0, IF ReferralMode = "direct" THEN "drafted"
                                         ELSE "pending_human")
      <4>1. PICK status \in {"drafted", "pending_human"} : NewTouch(p, "referral", 0, status)
        BY <3>2
      <4> QED
        BY <1>1, <4>1, NewTouchType DEF TouchStates, Kinds
    <3> QED
      BY <1>2, <3>1, <3>2 DEF ReferralAsks
  <2>3. RowsType'
    BY <1>1, <1>2 DEF ReferralAsks, RowsType, thread, lists
  <2> QED
    BY <2>1, <2>2, <2>3 DEF TypeOK
<1>3. CASE ReferralPasses(p)
  <2>1. JobsType'
    BY <1>1, <1>3, CommitsType DEF ReferralPasses
  <2>2. RowsType' /\ MailType'
    BY <1>1, <1>3, RowsKept, MailKept DEF ReferralPasses, RowsType
  <2> QED
    BY <2>1, <2>2 DEF TypeOK
<1>4. CASE ReengageReads(p)
  <2>1. JobsType'
    BY <1>1, <1>4, WaitsType DEF ReengageReads
  <2>2. RowsType' /\ MailType'
    BY <1>1, <1>4, RowsKept, MailKept DEF ReengageReads, RowsType
  <2> QED
    BY <2>1, <2>2 DEF TypeOK
<1>5. CASE ReengageDrafts(p)
  <2>1. JobsType'
    BY <1>1, <1>5, CommitsType DEF ReengageDrafts
  <2>2. MailType'
    BY <1>1, <1>5, NewTouchType, MailKept DEF ReengageDrafts, TouchStates, Kinds
  <2>3. RowsType'
    BY <1>1, <1>5, RowsKept DEF ReengageDrafts, RowsType
  <2> QED
    BY <2>1, <2>2, <2>3 DEF TypeOK
<1>6. CASE ReengagePasses(p)
  <2>1. JobsType'
    BY <1>1, <1>6, CommitsType DEF ReengagePasses
  <2>2. RowsType' /\ MailType'
    BY <1>1, <1>6, RowsKept, MailKept DEF ReengagePasses, RowsType
  <2> QED
    BY <2>1, <2>2 DEF TypeOK
<1> QED
  BY <1>2, <1>3, <1>4, <1>5, <1>6 DEF AskStep

OutsideStep ==
    \/ \E p \in Prospects : Reply(p) \/ Exits(p) \/ Converts(p) \/ NoShow(p)
    \/ \E e \in Entities : Forget(e) \/ GapElapses(e)
    \/ \E a \in Addresses : SuppressionExpires(a)

LEMMA EventType ==
  ASSUME RowsType, Event
  PROVE  events' \in 0..MaxEvents
  BY DripAssumption DEF RowsType, Event

LEMMA OutsideType ==
  ASSUME TypeOK, OutsideStep
  PROVE  TypeOK'
<1>1. RowsType /\ MailType /\ JobsType
  BY DEF TypeOK
<1>2. ASSUME NEW p \in Prospects, Reply(p) PROVE TypeOK'
  <2>1. PICK n \in 1..MaxReplies :
           /\ Event
           /\ reply' = [reply EXCEPT ![<<p, n>>] = "received"]
           /\ Enqueue({Classify(p, n)})
           /\ Transition(p, "engaged")
           /\ UNCHANGED <<active, recent, contacts, asked, mail, exchanged, noshows, lists,
                          run, redeliveries, givenUp>>
    BY <1>2 DEF Reply
  <2>2. pstate' \in [Prospects -> ProspectStates]
    BY <1>1, <2>1, TransitionType DEF RowsType, Allowed
  <2>3. JobsType'
    <3>1. redeliveries' \in 0..MaxRedeliveries
      BY <1>1, <2>1 DEF JobsType
    <3> QED
      BY <1>1, <2>1, <3>1, EnqueueType
  <2>4. reply' \in [Replies -> {"absent", "received", "scrubbed"}]
    BY <1>1, <2>1 DEF RowsType
  <2>5. RowsType'
    BY <1>1, <2>1, <2>2, <2>4, EventType DEF RowsType, lists
  <2> QED
    BY <1>1, <2>1, <2>3, <2>5, MailKept DEF TypeOK
<1>3. ASSUME NEW p \in Prospects, Exits(p) PROVE TypeOK'
  <2>1. PICK target \in {"bounced", "declined", "unsubscribed"} : Transition(p, target)
    BY <1>3 DEF Exits
  <2>2. pstate' \in [Prospects -> ProspectStates]
    BY <1>1, <2>1, TransitionType DEF RowsType, Allowed
  <2>3. suppression' \in [Addresses -> {"none", "timed", "forever"}]
    BY <1>1, <1>3, DripAssumption DEF Exits, List, RowsType
  <2>4. RowsType'
    BY <1>1, <1>3, <2>2, <2>3, EventType DEF Exits, RowsType, thread
  <2> QED
    BY <1>1, <1>3, <2>4, MailKept, JobsKept DEF Exits, TypeOK
<1>4. ASSUME NEW p \in Prospects, Converts(p) PROVE TypeOK'
  <2>1. pstate' \in [Prospects -> ProspectStates]
    BY <1>1, <1>4, TransitionType DEF Converts, RowsType, Allowed
  <2>2. JobsType'
    <3>1. Enqueue({<<"referral", p, 0>>}) /\ run' = run /\ redeliveries' \in 0..MaxRedeliveries
      BY <1>1, <1>4 DEF Converts, JobsType
    <3> QED
      BY <1>1, <3>1, EnqueueType
  <2>3. RowsType'
    BY <1>1, <1>4, <2>1, EventType DEF Converts, RowsType, thread, lists
  <2> QED
    BY <1>1, <1>4, <2>2, <2>3, MailKept DEF Converts, TypeOK
<1>5. ASSUME NEW p \in Prospects, NoShow(p) PROVE TypeOK'
  <2>1. pstate' \in [Prospects -> ProspectStates]
    BY <1>1, <1>5, TransitionType DEF NoShow, RowsType, Allowed
  <2>2. suppression' \in [Addresses -> {"none", "timed", "forever"}]
    BY <1>1, <1>5, DripAssumption DEF NoShow, List, RowsType
  <2>3. JobsType'
    <3>1. run' = run /\ redeliveries' \in 0..MaxRedeliveries
      BY <1>1, <1>5 DEF NoShow, JobsType
    <3>2. Enqueue({<<"reengage", p, 0>>}) \/ job' = job
      BY <1>5 DEF NoShow
    <3>3. CASE job' = job
      BY <1>1, <3>1, <3>3 DEF JobsType, Live
    <3> QED
      BY <1>1, <3>1, <3>2, <3>3, EnqueueType
  <2>4. noshows' \in [Prospects -> Nat]
    BY <1>1, <1>5 DEF NoShow, RowsType
  <2>5. RowsType'
    BY <1>1, <1>5, <2>1, <2>2, <2>4, EventType DEF NoShow, RowsType
  <2> QED
    BY <1>1, <1>5, <2>3, <2>5, MailKept DEF NoShow, TypeOK
<1>6. ASSUME NEW e \in Entities, Forget(e) PROVE TypeOK'
  <2>1. MailType'
    BY <1>1, <1>6 DEF Forget, MailType
  <2>2. JobsType'
    BY <1>1, <1>6, JobsKept DEF Forget
  <2>3. tombstones' \subseteq Addresses
    BY <1>1, <1>6, DripAssumption DEF Forget, RowsType
  <2>4. pstate' \in [Prospects -> ProspectStates]
    BY <1>1, <1>6 DEF Forget, RowsType, ProspectStates
  <2>5. /\ reply' \in [Replies -> {"absent", "received", "scrubbed"}]
        /\ suppression' \in [Addresses -> {"none", "timed", "forever"}]
    BY <1>1, <1>6 DEF Forget, RowsType
  <2>6. RowsType'
    <3>1. /\ UNCHANGED <<active, recent, contacts, asked, exchanged, noshows, expired, givenUp>>
          /\ Event
      BY <1>6 DEF Forget
    <3> QED
      BY <1>1, <2>3, <2>4, <2>5, <3>1, EventType DEF RowsType
  <2> QED
    BY <2>1, <2>2, <2>6 DEF TypeOK
<1>7. ASSUME NEW e \in Entities, GapElapses(e) PROVE TypeOK'
  <2>1. RowsType'
    BY <1>1, <1>7, EventType DEF GapElapses, RowsType, thread, lists
  <2> QED
    BY <1>1, <1>7, <2>1, MailKept, JobsKept DEF GapElapses, TypeOK
<1>8. ASSUME NEW a \in Addresses, SuppressionExpires(a) PROVE TypeOK'
  <2>1. RowsType'
    BY <1>1, <1>8, EventType DEF SuppressionExpires, RowsType, thread, drip
  <2> QED
    BY <1>1, <1>8, <2>1, MailKept, JobsKept DEF SuppressionExpires, TypeOK
<1> QED
  BY <1>2, <1>3, <1>4, <1>5, <1>6, <1>7, <1>8 DEF OutsideStep

LEMMA DiesType ==
  ASSUME TypeOK, NEW j \in Jobs, Dies(j)
  PROVE  TypeOK'
<1>1. RowsType /\ MailType /\ JobsType
  BY DEF TypeOK
<1>2. JobsType'
  BY <1>1 DEF Dies, JobsType, Live
<1>3. givenUp' \subseteq Prospects
  BY <1>1 DEF Dies, RowsType, Jobs
<1>4. RowsType' /\ MailType'
  BY <1>1, <1>3, RowsKept, MailKept DEF Dies
<1> QED
  BY <1>2, <1>4 DEF TypeOK

\* The steps of Next, by who takes them.
LEMMA NextSteps ==
  ASSUME Next
  PROVE  \/ \E p \in Prospects, s \in 0..(Steps - 1) : ComposeStep(p, s)
         \/ \E p \in Prospects, n \in 1..MaxReplies : ClassifyStep(p, n)
         \/ \E t \in Touches : DeliverStep(t)
         \/ \E t \in Touches : Approve(t) \/ Reject(t) \/ TaskDone(t) \/ TaskEnds(t)
         \/ \E p \in Prospects : AskStep(p)
         \/ OutsideStep
         \/ \E j \in Jobs : Dies(j)
  BY Zenon DEF Next, AskStep, OutsideStep

LEMMA TypeStep ==
  ASSUME TypeOK, [Next]_vars
  PROVE  TypeOK'
<1>1. CASE Next
  BY <1>1, NextSteps, ComposeType, ClassifyType, DeliverType, HumanType, AskType, OutsideType,
     DiesType
<1>2. CASE UNCHANGED vars
  BY <1>2 DEF vars, TypeOK, RowsType, MailType, JobsType, Live
<1> QED
  BY <1>1, <1>2

\* The columns, the touches and the jobs keep their types, a delivery is of a touch that
\* was drafted and a run is of a live job, whatever handlers, humans and events do.
THEOREM TypeCorrect == Spec => []TypeOK
<1>1. Init => TypeOK
  <2> SUFFICES ASSUME Init PROVE TypeOK
    OBVIOUS
  <2>1. RowsType
    BY DripAssumption DEF Init, RowsType, ProspectStates
  <2>2. MailType
    BY DEF Init, MailType, TouchStates
  <2>3. JobsType
    BY DripAssumption DEF Init, JobsType
  <2> QED
    BY <2>1, <2>2, <2>3 DEF TypeOK
<1>2. TypeOK /\ [Next]_vars => TypeOK'
  BY TypeStep
<1> QED
  BY <1>1, <1>2, PTL DEF Spec

----------------------------------------------------------------------------
(* One referral ask, one answer *)

Drafted(t) == touch[t] # "absent"

\* The flag that guards a kind of touch is set when there is one, and there is only one.
AskedInv ==
    /\ \A t \in Touches : t[2] = "referral" /\ Drafted(t) => EntityOf[t[1]] \in asked
    /\ \A t, u \in Touches :
          /\ t[2] = "referral" /\ u[2] = "referral"
          /\ Drafted(t) /\ Drafted(u)
          /\ EntityOf[t[1]] = EntityOf[u[1]]
          => t = u

AnsweredInv ==
    /\ \A t \in Touches : t[2] = "answer" /\ Drafted(t) => <<t[1], t[3]>> \in exchanged
    /\ \A t, u \in Touches :
          /\ t[2] = "answer" /\ u[2] = "answer"
          /\ Drafted(t) /\ Drafted(u)
          /\ t[1] = u[1] /\ t[3] = u[3]
          => t = u

\* A step that drafts neither a referral nor an answer, and resets no flag.
Quiet ==
    /\ \A t \in Touches : t[2] \in {"referral", "answer"} =>
          (touch'[t] = "absent" <=> touch[t] = "absent")
    /\ asked \subseteq asked' /\ exchanged \subseteq exchanged'

\* A step that drafts one touch of kind k for p's n-th.
Draws(p, k, n) ==
    \E t \in Touches :
        /\ t[1] = p /\ t[2] = k /\ t[3] = n
        /\ \A u \in Touches : u # t => touch'[u] = touch[u]

LEMMA QuietMark ==
  ASSUME MailType, NEW t \in Touches, Drafted(t), NEW status, status # "absent",
         touch' = [touch EXCEPT ![t] = status], UNCHANGED <<asked, exchanged>>
  PROVE  Quiet
  BY DEF MailType, Drafted, Quiet

LEMMA DrawsNew ==
  ASSUME MailType, NEW p \in Prospects, NEW k \in Kinds, NEW n \in Numbers, NEW status,
         NewTouch(p, k, n, status)
  PROVE  Draws(p, k, n)
<1>1. PICK t \in Touches : t[1] = p /\ t[2] = k /\ t[3] = n
                           /\ touch' = [touch EXCEPT ![t] = status]
  <2>1. \E t \in Touches :
            /\ t[1] = p /\ t[2] = k /\ t[3] = n
            /\ touch[t] = "absent"
            /\ touch' = [touch EXCEPT ![t] = status]
            /\ plain' = plain \union {t}
            /\ delivers' = IF status = "drafted" THEN delivers \union {t} ELSE delivers
    BY NewTouchIs
  <2> QED
    BY <2>1
<1> QED
  BY <1>1 DEF Draws, MailType

LEMMA QuietDraw ==
  ASSUME NEW p, NEW n, NEW k \in {"step", "reengage"}, Draws(p, k, n),
         UNCHANGED <<asked, exchanged>>
  PROVE  Quiet
<1>1. PICK t \in Touches : t[2] = k /\ \A u \in Touches : u # t => touch'[u] = touch[u]
  BY DEF Draws
<1> QED
  BY <1>1 DEF Quiet

\* Only an ask that found the flag free drafts a referral, and only an answer that found
\* the exchange open drafts an answer.
LEMMA WhoDraws ==
  ASSUME TypeOK, Next
  PROVE  \/ Quiet
         \/ \E p \in Prospects :
               /\ Draws(p, "referral", 0)
               /\ EntityOf[p] \notin asked /\ asked' = asked \union {EntityOf[p]}
               /\ exchanged' = exchanged
         \/ \E p \in Prospects, n \in 1..MaxReplies :
               /\ Draws(p, "answer", n)
               /\ <<p, n>> \notin exchanged /\ exchanged' = exchanged \union {<<p, n>>}
               /\ asked' = asked
<1>1. MailType
  BY DEF TypeOK
<1>2. ASSUME touch' = touch, asked \subseteq asked', exchanged \subseteq exchanged' PROVE Quiet
  BY <1>2 DEF Quiet
<1>3. ASSUME NEW p \in Prospects, NEW s \in 0..(Steps - 1), ComposeStep(p, s) PROVE Quiet
  <2>1. CASE ComposeDrafts(p, s) \/ ComposeParks(p, s)
    <3>1. PICK status \in {"pending_review", "drafted", "pending_human"} :
             NewTouch(p, "step", s, status) /\ UNCHANGED <<asked, exchanged>>
      BY <2>1 DEF ComposeDrafts, ComposeParks, drip, thread
    <3> QED
      BY <1>1, <3>1, JobNames, DrawsNew, QuietDraw DEF Kinds
  <2>2. CASE ComposeReads(p, s) \/ ComposeEscalates(p, s) \/ ComposeStops(p, s)
    BY <1>2, <2>2 DEF ComposeReads, ComposeEscalates, ComposeStops, drip, mail, thread
  <2> QED
    BY <1>3, <2>1, <2>2 DEF ComposeStep
<1>4. ASSUME NEW t \in Touches, Approve(t) \/ Reject(t) \/ TaskDone(t) \/ TaskEnds(t) PROVE Quiet
  <2>1. PICK status \in {"drafted", "released", "sent"} :
           Drafted(t) /\ touch' = [touch EXCEPT ![t] = status] /\ UNCHANGED <<asked, exchanged>>
    BY <1>4 DEF Approve, Reject, TaskDone, TaskEnds, drip, thread, Drafted
  <2> QED
    BY <1>1, <2>1, QuietMark
<1>5. ASSUME NEW t \in Touches, DeliverStep(t) PROVE Quiet
  <2>1. CASE DeliverEnds(t)
    BY <1>2, <2>1 DEF DeliverEnds, drip, thread
  <2>2. CASE DeliverSends(t) \/ DeliverReleases(t)
    <3>1. PICK status \in {"dispatched", "released"} :
             Drafted(t) /\ touch' = [touch EXCEPT ![t] = status] /\ UNCHANGED <<asked, exchanged>>
      BY <2>2 DEF DeliverSends, DeliverReleases, drip, thread, Drafted
    <3> QED
      BY <1>1, <3>1, QuietMark
  <2> QED
    BY <1>5, <2>1, <2>2 DEF DeliverStep
<1>6. ASSUME NEW p \in Prospects, NEW n \in 1..MaxReplies, ClassifyStep(p, n)
      PROVE  \/ Quiet
             \/ /\ Draws(p, "answer", n)
                /\ <<p, n>> \notin exchanged /\ exchanged' = exchanged \union {<<p, n>>}
                /\ asked' = asked
  <2>1. CASE ClassifyAnswers(p, n)
    <3>1. /\ <<p, n>> \notin exchanged /\ exchanged' = exchanged \union {<<p, n>>}
          /\ asked' = asked
          /\ NewTouch(p, "answer", n, "drafted") \/ touch' = touch
      BY <2>1 DEF ClassifyAnswers, Classified, ExchangeOpen, mail
    <3>2. NewTouch(p, "answer", n, "drafted") => Draws(p, "answer", n)
      BY <1>1, JobNames, DrawsNew DEF Kinds
    <3> QED
      BY <1>2, <3>1, <3>2
  <2>2. CASE \/ ClassifyReads(p, n) \/ ClassifyScrubbed(p, n) \/ ClassifyOptsOut(p, n)
             \/ ClassifyDeclines(p, n) \/ ClassifyLeaves(p, n)
    BY <1>2, <2>2 DEF ClassifyReads, ClassifyScrubbed, ClassifyOptsOut, ClassifyDeclines,
                      ClassifyLeaves, Classified, drip, mail, thread
  <2> QED
    BY <1>6, <2>1, <2>2 DEF ClassifyStep
<1>7. ASSUME NEW p \in Prospects, AskStep(p)
      PROVE  \/ Quiet
             \/ /\ Draws(p, "referral", 0)
                /\ EntityOf[p] \notin asked /\ asked' = asked \union {EntityOf[p]}
                /\ exchanged' = exchanged
  <2>1. CASE ReferralAsks(p)
    <3>1. /\ EntityOf[p] \notin asked /\ asked' = asked \union {EntityOf[p]}
          /\ exchanged' = exchanged
          /\ (\E status \in TouchStates : NewTouch(p, "referral", 0, status)) \/ touch' = touch
      BY <2>1 DEF ReferralAsks, MayAsk, thread, mail, TouchStates
    <3>2. (\E status \in TouchStates : NewTouch(p, "referral", 0, status))
            => Draws(p, "referral", 0)
      BY <1>1, JobNames, DrawsNew DEF Kinds
    <3> QED
      BY <1>2, <3>1, <3>2
  <2>2. CASE ReengageDrafts(p)
    <3>1. NewTouch(p, "reengage", 0, "drafted") \/ touch' = touch
      BY <2>2 DEF ReengageDrafts, mail
    <3>2. UNCHANGED <<asked, exchanged>>
      BY <2>2 DEF ReengageDrafts, drip, thread
    <3>3. NewTouch(p, "reengage", 0, "drafted") => Quiet
      BY <1>1, <3>2, JobNames, DrawsNew, QuietDraw DEF Kinds
    <3> QED
      BY <1>2, <3>1, <3>2, <3>3
  <2>3. CASE ReferralPasses(p) \/ ReengageReads(p) \/ ReengagePasses(p)
    BY <1>2, <2>3 DEF ReferralPasses, ReengageReads, ReengagePasses, drip, mail, thread
  <2> QED
    BY <1>7, <2>1, <2>2, <2>3 DEF AskStep
<1>8. ASSUME OutsideStep PROVE Quiet
  <2>1. ASSUME NEW p \in Prospects, Reply(p) \/ Exits(p) \/ Converts(p) \/ NoShow(p) PROVE Quiet
    BY <1>2, <2>1 DEF Reply, Exits, Converts, NoShow, mail, thread
  <2>2. ASSUME NEW e \in Entities, Forget(e) \/ GapElapses(e) PROVE Quiet
    BY <1>2, <2>2 DEF Forget, GapElapses, mail, thread
  <2>3. ASSUME NEW a \in Addresses, SuppressionExpires(a) PROVE Quiet
    BY <1>2, <2>3 DEF SuppressionExpires, drip, mail, thread
  <2> QED
    BY <1>8, <2>1, <2>2, <2>3 DEF OutsideStep
<1>9. ASSUME NEW j \in Jobs, Dies(j) PROVE Quiet
  BY <1>2, <1>9 DEF Dies, drip, mail, thread
<1> QED
  BY <1>3, <1>4, <1>5, <1>6, <1>7, <1>8, <1>9, NextSteps

LEMMA DrawnOnceStep ==
  ASSUME TypeOK, AskedInv, AnsweredInv, [Next]_vars
  PROVE  AskedInv' /\ AnsweredInv'
<1>1. CASE Quiet
  BY <1>1 DEF Quiet, AskedInv, AnsweredInv, Drafted
<1>2. ASSUME NEW p \in Prospects, Draws(p, "referral", 0),
             EntityOf[p] \notin asked, asked' = asked \union {EntityOf[p]},
             exchanged' = exchanged
      PROVE  AskedInv' /\ AnsweredInv'
  <2>1. PICK t \in Touches : t[1] = p /\ t[2] = "referral"
                             /\ \A u \in Touches : u # t => touch'[u] = touch[u]
    BY <1>2 DEF Draws
  <2>2. \A u \in Touches : u[2] = "referral" /\ Drafted(u) => EntityOf[u[1]] # EntityOf[p]
    BY <1>2 DEF AskedInv
  <2>3. AskedInv'
    BY <1>2, <2>1, <2>2 DEF AskedInv, Drafted
  <2>4. AnsweredInv'
    BY <1>2, <2>1 DEF AnsweredInv, Drafted
  <2> QED
    BY <2>3, <2>4
<1>3. ASSUME NEW p \in Prospects, NEW n \in 1..MaxReplies, Draws(p, "answer", n),
             <<p, n>> \notin exchanged, exchanged' = exchanged \union {<<p, n>>},
             asked' = asked
      PROVE  AskedInv' /\ AnsweredInv'
  <2>1. PICK t \in Touches : t[1] = p /\ t[2] = "answer" /\ t[3] = n
                             /\ \A u \in Touches : u # t => touch'[u] = touch[u]
    BY <1>3 DEF Draws
  <2>2. \A u \in Touches : u[2] = "answer" /\ Drafted(u) => ~(u[1] = p /\ u[3] = n)
    BY <1>3 DEF AnsweredInv
  <2>3. AnsweredInv'
    BY <1>3, <2>1, <2>2 DEF AnsweredInv, Drafted
  <2>4. AskedInv'
    BY <1>3, <2>1 DEF AskedInv, Drafted
  <2> QED
    BY <2>3, <2>4
<1>4. CASE UNCHANGED vars
  BY <1>4 DEF vars, AskedInv, AnsweredInv, Drafted
<1> QED
  BY <1>1, <1>2, <1>3, <1>4, WhoDraws

LEMMA AtMostOne ==
  ASSUME NEW S, \A x, y \in S : x = y
  PROVE  Cardinality(S) <= 1
<1>1. CASE S = {}
  BY <1>1, FS_EmptySet
<1>2. ASSUME NEW x \in S PROVE Cardinality(S) <= 1
  <2>1. S = {x}
    OBVIOUS
  <2> QED
    BY <2>1, FS_Singleton
<1> QED
  BY <1>1, <1>2

LEMMA DrawnOnce == Spec => [](AskedInv /\ AnsweredInv)
<1>1. Init => AskedInv /\ AnsweredInv
  BY DEF Init, AskedInv, AnsweredInv, Drafted
<1>2. TypeOK /\ AskedInv /\ AnsweredInv /\ [Next]_vars => AskedInv' /\ AnsweredInv'
  BY DrawnOnceStep
<1> QED
  BY <1>1, <1>2, TypeCorrect, PTL DEF Spec

\* No entity has two referral asks, however many of its prospects reached a positive
\* event and however often the referral jobs ran: the ask and the guarded UPDATE of
\* entities.referral_asked are one transaction (process_positive_event).
THEOREM AskedIsOnce == Spec => []AskedOnce
<1>1. AskedInv => AskedOnce
  <2> SUFFICES ASSUME AskedInv, NEW e \in Entities
               PROVE  Cardinality({t \in Touches : t[2] = "referral" /\ EntityOf[t[1]] = e
                                                   /\ touch[t] # "absent"}) <= 1
    BY DEF AskedOnce
  <2> DEFINE asks == {t \in Touches : t[2] = "referral" /\ EntityOf[t[1]] = e
                                      /\ touch[t] # "absent"}
  <2>1. \A t, u \in asks : t = u
    BY DEF AskedInv, Drafted
  <2> QED
    BY <2>1, AtMostOne
<1> QED
  BY <1>1, DrawnOnce, PTL

\* No reply has two agentic answers, however its classify runs overlap: only the run that
\* sets replies.agentic_exchanges drafts one (_queue_agentic_reply).
THEOREM AnsweredIsOnce == Spec => []AnsweredOnce
<1>1. AnsweredInv => AnsweredOnce
  <2> SUFFICES ASSUME AnsweredInv, NEW p \in Prospects, NEW n \in 1..MaxReplies
               PROVE  Cardinality(Drafts(p, "answer", n)) <= 1
    BY DEF AnsweredOnce
  <2>1. \A t, u \in Drafts(p, "answer", n) : t = u
    BY DEF AnsweredInv, Drafted, Drafts
  <2> QED
    BY <2>1, AtMostOne
<1> QED
  BY <1>1, DrawnOnce, PTL

----------------------------------------------------------------------------
(* Whoever left is suppressed *)

Exit == {"bounced", "declined", "unsubscribed"}

Listed(a) == suppression[a] # "none" \/ a \in tombstones \/ a \in expired

\* No address leaves the lists but for what expired, and whoever is new among those who
\* left is listed.
ListsKept == \A a \in Addresses : Listed(a) => Listed(a)'
NewExitsListed ==
    \A p \in Prospects : pstate'[p] \in Exit => pstate[p] \in Exit \/ Listed(AddressOf[p])'

LEMMA NoNewExit ==
  ASSUME RowsType, NEW p \in Prospects, NEW target \in {"contacted", "engaged", "converted"},
         Transition(p, target)
  PROVE  NewExitsListed
  BY DEF RowsType, Transition, Exit, NewExitsListed

LEMMA ListedExit ==
  ASSUME RowsType, NEW p \in Prospects, NEW target, Transition(p, target),
         NEW kind \in {"timed", "forever"}, List(p, kind),
         UNCHANGED <<tombstones, expired>>
  PROVE  ListsKept /\ NewExitsListed
<1>1. AddressOf[p] \in Addresses
  BY DripAssumption
<1>2. \A a \in Addresses : suppression'[a] = IF a = AddressOf[p] THEN kind ELSE suppression[a]
  BY <1>1 DEF RowsType, List
<1>3. \A q \in Prospects : q # p => pstate'[q] = pstate[q]
  BY DEF RowsType, Transition
<1> QED
  BY <1>1, <1>2, <1>3, DripAssumption DEF Listed, ListsKept, NewExitsListed, Exit

LEMMA ListsAsTheyAre ==
  ASSUME UNCHANGED <<suppression, tombstones, expired>>
  PROVE  ListsKept
  BY DEF ListsKept, Listed

LEMMA RowsAsTheyAre ==
  ASSUME pstate' = pstate
  PROVE  NewExitsListed
  BY DEF NewExitsListed

LEMMA ExitsStep ==
  ASSUME TypeOK, Next
  PROVE  ListsKept /\ NewExitsListed
<1>1. RowsType
  BY DEF TypeOK
<1>2. ASSUME UNCHANGED <<pstate, suppression, tombstones, expired>>
      PROVE  ListsKept /\ NewExitsListed
  BY <1>2, ListsAsTheyAre, RowsAsTheyAre
<1>3. ASSUME NEW p \in Prospects, NEW s \in 0..(Steps - 1), ComposeStep(p, s)
      PROVE  ListsKept /\ NewExitsListed
  <2>1. UNCHANGED <<pstate, suppression, tombstones, expired>>
    BY <1>3 DEF ComposeStep, ComposeReads, ComposeDrafts, ComposeEscalates, ComposeParks,
                ComposeStops, drip, lists
  <2> QED
    BY <1>2, <2>1
<1>4. ASSUME NEW t \in Touches, Approve(t) \/ Reject(t) \/ TaskDone(t) \/ TaskEnds(t)
      PROVE  ListsKept /\ NewExitsListed
  <2>1. UNCHANGED <<pstate, suppression, tombstones, expired>>
    BY <1>4 DEF Approve, Reject, TaskDone, TaskEnds, drip, lists
  <2> QED
    BY <1>2, <2>1
<1>5. ASSUME NEW t \in Touches, DeliverStep(t) PROVE ListsKept /\ NewExitsListed
  <2>1. CASE DeliverReleases(t) \/ DeliverEnds(t)
    BY <1>2, <2>1 DEF DeliverReleases, DeliverEnds, drip, lists
  <2>2. CASE DeliverSends(t)
    <3>1. Transition(t[1], "contacted") /\ UNCHANGED <<suppression, tombstones, expired>>
      BY <2>2 DEF DeliverSends, lists
    <3> QED
      BY <1>1, <3>1, TouchParts, NoNewExit, ListsAsTheyAre
  <2> QED
    BY <1>5, <2>1, <2>2 DEF DeliverStep
<1>6. ASSUME NEW p \in Prospects, NEW n \in 1..MaxReplies, ClassifyStep(p, n)
      PROVE  ListsKept /\ NewExitsListed
  <2>1. CASE ClassifyOptsOut(p, n) \/ ClassifyDeclines(p, n)
    <3>1. /\ UNCHANGED <<tombstones, expired>>
          /\ \/ List(p, "forever") /\ Transition(p, "unsubscribed")
             \/ List(p, "timed") /\ Transition(p, "declined")
      BY <2>1 DEF ClassifyOptsOut, ClassifyDeclines, Classified
    <3> QED
      BY <1>1, <3>1, ListedExit
  <2>2. CASE \/ ClassifyReads(p, n) \/ ClassifyScrubbed(p, n) \/ ClassifyAnswers(p, n)
             \/ ClassifyLeaves(p, n)
    <3>1. UNCHANGED <<pstate, suppression, tombstones, expired>>
      BY <2>2 DEF ClassifyReads, ClassifyScrubbed, ClassifyAnswers, ClassifyLeaves, Classified,
                  drip, lists
    <3> QED
      BY <1>2, <3>1
  <2> QED
    BY <1>6, <2>1, <2>2 DEF ClassifyStep
<1>7. ASSUME NEW p \in Prospects, AskStep(p) PROVE ListsKept /\ NewExitsListed
  <2>1. UNCHANGED <<pstate, suppression, tombstones, expired>>
    BY <1>7 DEF AskStep, ReferralAsks, ReferralPasses, ReengageReads, ReengageDrafts,
                ReengagePasses, drip, lists
  <2> QED
    BY <1>2, <2>1
<1>8. ASSUME OutsideStep PROVE ListsKept /\ NewExitsListed
  <2>1. ASSUME NEW p \in Prospects, Reply(p) PROVE ListsKept /\ NewExitsListed
    <3>1. Transition(p, "engaged") /\ UNCHANGED <<suppression, tombstones, expired>>
      BY <2>1 DEF Reply, lists
    <3> QED
      BY <1>1, <3>1, NoNewExit, ListsAsTheyAre
  <2>2. ASSUME NEW p \in Prospects, Exits(p) PROVE ListsKept /\ NewExitsListed
    <3>1. PICK target \in Exit : Transition(p, target)
      BY <2>2 DEF Exits, Exit
    <3>2. UNCHANGED <<tombstones, expired>>
      BY <2>2 DEF Exits
    <3>3. CASE Forgotten(p)
      <4>1. pstate' = pstate
        BY <1>1, <3>1, <3>3 DEF Transition, Forgotten, Allowed, Exit, RowsType
      <4> QED
        BY <1>2, <2>2, <3>2, <3>3, <4>1 DEF Exits
    <3>4. CASE ~Forgotten(p)
      BY <1>1, <2>2, <3>1, <3>2, <3>4, ListedExit DEF Exits
    <3> QED
      BY <3>3, <3>4
  <2>3. ASSUME NEW p \in Prospects, Converts(p) PROVE ListsKept /\ NewExitsListed
    <3>1. Transition(p, "converted") /\ UNCHANGED <<suppression, tombstones, expired>>
      BY <2>3 DEF Converts, lists
    <3> QED
      BY <1>1, <3>1, NoNewExit, ListsAsTheyAre
  <2>4. ASSUME NEW p \in Prospects, NoShow(p) PROVE ListsKept /\ NewExitsListed
    <3>1. /\ UNCHANGED <<tombstones, expired>>
          /\ \/ List(p, "timed") /\ Transition(p, "declined")
             \/ UNCHANGED <<pstate, suppression>>
      BY <2>4 DEF NoShow
    <3> QED
      BY <1>1, <1>2, <3>1, ListedExit
  <2>5. ASSUME NEW e \in Entities, Forget(e) PROVE ListsKept /\ NewExitsListed
    <3> DEFINE own == {p \in Prospects : EntityOf[p] = e}
               gone == {AddressOf[p] : p \in {q \in own : ~Forgotten(q)}}
    <3>1. /\ tombstones' = tombstones \union gone
          /\ suppression' = [a \in Addresses |-> IF a \in gone THEN "none" ELSE suppression[a]]
          /\ pstate' = [p \in Prospects |-> IF p \in own THEN "forgotten" ELSE pstate[p]]
          /\ expired' = expired
      BY <2>5 DEF Forget
    <3>2. ListsKept
      <4> HIDE DEF gone
      <4> QED
        BY <3>1 DEF ListsKept, Listed
    <3>3. NewExitsListed
      BY <3>1 DEF NewExitsListed, Exit
    <3> QED
      BY <3>2, <3>3
  <2>6. ASSUME NEW e \in Entities, GapElapses(e) PROVE ListsKept /\ NewExitsListed
    BY <1>2, <2>6 DEF GapElapses, lists
  <2>7. ASSUME NEW a \in Addresses, SuppressionExpires(a) PROVE ListsKept /\ NewExitsListed
    <3>1. /\ suppression' = [suppression EXCEPT ![a] = "none"]
          /\ expired' = expired \union {a}
          /\ UNCHANGED <<pstate, tombstones>>
      BY <2>7 DEF SuppressionExpires, drip
    <3>2. ListsKept
      BY <1>1, <3>1 DEF ListsKept, Listed, RowsType
    <3> QED
      BY <3>1, <3>2, RowsAsTheyAre
  <2> QED
    BY <1>8, <2>1, <2>2, <2>3, <2>4, <2>5, <2>6, <2>7 DEF OutsideStep
<1>9. ASSUME NEW j \in Jobs, Dies(j) PROVE ListsKept /\ NewExitsListed
  BY <1>2, <1>9 DEF Dies, drip, lists
<1> QED
  BY <1>3, <1>4, <1>5, <1>6, <1>7, <1>8, <1>9, NextSteps

\* No order of events, replies, no-shows, forgets and jobs run again leaves a prospect
\* that bounced, declined or opted out off the suppression list before it expires: each
\* path that moves it there lists its address in the same transaction.
THEOREM ExitsAreSuppressed == Spec => []ExitsSuppressed
<1>1. Init => ExitsSuppressed
  BY DEF Init, ExitsSuppressed
<1>2. TypeOK /\ ExitsSuppressed /\ [Next]_vars => ExitsSuppressed'
  <2> SUFFICES ASSUME TypeOK, ExitsSuppressed, [Next]_vars PROVE ExitsSuppressed'
    OBVIOUS
  <2>1. ListsKept /\ NewExitsListed
    <3>1. CASE UNCHANGED vars
      BY <3>1, ListsAsTheyAre, RowsAsTheyAre DEF vars
    <3> QED
      BY <3>1, ExitsStep
  <2>2. \A p \in Prospects : pstate[p] \in Exit => Listed(AddressOf[p])
    BY DEF ExitsSuppressed, Suppressed, Exit, Listed
  <2>3. \A p \in Prospects : pstate'[p] \in Exit => Listed(AddressOf[p])'
    BY <2>1, <2>2, DripAssumption DEF ListsKept, NewExitsListed
  <2> QED
    BY <2>3 DEF ExitsSuppressed, Suppressed, Exit, Listed
<1> QED
  BY <1>1, <1>2, TypeCorrect, PTL DEF Spec

----------------------------------------------------------------------------
(* What touches_12mo counts *)

\* An email of the sequence that left, or a task that was done.
Counted(t) == touch[t] = "sent" \/ (Volume(t) /\ touch[t] = "dispatched")
CountedOf(e) == {t \in Touches : EntityOf[t[1]] = e /\ Counted(t)}

Uncounted == {"absent", "drafted", "pending_review", "pending_human", "released"}

\* A step that counts nothing, and a step that counts t.
CountsNothing ==
    /\ contacts' = contacts
    /\ \A t \in Touches : Counted(t)' <=> Counted(t)
Counts(t) ==
    /\ contacts' = [contacts EXCEPT ![EntityOf[t[1]]] = @ + 1]
    /\ ~Counted(t) /\ Counted(t)'
    /\ \A u \in Touches : u # t => (Counted(u)' <=> Counted(u))

LEMMA TouchesFinite == IsFiniteSet(Touches)
<1> DEFINE pairs == (Prospects \X Kinds) \X (Numbers \X (1..MaxCopies))
           flat == [x \in pairs |-> <<x[1][1], x[1][2], x[2][1], x[2][2]>>]
<1>1. IsFiniteSet(Kinds)
  <2>1. \A x, y : IsFiniteSet({x, y})
    <3> SUFFICES ASSUME NEW x, NEW y PROVE IsFiniteSet({x, y})
      OBVIOUS
    <3>1. IsFiniteSet({x})
      BY FS_Singleton
    <3>2. IsFiniteSet({x} \union {y})
      BY <3>1, FS_AddElement
    <3>3. {x, y} = {x} \union {y}
      OBVIOUS
    <3> QED
      BY <3>2, <3>3
  <2>2. Kinds = {"step", "answer"} \union {"reengage", "referral"}
    BY DEF Kinds
  <2>3. IsFiniteSet({"step", "answer"}) /\ IsFiniteSet({"reengage", "referral"})
    BY <2>1
  <2> QED
    BY <2>2, <2>3, FS_Union
<1>2. IsFiniteSet(Numbers) /\ IsFiniteSet(1..MaxCopies)
  BY DripAssumption, FS_Interval DEF Numbers
<1>3. IsFiniteSet(Prospects)
  BY DripAssumption
<1>4. IsFiniteSet(Prospects \X Kinds) /\ IsFiniteSet(Numbers \X (1..MaxCopies))
  BY <1>1, <1>2, <1>3, FS_Product
<1>5. IsFiniteSet(pairs)
  BY <1>4, FS_Product
<1>6. flat \in Surjection(pairs, Touches)
  <2>1. \A x \in pairs : flat[x] \in Touches
    BY DEF Touches
  <2>2. ASSUME NEW t \in Touches PROVE \E x \in pairs : flat[x] = t
    <3>1. <<<<t[1], t[2]>>, <<t[3], t[4]>>>> \in pairs
      BY DEF Touches
    <3>2. flat[<<<<t[1], t[2]>>, <<t[3], t[4]>>>>] = t
      BY <3>1 DEF Touches
    <3> QED
      BY <3>1, <3>2
  <2>3. flat \in [pairs -> Touches]
    BY <2>1
  <2> HIDE DEF flat, pairs
  <2> QED
    BY <2>2, <2>3 DEF Surjection
<1> QED
  BY <1>5, <1>6, FS_Surjection

\* A touch moves between statuses that do not count.
LEMMA MarkCountsNothing ==
  ASSUME MailType, NEW t \in Touches, touch[t] \in Uncounted, NEW status \in Uncounted,
         touch' = [touch EXCEPT ![t] = status], contacts' = contacts
  PROVE  CountsNothing
<1>1. \A u \in Touches : touch'[u] = IF u = t THEN status ELSE touch[u]
  BY DEF MailType
<1> QED
  BY <1>1 DEF CountsNothing, Counted, Uncounted, Volume

LEMMA NewTouchCountsNothing ==
  ASSUME MailType, NEW p \in Prospects, NEW k \in Kinds, NEW n \in Numbers,
         NEW status \in Uncounted, NewTouch(p, k, n, status), contacts' = contacts
  PROVE  CountsNothing
<1>1. \E t \in Touches :
          /\ t[1] = p /\ t[2] = k /\ t[3] = n
          /\ touch[t] = "absent"
          /\ touch' = [touch EXCEPT ![t] = status]
          /\ plain' = plain \union {t}
          /\ delivers' = IF status = "drafted" THEN delivers \union {t} ELSE delivers
  BY NewTouchIs
<1>2. PICK t \in Touches : touch[t] = "absent" /\ touch' = [touch EXCEPT ![t] = status]
  BY <1>1
<1> QED
  BY <1>2, MarkCountsNothing DEF Uncounted

LEMMA MarkCounts ==
  ASSUME MailType, NEW t \in Touches, touch[t] \in Uncounted, NEW status,
         status = "sent" \/ (Volume(t) /\ status = "dispatched"),
         touch' = [touch EXCEPT ![t] = status],
         contacts' = [contacts EXCEPT ![EntityOf[t[1]]] = @ + 1]
  PROVE  Counts(t)
<1>1. \A u \in Touches : touch'[u] = IF u = t THEN status ELSE touch[u]
  BY DEF MailType
<1> QED
  BY <1>1 DEF Counts, Counted, Uncounted, Volume

LEMMA WhoCounts ==
  ASSUME TypeOK, Next
  PROVE  CountsNothing \/ \E t \in Touches : Counts(t)
<1>1. MailType
  BY DEF TypeOK
<1>2. ASSUME UNCHANGED <<touch, contacts>> PROVE CountsNothing
  BY <1>2 DEF CountsNothing, Counted
<1>3. ASSUME NEW p \in Prospects, NEW s \in 0..(Steps - 1), ComposeStep(p, s)
      PROVE  CountsNothing
  <2>1. CASE ComposeDrafts(p, s) \/ ComposeParks(p, s)
    <3>1. PICK status \in {"pending_review", "drafted", "pending_human"} :
             NewTouch(p, "step", s, status) /\ contacts' = contacts
      BY <2>1 DEF ComposeDrafts, ComposeParks, drip
    <3> QED
      BY <1>1, <3>1, JobNames, NewTouchCountsNothing DEF Kinds, Uncounted
  <2>2. CASE ComposeReads(p, s) \/ ComposeEscalates(p, s) \/ ComposeStops(p, s)
    BY <1>2, <2>2 DEF ComposeReads, ComposeEscalates, ComposeStops, drip, mail
  <2> QED
    BY <1>3, <2>1, <2>2 DEF ComposeStep
<1>4. ASSUME NEW t \in Touches, Approve(t) \/ Reject(t) \/ TaskDone(t) \/ TaskEnds(t)
      PROVE  CountsNothing \/ Counts(t)
  <2>1. CASE TaskDone(t)
    <3>1. /\ touch[t] \in Uncounted /\ touch' = [touch EXCEPT ![t] = "sent"]
          /\ contacts' = [contacts EXCEPT ![EntityOf[t[1]]] = @ + 1]
      BY <2>1 DEF TaskDone, Uncounted
    <3> QED
      BY <1>1, <3>1, MarkCounts
  <2>2. CASE Approve(t) \/ Reject(t) \/ TaskEnds(t)
    <3>1. PICK status \in Uncounted :
             /\ touch[t] \in Uncounted /\ touch' = [touch EXCEPT ![t] = status]
             /\ contacts' = contacts
      BY <2>2 DEF Approve, Reject, TaskEnds, Uncounted, drip
    <3> QED
      BY <1>1, <3>1, MarkCountsNothing
  <2> QED
    BY <1>4, <2>1, <2>2
<1>5. ASSUME NEW t \in Touches, DeliverStep(t) PROVE CountsNothing \/ Counts(t)
  <2>1. CASE DeliverEnds(t)
    BY <1>2, <2>1 DEF DeliverEnds, drip
  <2>2. CASE DeliverReleases(t)
    <3>1. /\ touch[t] \in Uncounted /\ touch' = [touch EXCEPT ![t] = "released"]
          /\ contacts' = contacts /\ "released" \in Uncounted
      BY <2>2 DEF DeliverReleases, Uncounted, drip
    <3> QED
      BY <1>1, <3>1, MarkCountsNothing
  <2>3. CASE DeliverSends(t) /\ Volume(t)
    <3>1. /\ touch[t] \in Uncounted /\ touch' = [touch EXCEPT ![t] = "dispatched"]
          /\ contacts' = [contacts EXCEPT ![EntityOf[t[1]]] = @ + 1]
      BY <2>3 DEF DeliverSends, Uncounted
    <3> QED
      BY <1>1, <2>3, <3>1, MarkCounts
  <2>4. CASE DeliverSends(t) /\ ~Volume(t)
    <3>1. /\ touch[t] = "drafted" /\ touch' = [touch EXCEPT ![t] = "dispatched"]
          /\ contacts' = contacts
      BY <2>4 DEF DeliverSends
    <3>2. \A u \in Touches : touch'[u] = IF u = t THEN "dispatched" ELSE touch[u]
      BY <1>1, <3>1 DEF MailType
    <3> QED
      BY <2>4, <3>1, <3>2 DEF CountsNothing, Counted, Volume
  <2> QED
    BY <1>5, <2>1, <2>2, <2>3, <2>4 DEF DeliverStep
<1>6. ASSUME NEW p \in Prospects, NEW n \in 1..MaxReplies, ClassifyStep(p, n)
      PROVE  CountsNothing
  <2>1. CASE ClassifyAnswers(p, n)
    <3>1. (NewTouch(p, "answer", n, "drafted") \/ touch' = touch) /\ contacts' = contacts
      BY <2>1 DEF ClassifyAnswers, Classified, mail
    <3>2. NewTouch(p, "answer", n, "drafted") => CountsNothing
      BY <1>1, <3>1, JobNames, NewTouchCountsNothing DEF Kinds, Uncounted
    <3> QED
      BY <1>2, <3>1, <3>2
  <2>2. CASE \/ ClassifyReads(p, n) \/ ClassifyScrubbed(p, n) \/ ClassifyOptsOut(p, n)
             \/ ClassifyDeclines(p, n) \/ ClassifyLeaves(p, n)
    BY <1>2, <2>2 DEF ClassifyReads, ClassifyScrubbed, ClassifyOptsOut, ClassifyDeclines,
                      ClassifyLeaves, Classified, drip, mail
  <2> QED
    BY <1>6, <2>1, <2>2 DEF ClassifyStep
<1>7. ASSUME NEW p \in Prospects, AskStep(p) PROVE CountsNothing
  <2>1. CASE ReferralAsks(p) \/ ReengageDrafts(p)
    <3>1. /\ contacts' = contacts
          /\ \/ \E k \in Kinds, status \in Uncounted : NewTouch(p, k, 0, status)
             \/ touch' = touch
      BY <2>1 DEF ReferralAsks, ReengageDrafts, mail, drip, Kinds, Uncounted
    <3>2. (\E k \in Kinds, status \in Uncounted : NewTouch(p, k, 0, status)) => CountsNothing
      BY <1>1, <3>1, JobNames, NewTouchCountsNothing
    <3> QED
      BY <1>2, <3>1, <3>2
  <2>2. CASE ReferralPasses(p) \/ ReengageReads(p) \/ ReengagePasses(p)
    BY <1>2, <2>2 DEF ReferralPasses, ReengageReads, ReengagePasses, drip, mail
  <2> QED
    BY <1>7, <2>1, <2>2 DEF AskStep
<1>8. ASSUME OutsideStep PROVE CountsNothing
  <2>1. ASSUME NEW p \in Prospects, Reply(p) \/ Exits(p) \/ Converts(p) \/ NoShow(p)
        PROVE  CountsNothing
    BY <1>2, <2>1 DEF Reply, Exits, Converts, NoShow, mail
  <2>2. ASSUME NEW e \in Entities, Forget(e) \/ GapElapses(e) PROVE CountsNothing
    BY <1>2, <2>2 DEF Forget, GapElapses, mail
  <2>3. ASSUME NEW a \in Addresses, SuppressionExpires(a) PROVE CountsNothing
    BY <1>2, <2>3 DEF SuppressionExpires, drip, mail
  <2> QED
    BY <1>8, <2>1, <2>2, <2>3 DEF OutsideStep
<1>9. ASSUME NEW j \in Jobs, Dies(j) PROVE CountsNothing
  BY <1>2, <1>9 DEF Dies, drip, mail
<1> QED
  BY <1>3, <1>4, <1>5, <1>6, <1>7, <1>8, <1>9, NextSteps

\* touches_12mo is exactly the number of emails of the sequence that left to the entity
\* and of tasks done for it: every transaction that makes a touch count adds one, none
\* adds one without, and no job that runs again counts its touch twice (I-7).
THEOREM ContactsAreCounted == Spec => []ContactsCounted
<1>1. ContactsCounted <=> \A e \in Entities : contacts[e] = Cardinality(CountedOf(e))
  BY Zenon DEF ContactsCounted, CountedOf, Counted
<1>2. Init => ContactsCounted
  <2> SUFFICES ASSUME Init, NEW e \in Entities PROVE contacts[e] = Cardinality(CountedOf(e))
    BY <1>1
  <2>1. CountedOf(e) = {}
    BY DEF Init, CountedOf, Counted
  <2> QED
    BY <2>1, FS_EmptySet DEF Init
<1>3. TypeOK /\ ContactsCounted /\ [Next]_vars => ContactsCounted'
  <2> SUFFICES ASSUME TypeOK, ContactsCounted, [Next]_vars, NEW e \in Entities
               PROVE  contacts'[e] = Cardinality(CountedOf(e)')
    BY DEF ContactsCounted, CountedOf, Counted
  <2>1. IsFiniteSet(CountedOf(e)) /\ contacts[e] = Cardinality(CountedOf(e))
    BY <1>1, TouchesFinite, FS_Subset DEF CountedOf
  <2>2. CASE CountsNothing
    <3>1. CountedOf(e)' = CountedOf(e)
      BY <2>2 DEF CountsNothing, CountedOf
    <3> QED
      BY <2>1, <2>2, <3>1 DEF CountsNothing
  <2>3. ASSUME NEW t \in Touches, Counts(t) PROVE contacts'[e] = Cardinality(CountedOf(e)')
    <3>1. contacts \in [Entities -> Nat] /\ EntityOf[t[1]] \in Entities
      BY TouchParts DEF TypeOK, RowsType
    <3>2. CASE EntityOf[t[1]] = e
      <4>1. CountedOf(e)' = CountedOf(e) \union {t} /\ t \notin CountedOf(e)
        BY <2>3, <3>2 DEF Counts, CountedOf
      <4>2. contacts'[e] = contacts[e] + 1
        BY <2>3, <3>1, <3>2 DEF Counts
      <4> QED
        BY <2>1, <4>1, <4>2, FS_AddElement
    <3>3. CASE EntityOf[t[1]] # e
      <4>1. CountedOf(e)' = CountedOf(e)
        BY <2>3, <3>3 DEF Counts, CountedOf
      <4>2. contacts'[e] = contacts[e]
        BY <2>3, <3>1, <3>3 DEF Counts
      <4> QED
        BY <2>1, <4>1, <4>2
    <3> QED
      BY <3>2, <3>3
  <2>4. CASE UNCHANGED vars
    BY <2>2, <2>4 DEF vars, CountsNothing, Counted
  <2> QED
    BY <2>2, <2>3, <2>4, WhoCounts
<1> QED
  BY <1>2, <1>3, TypeCorrect, PTL DEF Spec

----------------------------------------------------------------------------
(* What keeps a drip alive *)

\* A step that a human or the deliver worker will deal with.
OnWay(t) ==
    \/ touch[t] \in {"pending_review", "pending_human"}
    \/ t \in delivers /\ touch[t] = "drafted"

\* The m-th step of p is to be composed, or on its way.
Carried(p, m) ==
    \/ Live(Compose(p, m))
    \/ \E t \in Touches : t[1] = p /\ t[2] = "step" /\ t[3] = m /\ OnWay(t)

\* No step after the m-th was planned.
Foremost(p, m) == \A s \in (m + 1)..(Steps - 1) : job[Compose(p, s)] = "none"

GoesOn(p) == p \in givenUp \/ \E m \in 1..(Steps - 1) : Carried(p, m) /\ Foremost(p, m)

\* A step was drafted by its compose job.  The last step that was planned carries the drip
\* of whoever holds an entity: its key is the only one that a delivery still has to free,
\* so that the compose job of the next step is really inserted.
StepsPlanned ==
    \A t \in Touches : t[2] = "step" /\ Drafted(t) =>
        t[3] \in 0..(Steps - 1) /\ job[Compose(t[1], t[3])] # "none"
Holds(p) == active[EntityOf[p]] = p
CarriedInv ==
    /\ StepsPlanned
    /\ \A e \in Entities : active[e] # None => EntityOf[active[e]] = e
    /\ \A p \in Prospects : Holds(p) => GoesOn(p)

\* What most steps leave alone: the compose jobs, the touches of the steps but for those
\* of p's n-th, and who holds an entity, but that it may let go.
SameComposes(p, n) ==
    \A q \in Prospects, s \in Numbers :
        q # p \/ s # n => job'[Compose(q, s)] = job[Compose(q, s)]
SameSteps(p, n) ==
    \A t \in Touches :
        /\ t[2] = "step"
        /\ t[1] # p \/ t[3] # n
        => touch'[t] = touch[t] /\ (t \in delivers => t \in delivers')
LetsGo == \A e \in Entities : active'[e] \in {active[e], None}

\* A step of the drip that touches p's n-th alone: what was planned stays planned, and the
\* n-th is carried on, or the drip is given up or lets go.
Handles(p, n) ==
    /\ SameComposes(p, n) /\ SameSteps(p, n) /\ LetsGo
    /\ givenUp \subseteq givenUp'
    /\ job[Compose(p, n)] # "none" => job'[Compose(p, n)] # "none"
    /\ job[Compose(p, n)] = "none" => job'[Compose(p, n)] = "none"
    /\ \A t \in Touches :
          t[1] = p /\ t[2] = "step" /\ t[3] = n /\ Drafted(t)'
          => Drafted(t) \/ (n \in 0..(Steps - 1) /\ job[Compose(p, n)] # "none")
    /\ n # 0 /\ Carried(p, n) => Carried(p, n)' \/ p \in givenUp' \/ ~Holds(p)'

LEMMA HandlesKeeps ==
  ASSUME TypeOK, CarriedInv, NEW p \in Prospects, NEW n \in Numbers, Handles(p, n)
  PROVE  CarriedInv'
<1>1. /\ \A q \in Prospects, s \in 0..(Steps - 1) : s \in Numbers
      /\ \A t \in Touches : t[1] \in Prospects /\ t[3] \in Numbers
      /\ \A q \in Prospects : EntityOf[q] \in Entities /\ q # None
  BY JobNames, TouchParts, DripAssumption
<1>2. StepsPlanned'
  <2> SUFFICES ASSUME NEW t \in Touches, t[2] = "step", Drafted(t)'
               PROVE  t[3] \in 0..(Steps - 1) /\ job'[Compose(t[1], t[3])] # "none"
    BY Zenon DEF StepsPlanned, Compose
  <2>1. CASE t[1] = p /\ t[3] = n
    <3>1. Drafted(t) \/ (n \in 0..(Steps - 1) /\ job[Compose(p, n)] # "none")
      BY <2>1 DEF Handles
    <3>2. n \in 0..(Steps - 1) /\ job[Compose(p, n)] # "none"
      BY <2>1, <3>1 DEF CarriedInv, StepsPlanned
    <3> QED
      BY <2>1, <3>2 DEF Handles
  <2>2. CASE t[1] # p \/ t[3] # n
    <3>1. Drafted(t)
      BY <2>2 DEF Handles, SameSteps, Drafted
    <3>2. t[3] \in 0..(Steps - 1) /\ job[Compose(t[1], t[3])] # "none"
      BY <3>1 DEF CarriedInv, StepsPlanned
    <3> QED
      BY <1>1, <2>2, <3>2 DEF Handles, SameComposes
  <2> QED
    BY <2>1, <2>2
<1>3. \A e \in Entities : active'[e] # None => EntityOf[active'[e]] = e
  BY DEF CarriedInv, Handles, LetsGo
<1>4. ASSUME NEW q \in Prospects, Holds(q)' PROVE GoesOn(q)'
  <2>1. Holds(q)
    BY <1>1, <1>4 DEF Handles, LetsGo, Holds
  <2>2. CASE q \in givenUp
    BY <2>2 DEF GoesOn, Handles
  <2>3. ASSUME NEW m \in 1..(Steps - 1), Carried(q, m), Foremost(q, m) PROVE GoesOn(q)'
    <3>1. m \in Numbers /\ m # 0 /\ \A s \in (m + 1)..(Steps - 1) : s \in Numbers
      BY <1>1, DripAssumption
    <3>2. Foremost(q, m)'
      BY <2>3, <3>1 DEF Foremost, Handles, SameComposes
    <3>3. CASE q = p /\ m = n
      BY <1>4, <2>3, <3>1, <3>2, <3>3 DEF Handles, GoesOn
    <3>4. CASE q # p \/ m # n
      <4>1. job'[Compose(q, m)] = job[Compose(q, m)]
        BY <3>1, <3>4 DEF Handles, SameComposes
      <4>2. \A t \in Touches : t[1] = q /\ t[2] = "step" /\ t[3] = m /\ OnWay(t) => OnWay(t)'
        BY <3>4 DEF Handles, SameSteps, OnWay
      <4>3. Carried(q, m)'
        BY <2>3, <4>1, <4>2 DEF Carried, Live
      <4> QED
        BY <3>2, <4>3 DEF GoesOn
    <3> QED
      BY <3>3, <3>4
  <2> QED
    BY <2>1, <2>2, <2>3 DEF CarriedInv, GoesOn
<1> QED
  BY <1>2, <1>3, <1>4 DEF CarriedInv

\* Steps that leave the drip alone, whatever else they do: no compose job, no touch of a
\* step, and nobody takes an entity.
Aside ==
    /\ \A q \in Prospects, s \in Numbers : job'[Compose(q, s)] = job[Compose(q, s)]
    /\ \A t \in Touches :
          t[2] = "step" => touch'[t] = touch[t] /\ (t \in delivers => t \in delivers')
    /\ LetsGo /\ givenUp \subseteq givenUp'

LEMMA AsideHandles ==
  ASSUME NEW p \in Prospects, NEW n \in Numbers, Aside
  PROVE  Handles(p, n)
<1>1. SameComposes(p, n) /\ SameSteps(p, n)
  BY DEF Aside, SameComposes, SameSteps
<1>2. Carried(p, n) => Carried(p, n)'
  BY DEF Aside, Carried, Live, OnWay
<1> QED
  BY <1>1, <1>2 DEF Aside, Handles, Drafted

\* A new touch that is no step.
LEMMA NewTouchAside ==
  ASSUME MailType, NEW p \in Prospects, NEW k \in Kinds, k # "step", NEW n \in Numbers,
         NEW status, NewTouch(p, k, n, status)
  PROVE  \A t \in Touches :
            t[2] = "step" => touch'[t] = touch[t] /\ (t \in delivers => t \in delivers')
<1>1. \E t \in Touches :
          /\ t[1] = p /\ t[2] = k /\ t[3] = n
          /\ touch[t] = "absent"
          /\ touch' = [touch EXCEPT ![t] = status]
          /\ plain' = plain \union {t}
          /\ delivers' = IF status = "drafted" THEN delivers \union {t} ELSE delivers
  BY NewTouchIs
<1> QED
  BY <1>1 DEF MailType

\* The commit of a job that is no compose job, with no compose job in it.
LEMMA CommitsAside ==
  ASSUME JobsType, NEW j \in Jobs, j[1] # "compose",
         NEW new, \A i \in new : i[1] # "compose", Commits(j, new)
  PROVE  \A q \in Prospects, s \in Numbers : job'[Compose(q, s)] = job[Compose(q, s)]
<1> SUFFICES ASSUME NEW q \in Prospects, NEW s \in Numbers
             PROVE  job'[Compose(q, s)] = job[Compose(q, s)]
  OBVIOUS
<1>1. Compose(q, s) \in Jobs /\ Compose(q, s) # j /\ Compose(q, s) \notin new
  BY DEF Compose, Jobs, Queues
<1>2. job' = [Enqueued(new) EXCEPT ![j] = "over"] \/ job' = Enqueued(new)
  BY DEF Commits, Enqueue
<1>3. Enqueued(new)[Compose(q, s)] = job[Compose(q, s)]
  BY <1>1 DEF Enqueued
<1>4. DOMAIN Enqueued(new) = Jobs
  BY DEF Enqueued
<1> QED
  BY <1>1, <1>2, <1>3, <1>4

\* A compose run commits: its job is over or runs again, and the others are as they were.
LEMMA CommitsCompose ==
  ASSUME JobsType, NEW p \in Prospects, NEW n \in Numbers, Commits(Compose(p, n), {})
  PROVE  /\ SameComposes(p, n)
         /\ job'[Compose(p, n)] \in {job[Compose(p, n)], "over"}
<1>1. Compose(p, n) \in Jobs
  BY DEF Compose, Jobs, Queues
<1>2. job' = [Enqueued({}) EXCEPT ![Compose(p, n)] = "over"] \/ job' = Enqueued({})
  BY DEF Commits, Enqueue
<1>3. Enqueued({}) = job
  BY DEF Enqueued, JobsType
<1>4. ASSUME NEW q \in Prospects, NEW s \in Numbers, q # p \/ s # n
      PROVE  job'[Compose(q, s)] = job[Compose(q, s)]
  <2>1. Compose(q, s) \in Jobs /\ Compose(q, s) # Compose(p, n)
    BY <1>4 DEF Compose, Jobs, Queues
  <2> QED
    BY <1>2, <1>3, <2>1 DEF JobsType
<1> QED
  BY <1>1, <1>2, <1>3, <1>4 DEF SameComposes, JobsType

\* A step is drafted, held for review, or parked in a task: it is on its way.
LEMMA NewStepHandles ==
  ASSUME TypeOK, NEW p \in Prospects, NEW n \in 0..(Steps - 1),
         NEW status \in {"drafted", "pending_review", "pending_human"},
         NewTouch(p, "step", n, status), Live(Compose(p, n)), Commits(Compose(p, n), {}),
         UNCHANGED <<active, givenUp>>
  PROVE  Handles(p, n)
<1>1. n \in Numbers /\ "step" \in Kinds /\ MailType /\ JobsType
  BY JobNames DEF TypeOK, Kinds
<1>2. \E t \in Touches :
          /\ t[1] = p /\ t[2] = "step" /\ t[3] = n
          /\ touch[t] = "absent"
          /\ touch' = [touch EXCEPT ![t] = status]
          /\ plain' = plain \union {t}
          /\ delivers' = IF status = "drafted" THEN delivers \union {t} ELSE delivers
  BY <1>1, NewTouchIs
<1>3. PICK t \in Touches :
          /\ t[1] = p /\ t[2] = "step" /\ t[3] = n
          /\ touch' = [touch EXCEPT ![t] = status]
          /\ delivers' = IF status = "drafted" THEN delivers \union {t} ELSE delivers
  BY <1>2
<1>4. SameComposes(p, n) /\ job'[Compose(p, n)] \in {job[Compose(p, n)], "over"}
  BY <1>1, CommitsCompose
<1>5. SameSteps(p, n)
  BY <1>1, <1>3 DEF SameSteps, MailType
<1>6. Carried(p, n)'
  <2>1. OnWay(t)'
    BY <1>1, <1>3 DEF OnWay, MailType
  <2> QED
    BY <1>3, <2>1 DEF Carried
<1> QED
  BY <1>4, <1>5, <1>6 DEF Handles, LetsGo, Live

\* A compose run ends without a draft: the drip is given up, or lets go, or has not begun.
LEMMA NoStepHandles ==
  ASSUME TypeOK, NEW p \in Prospects, NEW n \in Numbers,
         SameComposes(p, n), Live(Compose(p, n)),
         job'[Compose(p, n)] \in {job[Compose(p, n)], "over"},
         UNCHANGED mail, LetsGo, givenUp \subseteq givenUp',
         n = 0 \/ p \in givenUp' \/ ~Holds(p)'
  PROVE  Handles(p, n)
  BY DEF Handles, SameSteps, Live, mail, Drafted

\* A touch that exists changes: the step is still on its way, or the drip is given up.
LEMMA TouchHandles ==
  ASSUME TypeOK, NEW t \in Touches, Drafted(t), t[2] = "step",
         job' = job, UNCHANGED active, givenUp \subseteq givenUp',
         \A u \in Touches : u # t => touch'[u] = touch[u] /\ (u \in delivers => u \in delivers'),
         OnWay(t)' \/ t[1] \in givenUp' \/ t[3] = 0 \/ ~OnWay(t)
  PROVE  Handles(t[1], t[3])
<1>1. SameComposes(t[1], t[3]) /\ SameSteps(t[1], t[3]) /\ LetsGo
  BY DEF SameComposes, SameSteps, LetsGo
<1>2. t[3] # 0 /\ Carried(t[1], t[3]) => Carried(t[1], t[3])' \/ t[1] \in givenUp'
  <2> SUFFICES ASSUME t[3] # 0, Carried(t[1], t[3]), t[1] \notin givenUp'
               PROVE  Carried(t[1], t[3])'
    OBVIOUS
  <2>1. CASE Live(Compose(t[1], t[3]))
    BY <2>1 DEF Carried, Live
  <2>2. ASSUME NEW u \in Touches, u[1] = t[1], u[2] = "step", u[3] = t[3], OnWay(u)
        PROVE  Carried(t[1], t[3])'
    <3>1. OnWay(u)'
      BY <2>2 DEF OnWay
    <3> QED
      BY <2>2, <3>1 DEF Carried
  <2> QED
    BY <2>1, <2>2 DEF Carried
<1>3. \A u \in Touches : Drafted(u)' => Drafted(u)
  BY DEF Drafted
<1> QED
  BY <1>1, <1>2, <1>3 DEF Handles

LEMMA ComposeHandles ==
  ASSUME TypeOK, NEW p \in Prospects, NEW s \in 0..(Steps - 1), ComposeStep(p, s)
  PROVE  Handles(p, s)
<1> DEFINE j == Compose(p, s)
<1>1. /\ s \in Numbers /\ j \in Jobs /\ MailType /\ JobsType /\ RowsType
      /\ (run[j] # "idle" => Live(j))
      /\ EntityOf[p] \in Entities /\ p # None
  BY JobNames, DripAssumption DEF TypeOK, JobsType
<1>2. CASE ComposeReads(p, s)
  <2>1. Aside
    BY <1>2 DEF ComposeReads, Waits, Aside, LetsGo, drip, mail
  <2> QED
    BY <1>1, <2>1, AsideHandles
<1>3. CASE ComposeDrafts(p, s) \/ ComposeParks(p, s)
  <2>1. PICK status \in {"drafted", "pending_review", "pending_human"} :
           NewTouch(p, "step", s, status)
    BY <1>3 DEF ComposeDrafts, ComposeParks
  <2>2. Live(j) /\ Commits(j, {}) /\ UNCHANGED <<active, givenUp>>
    BY <1>1, <1>3 DEF ComposeDrafts, ComposeParks, drip
  <2> QED
    BY <2>1, <2>2, NewStepHandles
<1>4. CASE ComposeEscalates(p, s)
  <2>1. /\ Live(j) /\ Commits(j, {}) /\ UNCHANGED mail /\ LetsGo
        /\ givenUp' = givenUp \union {p}
    BY <1>1, <1>4 DEF ComposeEscalates, LetsGo, drip
  <2>2. SameComposes(p, s) /\ job'[j] \in {job[j], "over"}
    BY <1>1, <2>1, CommitsCompose
  <2> QED
    BY <1>1, <2>1, <2>2, NoStepHandles
<1>5. CASE ComposeStops(p, s)
  <2>1. /\ Live(j) /\ Commits(j, {}) /\ UNCHANGED <<mail, givenUp>>
        /\ active' = IF s = 0 THEN active ELSE Released(p)
    BY <1>5 DEF ComposeStops
  <2>2. SameComposes(p, s) /\ job'[j] \in {job[j], "over"}
    BY <1>1, <2>1, CommitsCompose
  <2>3. LetsGo
    BY <1>1, <2>1 DEF LetsGo, Released, RowsType
  <2>4. s = 0 \/ ~Holds(p)'
    BY <1>1, <2>1 DEF Holds, Released, RowsType
  <2> QED
    BY <1>1, <2>1, <2>2, <2>3, <2>4, NoStepHandles
<1> QED
  BY <1>2, <1>3, <1>4, <1>5 DEF ComposeStep

\* A human, or the deliver worker but for a send, deals with t.
LEMMA MarkHandles ==
  ASSUME TypeOK, NEW t \in Touches,
         DeliverStep(t) \/ Approve(t) \/ Reject(t) \/ TaskDone(t) \/ TaskEnds(t),
         ~(DeliverSends(t) /\ Volume(t))
  PROVE  Aside \/ (t[2] = "step" /\ Handles(t[1], t[3]))
<1>1. /\ MailType /\ UNCHANGED <<job, active>> /\ givenUp \subseteq givenUp'
      /\ Drafted(t)
  BY DEF TypeOK, MailType, DeliverStep, DeliverSends, DeliverReleases, DeliverEnds, Approve, Reject,
         TaskDone, TaskEnds, GiveUp, drip, jobs, Drafted
<1>2. PICK status : touch' = [touch EXCEPT ![t] = status] \/ touch' = touch
  BY DEF DeliverStep, DeliverSends, DeliverReleases, DeliverEnds, Approve, Reject, TaskDone,
         TaskEnds
<1>3. delivers \ {t} \subseteq delivers'
  BY DEF DeliverStep, DeliverSends, DeliverReleases, DeliverEnds, DeliverCommits, Approve, Reject,
         TaskDone, TaskEnds
<1>4. \A u \in Touches : u # t => touch'[u] = touch[u] /\ (u \in delivers => u \in delivers')
  BY <1>1, <1>2, <1>3 DEF MailType
<1>5. CASE t[2] # "step"
  BY <1>1, <1>4, <1>5 DEF Aside, LetsGo
<1>6. CASE t[2] = "step"
  <2>1. OnWay(t)' \/ t[1] \in givenUp' \/ t[3] = 0 \/ ~OnWay(t)
    <3>1. CASE Approve(t)
      BY <1>1, <3>1 DEF Approve, OnWay, MailType
    <3>2. CASE Reject(t) \/ TaskDone(t) \/ TaskEnds(t)
      BY <1>6, <3>2 DEF Reject, TaskDone, TaskEnds, GiveUp
    <3>3. CASE DeliverReleases(t)
      BY <1>6, <3>3 DEF DeliverReleases, GiveUp
    <3>4. CASE DeliverEnds(t)
      BY <1>6, <3>4 DEF DeliverEnds, GiveUp, OnWay
    <3> QED
      BY <1>6, <3>1, <3>2, <3>3, <3>4 DEF DeliverStep, Volume
  <2> QED
    BY <1>1, <1>4, <1>6, <2>1, TouchHandles
<1> QED
  BY <1>5, <1>6

LEMMA ClassifyAside ==
  ASSUME TypeOK, NEW p \in Prospects, NEW n \in 1..MaxReplies, ClassifyStep(p, n)
  PROVE  Aside
<1> DEFINE j == Classify(p, n)
<1>1. /\ j \in Jobs /\ j[1] # "compose" /\ n \in Numbers /\ MailType /\ JobsType /\ RowsType
      /\ EntityOf[p] \in Entities
  BY JobNames, DripAssumption DEF TypeOK, Classify
<1>2. CASE ClassifyReads(p, n)
  BY <1>2 DEF ClassifyReads, Waits, Aside, LetsGo, drip, mail
<1>3. CASE ClassifyScrubbed(p, n)
  <2>1. Commits(j, {}) /\ UNCHANGED <<drip, mail, givenUp>>
    BY <1>3 DEF ClassifyScrubbed
  <2>2. \A q \in Prospects, s \in Numbers : job'[Compose(q, s)] = job[Compose(q, s)]
    BY <1>1, <2>1, CommitsAside
  <2> QED
    BY <2>1, <2>2 DEF Aside, LetsGo, drip, mail
<1>4. CASE \/ ClassifyOptsOut(p, n) \/ ClassifyDeclines(p, n) \/ ClassifyAnswers(p, n)
           \/ ClassifyLeaves(p, n)
  <2>1. PICK new \in {{}, {<<"referral", p, 0>>}} :
           Commits(j, new) /\ active' = Released(p) /\ givenUp' = givenUp
    BY <1>4 DEF ClassifyOptsOut, ClassifyDeclines, ClassifyAnswers, ClassifyLeaves, Classified
  <2>2. \A q \in Prospects, s \in Numbers : job'[Compose(q, s)] = job[Compose(q, s)]
    <3>1. \A i \in new : i[1] # "compose"
      OBVIOUS
    <3> QED
      BY <1>1, <2>1, <3>1, CommitsAside
  <2>3. LetsGo
    BY <1>1, <2>1 DEF LetsGo, Released, RowsType
  <2>4. \A t \in Touches :
           t[2] = "step" => touch'[t] = touch[t] /\ (t \in delivers => t \in delivers')
    <3>1. NewTouch(p, "answer", n, "drafted") \/ UNCHANGED mail
      BY <1>4 DEF ClassifyOptsOut, ClassifyDeclines, ClassifyAnswers, ClassifyLeaves
    <3>2. CASE NewTouch(p, "answer", n, "drafted")
      BY <1>1, <3>2, NewTouchAside DEF Kinds
    <3> QED
      BY <3>1, <3>2 DEF mail
  <2> QED
    BY <2>1, <2>2, <2>3, <2>4 DEF Aside
<1> QED
  BY <1>2, <1>3, <1>4 DEF ClassifyStep

LEMMA AskAside ==
  ASSUME TypeOK, NEW p \in Prospects, AskStep(p)
  PROVE  Aside
<1> DEFINE r == <<"referral", p, 0>>
           g == <<"reengage", p, 0>>
<1>1. r \in Jobs /\ g \in Jobs /\ 0 \in Numbers /\ MailType /\ JobsType /\ RowsType
  BY JobNames DEF TypeOK
<1>2. CASE ReengageReads(p)
  BY <1>2 DEF ReengageReads, Waits, Aside, LetsGo, drip, mail
<1>3. CASE ReferralAsks(p) \/ ReferralPasses(p) \/ ReengageDrafts(p) \/ ReengagePasses(p)
  <2>1. /\ Commits(r, {}) \/ Commits(g, {})
        /\ UNCHANGED <<active, givenUp>>
    BY <1>3 DEF ReferralAsks, ReferralPasses, ReengageDrafts, ReengagePasses, drip
  <2>2. \A q \in Prospects, s \in Numbers : job'[Compose(q, s)] = job[Compose(q, s)]
    <3>1. r[1] # "compose" /\ g[1] # "compose"
      OBVIOUS
    <3> HIDE DEF r, g
    <3> QED
      BY <1>1, <2>1, <3>1, CommitsAside
  <2>3. \A t \in Touches :
           t[2] = "step" => touch'[t] = touch[t] /\ (t \in delivers => t \in delivers')
    <3>1. \/ \E k \in {"referral", "reengage"}, status \in TouchStates : NewTouch(p, k, 0, status)
          \/ UNCHANGED mail
      BY <1>3 DEF ReferralAsks, ReferralPasses, ReengageDrafts, ReengagePasses, TouchStates
    <3>2. ASSUME NEW k \in {"referral", "reengage"}, NEW status \in TouchStates,
                 NewTouch(p, k, 0, status)
          PROVE  \A t \in Touches :
                    t[2] = "step" => touch'[t] = touch[t] /\ (t \in delivers => t \in delivers')
      BY <1>1, <3>2, NewTouchAside DEF Kinds
    <3> QED
      BY <3>1, <3>2 DEF mail
  <2> QED
    BY <2>1, <2>2, <2>3 DEF Aside, LetsGo
<1> QED
  BY <1>2, <1>3 DEF AskStep

LEMMA OutsideAside ==
  ASSUME TypeOK, OutsideStep
  PROVE  Aside
<1> DEFINE others == {"classify", "referral", "reengage"} \X Prospects \X Numbers
<1>1. JobsType
  BY DEF TypeOK
<1>2. ASSUME NEW js, \A i \in js : i[1] # "compose", Enqueue(js)
      PROVE  \A q \in Prospects, s \in Numbers : job'[Compose(q, s)] = job[Compose(q, s)]
  BY <1>1, <1>2 DEF Enqueue, Enqueued, Compose, Jobs, Queues
<1>3. ASSUME NEW p \in Prospects, Reply(p) \/ Exits(p) \/ Converts(p) \/ NoShow(p) PROVE Aside
  <2>1. UNCHANGED <<active, mail, givenUp>>
    BY <1>3 DEF Reply, Exits, Converts, NoShow
  <2>2. job' = job \/ \E i \in others : Enqueue({i})
    <3>1. \A n \in 1..MaxReplies : Classify(p, n) \in others
      BY JobNames DEF Classify
    <3>2. CASE Reply(p)
      BY <3>1, <3>2 DEF Reply
    <3>3. CASE Exits(p) \/ Converts(p) \/ NoShow(p)
      BY <3>3, JobNames DEF Exits, Converts, NoShow, jobs
    <3> QED
      BY <1>3, <3>2, <3>3
  <2>3. \A q \in Prospects, s \in Numbers : job'[Compose(q, s)] = job[Compose(q, s)]
    <3>1. ASSUME NEW i \in others, Enqueue({i})
          PROVE  \A q \in Prospects, s \in Numbers : job'[Compose(q, s)] = job[Compose(q, s)]
      <4>1. \A k \in {i} : k[1] # "compose"
        OBVIOUS
      <4> QED
        BY <1>2, <3>1, <4>1
    <3> QED
      BY <2>2, <3>1
  <2> QED
    BY <2>1, <2>3 DEF Aside, LetsGo, mail
<1>4. ASSUME NEW e \in Entities, Forget(e) PROVE Aside
  BY <1>4 DEF Forget, Aside, LetsGo, jobs
<1>5. ASSUME NEW e \in Entities, GapElapses(e) PROVE Aside
  BY <1>5 DEF GapElapses, Aside, LetsGo, jobs, mail
<1>6. ASSUME NEW a \in Addresses, SuppressionExpires(a) PROVE Aside
  BY <1>6 DEF SuppressionExpires, Aside, LetsGo, drip, jobs, mail
<1> QED
  BY <1>3, <1>4, <1>5, <1>6 DEF OutsideStep

LEMMA DiesHandles ==
  ASSUME TypeOK, NEW j \in Jobs, Dies(j)
  PROVE  Aside \/ \E p \in Prospects, n \in Numbers : Handles(p, n)
<1>1. /\ UNCHANGED <<active, touch, delivers>> /\ givenUp \subseteq givenUp'
      /\ job' = [job EXCEPT ![j] = "over"] /\ Live(j) /\ JobsType
  BY DEF Dies, drip, mail, TypeOK
<1>2. CASE j[1] # "compose"
  <2>1. \A q \in Prospects, s \in Numbers : job'[Compose(q, s)] = job[Compose(q, s)]
    BY <1>1, <1>2 DEF Compose, JobsType
  <2> QED
    BY <1>1, <2>1 DEF Aside, LetsGo
<1>3. CASE j[1] = "compose"
  <2>1. PICK p \in Prospects, n \in Numbers : j = Compose(p, n)
    BY <1>3 DEF Jobs, Compose
  <2>2. SameComposes(p, n) /\ job'[j] = "over"
    BY <1>1, <2>1 DEF SameComposes, Compose, JobsType, Jobs
  <2>3. p \in givenUp' /\ UNCHANGED mail /\ LetsGo
    BY <1>3, <2>1 DEF Dies, Compose, LetsGo, drip
  <2>4. Handles(p, n)
    BY <1>1, <2>1, <2>2, <2>3, NoStepHandles
  <2> QED
    BY <2>4
<1> QED
  BY <1>2, <1>3

\* A step leaves.  It plans the next one, and the drip goes on with that, unless a later
\* step carries it already; a second opener that finds a key used up gives it up.
LEMMA SendsKeeps ==
  ASSUME TypeOK, CarriedInv, NEW t \in Touches, DeliverSends(t), Volume(t)
  PROVE  CarriedInv'
<1> DEFINE p == t[1]
           n == t[3]
           e == EntityOf[p]
           last == n + 1 >= Steps
<1>1. /\ MailType /\ JobsType /\ RowsType
      /\ p \in Prospects /\ e \in Entities /\ n \in Numbers /\ n \in Nat /\ Steps \in Nat
      /\ \A q \in Prospects : EntityOf[q] \in Entities /\ q # None
      /\ \A q \in Prospects, s \in 0..(Steps - 1) : s \in Numbers /\ Compose(q, s) \in Jobs
  <2>1. p \in Prospects /\ e \in Entities /\ n \in Numbers /\ MailType /\ JobsType /\ RowsType
    BY TouchParts DEF TypeOK
  <2>2. Steps \in Nat /\ \A i \in Numbers : i \in Nat
    BY DripAssumption DEF Numbers
  <2>3. \A q \in Prospects : EntityOf[q] \in Entities /\ q # None
    BY DripAssumption
  <2> QED
    BY <2>1, <2>2, <2>3, JobNames
<1>2. /\ t \in delivers /\ touch[t] = "drafted" /\ touch' = [touch EXCEPT ![t] = "dispatched"]
      /\ active' = [active EXCEPT ![e] = IF last THEN None ELSE p]
      /\ Enqueue(IF last THEN {} ELSE {Compose(p, n + 1)})
      /\ givenUp' = IF ~last /\ n = 0 /\ UsedUp(p) THEN givenUp \union {p} ELSE givenUp
      /\ IF n = 0 THEN active[e] = None ELSE active[e] = p
  BY DEF DeliverSends, Sendable, FrequencyOk, Volume
<1>3. delivers \ {t} \subseteq delivers'
  BY DEF DeliverSends, DeliverCommits
<1>4. n \in 0..(Steps - 1) /\ job[Compose(p, n)] # "none"
  BY <1>2 DEF CarriedInv, StepsPlanned, Drafted, Volume
<1>5. ASSUME NEW q \in Prospects, NEW s \in 0..(Steps - 1)
      PROVE  job'[Compose(q, s)] =
                IF q = p /\ s = n + 1 /\ job[Compose(q, s)] = "none" THEN "live"
                ELSE job[Compose(q, s)]
  BY <1>1, <1>2 DEF Enqueue, Enqueued, Compose
<1>6. StepsPlanned'
  <2> SUFFICES ASSUME NEW u \in Touches, u[2] = "step", Drafted(u)'
               PROVE  u[3] \in 0..(Steps - 1) /\ job'[Compose(u[1], u[3])] # "none"
    BY Zenon DEF StepsPlanned, Compose
  <2>1. Drafted(u) /\ u[1] \in Prospects
    BY <1>1, <1>2, TouchParts DEF MailType, Drafted
  <2>2. u[3] \in 0..(Steps - 1) /\ job[Compose(u[1], u[3])] # "none"
    BY <2>1 DEF CarriedInv, StepsPlanned
  <2> QED
    BY <1>5, <2>1, <2>2
<1>7. \A f \in Entities : active'[f] # None => EntityOf[active'[f]] = f
  BY <1>1, <1>2 DEF CarriedInv, RowsType
\* Nothing but t changes, and no key becomes free.
<1>8. ASSUME NEW q \in Prospects, NEW m \in 1..(Steps - 1), Carried(q, m), q # p \/ m # n
      PROVE  Carried(q, m)'
  <2>1. CASE Live(Compose(q, m))
    BY <1>1, <1>5, <2>1 DEF Carried, Live
  <2>2. ASSUME NEW u \in Touches, u[1] = q, u[2] = "step", u[3] = m, OnWay(u)
        PROVE  Carried(q, m)'
    <3>1. u # t
      BY <1>8, <2>2
    <3>2. OnWay(u)'
      BY <1>1, <1>2, <1>3, <2>2, <3>1 DEF OnWay, MailType
    <3> QED
      BY <2>2, <3>2 DEF Carried
  <2> QED
    BY <1>8, <2>1, <2>2 DEF Carried
<1>9. ASSUME NEW q \in Prospects, q # p, Holds(q)' PROVE GoesOn(q)'
  <2>1. Holds(q)
    BY <1>1, <1>2, <1>9 DEF Holds, RowsType
  <2>2. CASE q \in givenUp
    BY <1>2, <2>2 DEF GoesOn
  <2>3. ASSUME NEW m \in 1..(Steps - 1), Carried(q, m), Foremost(q, m) PROVE GoesOn(q)'
    <3>1. \A s \in (m + 1)..(Steps - 1) : s \in 0..(Steps - 1)
      BY <1>1
    <3>2. Foremost(q, m)'
      BY <1>5, <1>9, <2>3, <3>1 DEF Foremost
    <3> QED
      BY <1>8, <1>9, <2>3, <3>2 DEF GoesOn
  <2> QED
    BY <2>1, <2>2, <2>3 DEF CarriedInv, GoesOn
<1>10. ASSUME Holds(p)' PROVE GoesOn(p)'
  <2>1. ~last
    BY <1>1, <1>2, <1>10 DEF Holds, RowsType
  <2>2. CASE n = 0 /\ UsedUp(p)
    BY <1>2, <2>1, <2>2 DEF GoesOn
  <2>3. CASE n = 0 /\ ~UsedUp(p)
    <3> DEFINE Ahead == {k \in Nat : k < Steps - 1 /\ Live(Compose(p, (Steps - 1) - k))'}
    <3>1. \A s \in 1..(Steps - 1) : job[Compose(p, s)] \in {"none", "live"}
      BY <1>1, <2>3 DEF UsedUp, JobsType
    <3>2. \A s \in 1..(Steps - 1) : job'[Compose(p, s)] \in {"none", "live"}
      BY <1>1, <1>5, <3>1
    <3>3. Live(Compose(p, 1))'
      BY <1>1, <1>5, <2>1, <2>3, <3>1 DEF Live
    <3>4. Steps - 2 \in Ahead
      BY <1>1, <2>1, <2>3, <3>3
    <3>5. PICK k \in Ahead : \A i \in Ahead : k <= i
      <4> HIDE DEF Ahead
      <4>1. Ahead \in SUBSET Nat
        BY DEF Ahead
      <4> QED
        BY <3>4, <4>1, LeastElement
    <3> DEFINE m == (Steps - 1) - k
    <3>6. m \in 1..(Steps - 1) /\ Carried(p, m)'
      BY <1>1, <3>5 DEF Carried
    <3>7. Foremost(p, m)'
      <4> SUFFICES ASSUME NEW s \in (m + 1)..(Steps - 1) PROVE job'[Compose(p, s)] = "none"
        BY DEF Foremost, Compose
      <4>1. (Steps - 1) - s \in Nat /\ (Steps - 1) - s < k /\ (Steps - 1) - s < Steps - 1
            /\ (Steps - 1) - ((Steps - 1) - s) = s /\ s \in 1..(Steps - 1)
        BY <1>1, <3>6
      <4>2. ~Live(Compose(p, s))'
        BY <3>5, <4>1
      <4> QED
        BY <3>2, <4>1, <4>2 DEF Live
    <3> QED
      BY <3>6, <3>7 DEF GoesOn
  <2>4. CASE n # 0
    <3>1. Holds(p)
      BY <1>2, <2>4 DEF Holds
    <3>2. CASE p \in givenUp
      BY <1>2, <3>2 DEF GoesOn
    <3>3. ASSUME NEW m \in 1..(Steps - 1), Carried(p, m), Foremost(p, m) PROVE GoesOn(p)'
      <4>1. n <= m
        BY <1>1, <1>4, <3>3 DEF Foremost
      <4>2. CASE n < m
        <5>1. Foremost(p, m)'
          BY <1>1, <1>5, <3>3, <4>2 DEF Foremost
        <5> QED
          BY <1>1, <1>8, <3>3, <4>2, <5>1 DEF GoesOn
      <4>3. CASE n = m
        <5>1. n + 1 \in 1..(Steps - 1) /\ job[Compose(p, n + 1)] = "none"
          BY <1>1, <2>1, <3>3, <4>3 DEF Foremost
        <5>2. Carried(p, n + 1)'
          BY <1>1, <1>5, <5>1 DEF Carried, Live
        <5>3. Foremost(p, n + 1)'
          BY <1>1, <1>5, <3>3, <4>3 DEF Foremost
        <5> QED
          BY <5>1, <5>2, <5>3 DEF GoesOn
      <4> QED
        BY <1>1, <4>1, <4>2, <4>3
    <3> QED
      BY <1>1, <3>1, <3>2, <3>3 DEF CarriedInv, GoesOn
  <2> QED
    BY <2>2, <2>3, <2>4
<1> QED
  BY <1>6, <1>7, <1>9, <1>10 DEF CarriedInv

LEMMA CarriedStep ==
  ASSUME TypeOK, CarriedInv, [Next]_vars
  PROVE  CarriedInv'
<1>1. ASSUME Aside PROVE CarriedInv'
  <2>1. CASE Prospects = {}
    <3>1. Touches = {}
      BY <2>1 DEF Touches
    <3> QED
      BY <1>1, <2>1, <3>1 DEF CarriedInv, StepsPlanned, Aside, LetsGo
  <2>2. ASSUME NEW p \in Prospects PROVE CarriedInv'
    BY <1>1, <2>2, JobNames, AsideHandles, HandlesKeeps
  <2> QED
    BY <2>1, <2>2
<1>2. ASSUME NEW p \in Prospects, NEW s \in 0..(Steps - 1), ComposeStep(p, s) PROVE CarriedInv'
  BY <1>2, JobNames, ComposeHandles, HandlesKeeps
<1>3. ASSUME NEW t \in Touches,
             DeliverStep(t) \/ Approve(t) \/ Reject(t) \/ TaskDone(t) \/ TaskEnds(t)
      PROVE  CarriedInv'
  <2>1. CASE DeliverSends(t) /\ Volume(t)
    BY <2>1, SendsKeeps
  <2>2. CASE ~(DeliverSends(t) /\ Volume(t))
    BY <1>1, <1>3, <2>2, TouchParts, MarkHandles, HandlesKeeps
  <2> QED
    BY <2>1, <2>2
<1>4. ASSUME NEW j \in Jobs, Dies(j) PROVE CarriedInv'
  BY <1>1, <1>4, DiesHandles, HandlesKeeps
<1>5. CASE UNCHANGED vars
  BY <1>1, <1>5 DEF vars, Aside, LetsGo
<1> QED
  BY <1>1, <1>2, <1>3, <1>4, <1>5, NextSteps, ClassifyAside, AskAside, OutsideAside

\* Whoever holds an entity has something to come that will release it, or its drip was
\* left where it was: a compose, a delivery, an approval, a task, an escalation, a dead
\* job and a job run again each end in the next step, a release or a recorded end.
THEOREM DripIsAccounted == Spec => []DripAccounted
<1>1. Init => CarriedInv
  BY DripAssumption DEF Init, CarriedInv, StepsPlanned, Drafted, Holds
<1>2. TypeOK /\ CarriedInv /\ [Next]_vars => CarriedInv'
  BY CarriedStep
<1>3. TypeOK /\ CarriedInv => DripAccounted
  <2> SUFFICES ASSUME TypeOK, CarriedInv, NEW e \in Entities, active[e] # None
               PROVE  \/ Moving(active[e]) \/ OnHuman(active[e]) \/ active[e] \in givenUp
    BY DEF DripAccounted
  <2> DEFINE p == active[e]
  <2>1. p \in Prospects /\ Holds(p)
    BY DEF TypeOK, RowsType, CarriedInv, Holds
  <2>2. ASSUME NEW m \in 1..(Steps - 1), Carried(p, m) PROVE Moving(p) \/ OnHuman(p)
    <3>1. CASE Live(Compose(p, m))
      BY <3>1 DEF Moving
    <3>2. ASSUME NEW t \in Touches, t[1] = p, t[2] = "step", OnWay(t)
          PROVE  Moving(p) \/ OnHuman(p)
      BY <3>2 DEF OnWay, Moving, OnHuman
    <3> QED
      BY <2>2, <3>1, <3>2 DEF Carried
  <2> QED
    BY <2>1, <2>2 DEF CarriedInv, GoesOn
<1> QED
  BY <1>1, <1>2, <1>3, TypeCorrect, PTL DEF Spec

----------------------------------------------------------------------------
(* The life cycle *)

\* What a step does to the rows of the prospects: a transition of one, or a deletion.
RowsStep ==
    \/ UNCHANGED pstate
    \/ \E p \in Prospects, target \in DOMAIN Allowed : Transition(p, target)
    \/ \E own \in SUBSET Prospects :
          pstate' = [p \in Prospects |-> IF p \in own THEN "forgotten" ELSE pstate[p]]

LEMMA RowsMove ==
  ASSUME Next
  PROVE  RowsStep
<1>1. /\ {"contacted", "engaged", "converted"} \subseteq DOMAIN Allowed
      /\ {"bounced", "declined", "unsubscribed"} \subseteq DOMAIN Allowed
  BY DEF Allowed
<1>2. ASSUME NEW p \in Prospects, NEW s \in 0..(Steps - 1), ComposeStep(p, s)
      PROVE  UNCHANGED pstate
  BY <1>2 DEF ComposeStep, ComposeReads, ComposeDrafts, ComposeEscalates, ComposeParks,
              ComposeStops, drip
<1>3. ASSUME NEW t \in Touches, Approve(t) \/ Reject(t) \/ TaskDone(t) \/ TaskEnds(t)
      PROVE  UNCHANGED pstate
  BY <1>3 DEF Approve, Reject, TaskDone, TaskEnds, drip
<1>4. ASSUME NEW t \in Touches, DeliverStep(t) PROVE RowsStep
  <2>1. CASE DeliverReleases(t) \/ DeliverEnds(t)
    BY <2>1 DEF DeliverReleases, DeliverEnds, drip, RowsStep
  <2>2. CASE DeliverSends(t)
    <3>1. Transition(t[1], "contacted") /\ t[1] \in Prospects
      BY <2>2, TouchParts DEF DeliverSends
    <3> QED
      BY <1>1, <3>1 DEF RowsStep
  <2> QED
    BY <1>4, <2>1, <2>2 DEF DeliverStep
<1>5. ASSUME NEW p \in Prospects, NEW n \in 1..MaxReplies, ClassifyStep(p, n) PROVE RowsStep
  <2>1. CASE ClassifyOptsOut(p, n)
    BY <1>1, <2>1 DEF ClassifyOptsOut, RowsStep
  <2>2. CASE ClassifyDeclines(p, n)
    BY <1>1, <2>2 DEF ClassifyDeclines, RowsStep
  <2>3. CASE \/ ClassifyReads(p, n) \/ ClassifyScrubbed(p, n) \/ ClassifyAnswers(p, n)
             \/ ClassifyLeaves(p, n)
    BY <2>3 DEF ClassifyReads, ClassifyScrubbed, ClassifyAnswers, ClassifyLeaves, Classified,
                drip, RowsStep
  <2> QED
    BY <1>5, <2>1, <2>2, <2>3 DEF ClassifyStep
<1>6. ASSUME NEW p \in Prospects, AskStep(p) PROVE UNCHANGED pstate
  BY <1>6 DEF AskStep, ReferralAsks, ReferralPasses, ReengageReads, ReengageDrafts,
              ReengagePasses, drip
<1>7. ASSUME OutsideStep PROVE RowsStep
  <2>1. ASSUME NEW p \in Prospects, Reply(p) PROVE RowsStep
    BY <1>1, <2>1 DEF Reply, RowsStep
  <2>2. ASSUME NEW p \in Prospects, Exits(p) PROVE RowsStep
    <3>1. PICK target \in {"bounced", "declined", "unsubscribed"} : Transition(p, target)
      BY <2>2 DEF Exits
    <3> QED
      BY <1>1, <3>1 DEF RowsStep
  <2>3. ASSUME NEW p \in Prospects, Converts(p) PROVE RowsStep
    BY <1>1, <2>3 DEF Converts, RowsStep
  <2>4. ASSUME NEW p \in Prospects, NoShow(p) PROVE RowsStep
    <3>1. UNCHANGED pstate \/ Transition(p, "declined")
      BY <2>4 DEF NoShow
    <3> QED
      BY <1>1, <3>1 DEF RowsStep
  <2>5. ASSUME NEW e \in Entities, Forget(e) PROVE RowsStep
    <3> DEFINE own == {p \in Prospects : EntityOf[p] = e}
    <3>1. /\ pstate' = [p \in Prospects |-> IF p \in own THEN "forgotten" ELSE pstate[p]]
          /\ own \in SUBSET Prospects
      BY <2>5 DEF Forget
    <3> QED
      BY <3>1 DEF RowsStep
  <2>6. ASSUME NEW e \in Entities, GapElapses(e) PROVE RowsStep
    BY <2>6 DEF GapElapses, RowsStep
  <2>7. ASSUME NEW a \in Addresses, SuppressionExpires(a) PROVE RowsStep
    BY <2>7 DEF SuppressionExpires, drip, RowsStep
  <2> QED
    BY <1>7, <2>1, <2>2, <2>3, <2>4, <2>5, <2>6, <2>7 DEF OutsideStep
<1>8. ASSUME NEW j \in Jobs, Dies(j) PROVE UNCHANGED pstate
  BY <1>8 DEF Dies, drip
<1> QED
  BY <1>2, <1>3, <1>4, <1>5, <1>6, <1>7, <1>8, NextSteps DEF RowsStep

\* The edges that the handlers ask for are edges of TRANSITIONS.
LEMMA EdgesAllowed ==
  ASSUME NEW target \in DOMAIN Allowed, NEW from \in Allowed[target]
  PROVE  from \in Life!States /\ target \in Life!Allowed(from)
<1>1. DOMAIN Allowed = {"contacted", "engaged", "converted", "bounced", "declined",
                        "unsubscribed"}
  BY DEF Allowed
<1>2. CASE target = "contacted"
  BY <1>2 DEF Allowed, Life!States, Life!Allowed
<1>3. CASE target \in {"engaged", "bounced"}
  BY <1>3 DEF Allowed, Life!States, Life!Allowed
<1>4. CASE target \in {"converted", "declined", "unsubscribed"}
  BY <1>4 DEF Allowed, Life!States, Life!Allowed
<1> QED
  BY <1>1, <1>2, <1>3, <1>4

\* Whichever handlers overlap and however often they run, a row of prospects moves along
\* core/states.TRANSITIONS: no step resurrects an exit, and nothing leaves forgotten.
THEOREM DripFollowsLifecycle == Spec => FollowsLifecycle
<1>1. ASSUME TypeOK, [Next]_vars PROVE [Life!Next]_pstate
  <2> SUFFICES ASSUME pstate' # pstate PROVE Life!Next
    OBVIOUS
  <2>1. RowsStep
    BY <1>1, RowsMove DEF vars
  <2>2. pstate \in [Prospects -> ProspectStates]
    BY <1>1 DEF TypeOK, RowsType
  <2>3. ASSUME NEW p \in Prospects, NEW target \in DOMAIN Allowed, Transition(p, target)
        PROVE  Life!Next
    <3>1. pstate[p] \in Allowed[target] /\ pstate' = [pstate EXCEPT ![p] = target]
      BY <2>2, <2>3 DEF Transition
    <3>2. pstate[p] \in Life!States /\ target \in Life!Allowed(pstate[p])
      BY <3>1, EdgesAllowed
    <3>3. Life!Advance(p)
      BY <3>1, <3>2 DEF Life!Advance
    <3> QED
      BY <3>3 DEF Life!Next
  <2>4. ASSUME NEW own \in SUBSET Prospects,
               pstate' = [p \in Prospects |-> IF p \in own THEN "forgotten" ELSE pstate[p]]
        PROVE  Life!Next
    <3>1. own \in SUBSET {p \in Prospects : pstate[p] # "none"}
      BY <2>2 DEF ProspectStates, Allowed
    <3> QED
      BY <2>4, <3>1 DEF Life!Next, Life!Forget
  <2> QED
    BY <2>1, <2>3, <2>4 DEF RowsStep
<1> QED
  BY <1>1, TypeCorrect, PTL DEF Spec, FollowsLifecycle

----------------------------------------------------------------------------
(* What a repeated step costs *)

\* The touches of a step are paid for: one by its compose job, when it is over, and each
\* further one by a job that was run again after its commit.
CopiesPaid ==
    \A p \in Prospects, s \in 0..(Steps - 1) :
        Cardinality(Drafts(p, "step", s))
            <= redeliveries + (IF job[Compose(p, s)] = "over" THEN 1 ELSE 0)

\* No key is freed, and no repetition is taken back.
NothingReopened ==
    /\ redeliveries <= redeliveries'
    /\ \A j \in Jobs : job[j] = "over" => job'[j] = "over"

NoNewStep == \A t \in Touches : t[2] = "step" /\ Drafted(t)' => Drafted(t)

\* p's s-th step is drafted by a run of its compose job, which ends or is paid again.
StepDrawn(p, s) ==
    /\ Draws(p, "step", s)
    /\ job[Compose(p, s)] = "live"
    /\ job'[Compose(p, s)] = "over" \/ redeliveries' = redeliveries + 1

LEMMA EnqueueReopensNothing ==
  ASSUME NEW js, Enqueue(js)
  PROVE  \A j \in Jobs : job[j] = "over" => job'[j] = "over"
  BY DEF Enqueue, Enqueued

LEMMA CommitsReopensNothing ==
  ASSUME JobsType, NEW j \in Jobs, NEW new, Commits(j, new)
  PROVE  /\ NothingReopened
         /\ job'[j] = "over" \/ redeliveries' = redeliveries + 1
<1>1. redeliveries \in Nat
  BY DripAssumption DEF JobsType
<1>2. DOMAIN Enqueued(new) = Jobs /\ \A i \in Jobs : job[i] = "over" => Enqueued(new)[i] = "over"
  BY DEF Enqueued
<1>3. \/ job' = [Enqueued(new) EXCEPT ![j] = "over"] /\ redeliveries' = redeliveries
      \/ job' = Enqueued(new) /\ redeliveries' = redeliveries + 1
  BY DEF Commits, Enqueue
<1> QED
  BY <1>1, <1>2, <1>3 DEF NothingReopened

LEMMA WhoDrawsSteps ==
  ASSUME TypeOK, Next
  PROVE  /\ NothingReopened
         /\ NoNewStep \/ \E p \in Prospects, s \in 0..(Steps - 1) : StepDrawn(p, s)
<1>1. MailType /\ JobsType /\ redeliveries \in Nat
  BY DripAssumption DEF TypeOK, JobsType
<1>2. ASSUME UNCHANGED touch PROVE NoNewStep
  BY <1>2 DEF NoNewStep, Drafted
<1>3. ASSUME \A t \in Touches : t[2] = "step" => touch'[t] = touch[t] PROVE NoNewStep
  BY <1>3 DEF NoNewStep, Drafted
<1>4. ASSUME UNCHANGED <<job, redeliveries>> PROVE NothingReopened
  BY <1>1, <1>4 DEF NothingReopened
<1>5. ASSUME NEW js, Enqueue(js), UNCHANGED redeliveries PROVE NothingReopened
  BY <1>1, <1>5, EnqueueReopensNothing DEF NothingReopened
<1>6. ASSUME NEW t \in Touches, Drafted(t), NEW status, touch' = [touch EXCEPT ![t] = status]
      PROVE  NoNewStep
  BY <1>1, <1>6 DEF NoNewStep, Drafted, MailType
<1>7. ASSUME NEW p \in Prospects, NEW s \in 0..(Steps - 1), ComposeStep(p, s)
      PROVE  NothingReopened /\ (NoNewStep \/ StepDrawn(p, s))
  <2>1. Compose(p, s) \in Jobs /\ s \in Numbers /\ "step" \in Kinds
    BY JobNames DEF Kinds
  <2>2. CASE ComposeDrafts(p, s) \/ ComposeParks(p, s)
    <3>1. PICK status \in {"pending_review", "drafted", "pending_human"} :
             NewTouch(p, "step", s, status) /\ Commits(Compose(p, s), {})
      BY <2>2 DEF ComposeDrafts, ComposeParks
    <3>2. Live(Compose(p, s))
      BY <1>1, <2>1, <2>2 DEF ComposeDrafts, ComposeParks, JobsType
    <3>3. Draws(p, "step", s)
      BY <1>1, <2>1, <3>1, DrawsNew
    <3> QED
      BY <1>1, <2>1, <3>1, <3>2, <3>3, CommitsReopensNothing DEF StepDrawn, Live
  <2>3. CASE ComposeEscalates(p, s) \/ ComposeStops(p, s)
    <3>1. Commits(Compose(p, s), {}) /\ UNCHANGED touch
      BY <2>3 DEF ComposeEscalates, ComposeStops, mail
    <3> QED
      BY <1>1, <1>2, <2>1, <3>1, CommitsReopensNothing
  <2>4. CASE ComposeReads(p, s)
    BY <1>2, <1>4, <2>4 DEF ComposeReads, Waits, mail
  <2> QED
    BY <1>7, <2>2, <2>3, <2>4 DEF ComposeStep
<1>8. ASSUME NEW p \in Prospects, NEW n \in 1..MaxReplies, ClassifyStep(p, n)
      PROVE  NothingReopened /\ NoNewStep
  <2>1. Classify(p, n) \in Jobs
    BY JobNames
  <2>2. NoNewStep
    BY <1>3, <1>8, ClassifyAside DEF Aside
  <2>3. CASE ClassifyReads(p, n)
    BY <1>4, <2>2, <2>3 DEF ClassifyReads, Waits
  <2>4. CASE \/ ClassifyScrubbed(p, n) \/ ClassifyOptsOut(p, n) \/ ClassifyDeclines(p, n)
             \/ ClassifyAnswers(p, n) \/ ClassifyLeaves(p, n)
    <3>1. \E new \in {{}, {<<"referral", p, 0>>}} : Commits(Classify(p, n), new)
      BY <2>4 DEF ClassifyScrubbed, ClassifyOptsOut, ClassifyDeclines, ClassifyAnswers,
                  ClassifyLeaves, Classified
    <3> QED
      BY <1>1, <2>1, <2>2, <3>1, CommitsReopensNothing
  <2> QED
    BY <1>8, <2>3, <2>4 DEF ClassifyStep
<1>9. ASSUME NEW t \in Touches, DeliverStep(t) PROVE NothingReopened /\ NoNewStep
  <2>1. CASE DeliverSends(t)
    <3>1. NoNewStep
      <4>1. Drafted(t) /\ touch' = [touch EXCEPT ![t] = "dispatched"]
        BY <2>1 DEF DeliverSends, Drafted
      <4> QED
        BY <1>6, <4>1
    <3>2. redeliveries <= redeliveries'
      BY <1>1, <2>1 DEF DeliverSends, DeliverCommits
    <3>3. job' = job \/ \E js : Enqueue(js)
      BY <2>1, Zenon DEF DeliverSends
    <3> QED
      BY <3>1, <3>2, <3>3, EnqueueReopensNothing DEF NothingReopened
  <2>2. CASE DeliverReleases(t)
    <3>1. Drafted(t) /\ touch' = [touch EXCEPT ![t] = "released"] /\ job' = job
      BY <2>2 DEF DeliverReleases, Drafted
    <3>2. redeliveries <= redeliveries'
      BY <1>1, <2>2 DEF DeliverReleases, DeliverCommits
    <3> QED
      BY <1>6, <3>1, <3>2 DEF NothingReopened
  <2>3. CASE DeliverEnds(t)
    BY <1>2, <1>4, <2>3 DEF DeliverEnds, jobs
  <2> QED
    BY <1>9, <2>1, <2>2, <2>3 DEF DeliverStep
<1>10. ASSUME NEW t \in Touches, Approve(t) \/ Reject(t) \/ TaskDone(t) \/ TaskEnds(t)
       PROVE  NothingReopened /\ NoNewStep
  <2>1. PICK status \in {"drafted", "released", "sent"} :
           Drafted(t) /\ touch' = [touch EXCEPT ![t] = status] /\ UNCHANGED <<job, redeliveries>>
    BY <1>10 DEF Approve, Reject, TaskDone, TaskEnds, jobs, Drafted
  <2> QED
    BY <1>4, <1>6, <2>1
<1>11. ASSUME NEW p \in Prospects, AskStep(p) PROVE NothingReopened /\ NoNewStep
  <2>1. <<"referral", p, 0>> \in Jobs /\ <<"reengage", p, 0>> \in Jobs
    BY JobNames
  <2>2. NoNewStep
    BY <1>3, <1>11, AskAside DEF Aside
  <2>3. CASE ReengageReads(p)
    BY <1>4, <2>2, <2>3 DEF ReengageReads, Waits
  <2>4. CASE ReferralAsks(p) \/ ReferralPasses(p) \/ ReengageDrafts(p) \/ ReengagePasses(p)
    <3>1. Commits(<<"referral", p, 0>>, {}) \/ Commits(<<"reengage", p, 0>>, {})
      BY <2>4 DEF ReferralAsks, ReferralPasses, ReengageDrafts, ReengagePasses
    <3> QED
      BY <1>1, <2>1, <2>2, <3>1, CommitsReopensNothing
  <2> QED
    BY <1>11, <2>3, <2>4 DEF AskStep
<1>12. ASSUME OutsideStep PROVE NothingReopened /\ NoNewStep
  <2>1. NoNewStep
    BY <1>3, <1>12, OutsideAside DEF Aside
  <2>2. ASSUME NEW p \in Prospects, Reply(p) \/ Exits(p) \/ Converts(p) \/ NoShow(p)
        PROVE  redeliveries' = redeliveries /\ (job' = job \/ \E js : Enqueue(js))
    BY <2>2, Zenon DEF Reply, Exits, Converts, NoShow, jobs
  <2>3. ASSUME NEW e \in Entities, Forget(e) \/ GapElapses(e)
        PROVE  redeliveries' = redeliveries /\ job' = job
    BY <2>3 DEF Forget, GapElapses, jobs
  <2>4. ASSUME NEW a \in Addresses, SuppressionExpires(a)
        PROVE  redeliveries' = redeliveries /\ job' = job
    BY <2>4 DEF SuppressionExpires, jobs
  <2>5. redeliveries' = redeliveries /\ (job' = job \/ \E js : Enqueue(js))
    BY <1>12, <2>2, <2>3, <2>4 DEF OutsideStep
  <2> QED
    BY <1>4, <1>5, <2>1, <2>5
<1>13. ASSUME NEW j \in Jobs, Dies(j) PROVE NothingReopened /\ NoNewStep
  BY <1>1, <1>2, <1>13 DEF Dies, NothingReopened, JobsType, mail
<1> QED
  BY <1>7, <1>8, <1>9, <1>10, <1>11, <1>12, <1>13, NextSteps

LEMMA DraftsFinite ==
  ASSUME NEW p, NEW n
  PROVE  IsFiniteSet(Drafts(p, "step", n)) /\ Cardinality(Drafts(p, "step", n)) \in Nat
<1>1. Drafts(p, "step", n) \in SUBSET Touches
  BY DEF Drafts
<1> QED
  BY <1>1, TouchesFinite, FS_Subset, FS_CardinalityType

\* What is drafted of a step stays within what was there and one touch more.
LEMMA FewMore ==
  ASSUME NEW p, NEW n, NEW t, IsFiniteSet(Drafts(p, "step", n)'),
         Drafts(p, "step", n)' \subseteq Drafts(p, "step", n) \union {t}
  PROVE  Cardinality(Drafts(p, "step", n)') <= Cardinality(Drafts(p, "step", n)) + 1
<1> DEFINE old == Drafts(p, "step", n)
           now == Drafts(p, "step", n)'
<1>1. IsFiniteSet(old) /\ Cardinality(old) \in Nat
  BY DraftsFinite
<1>2. now \in SUBSET (old \union {t})
  OBVIOUS
<1> HIDE DEF old, now
<1>3. /\ IsFiniteSet(old \union {t})
      /\ Cardinality(old \union {t}) <= Cardinality(old) + 1
  BY <1>1, FS_AddElement
<1>4. Cardinality(now) <= Cardinality(old \union {t})
  BY <1>2, <1>3, FS_Subset
<1>5. Cardinality(now) \in Nat /\ Cardinality(old \union {t}) \in Nat
  BY <1>2, <1>3, FS_Subset, FS_CardinalityType
<1>6. Cardinality(now) <= Cardinality(old) + 1
  BY <1>1, <1>3, <1>4, <1>5
<1> QED
  BY <1>6 DEF old, now

LEMMA PaidStep ==
  ASSUME TypeOK, CopiesPaid, [Next]_vars
  PROVE  CopiesPaid'
<1>1. redeliveries \in Nat /\ redeliveries' \in Nat
  BY TypeStep, DripAssumption DEF TypeOK, JobsType
<1>2. CASE UNCHANGED vars
  BY <1>2 DEF vars, CopiesPaid, Drafts
<1>3. CASE Next
  <2> SUFFICES ASSUME NEW p \in Prospects, NEW s \in 0..(Steps - 1)
               PROVE  Cardinality(Drafts(p, "step", s)')
                         <= redeliveries' + (IF job'[Compose(p, s)] = "over" THEN 1 ELSE 0)
    BY Zenon DEF CopiesPaid, Compose
  <2> DEFINE old == Cardinality(Drafts(p, "step", s))
             now == Cardinality(Drafts(p, "step", s)')
  <2>1. Compose(p, s) \in Jobs
    BY JobNames
  <2>2. Drafts(p, "step", s)' \in SUBSET Touches
    BY DEF Drafts
  <2>3. IsFiniteSet(Drafts(p, "step", s)') /\ now \in Nat /\ old \in Nat
    BY <2>2, TouchesFinite, FS_Subset, FS_CardinalityType, DraftsFinite
  <2>4. old <= redeliveries + (IF job[Compose(p, s)] = "over" THEN 1 ELSE 0)
    BY DEF CopiesPaid
  <2>5. NothingReopened
    BY <1>3, WhoDrawsSteps
  <2>6. ASSUME Drafts(p, "step", s)' \subseteq Drafts(p, "step", s)
        PROVE  now <= redeliveries' + (IF job'[Compose(p, s)] = "over" THEN 1 ELSE 0)
    <3>1. now <= old
      BY <2>6, DraftsFinite, FS_Subset
    <3>2. /\ redeliveries <= redeliveries'
          /\ job[Compose(p, s)] = "over" => job'[Compose(p, s)] = "over"
      BY <2>1, <2>5 DEF NothingReopened
    <3>3. CASE job[Compose(p, s)] = "over"
      <4>1. now <= redeliveries' + 1 /\ job'[Compose(p, s)] = "over"
        BY <1>1, <2>3, <2>4, <3>1, <3>2, <3>3
      <4> QED
        BY <4>1
    <3>4. CASE job[Compose(p, s)] # "over"
      <4>1. now <= redeliveries' /\ now <= redeliveries' + 1
        BY <1>1, <2>3, <2>4, <3>1, <3>2, <3>4
      <4> QED
        BY <1>1, <4>1
    <3> QED
      BY <3>3, <3>4
  <2>7. CASE NoNewStep
    <3>1. Drafts(p, "step", s)' \subseteq Drafts(p, "step", s)
      BY <2>7 DEF NoNewStep, Drafts, Drafted
    <3> QED
      BY <2>6, <3>1
  <2>8. ASSUME NEW q \in Prospects, NEW n \in 0..(Steps - 1), StepDrawn(q, n)
        PROVE  now <= redeliveries' + (IF job'[Compose(p, s)] = "over" THEN 1 ELSE 0)
    <3>1. PICK t \in Touches : /\ t[1] = q /\ t[2] = "step" /\ t[3] = n
                               /\ \A u \in Touches : u # t => touch'[u] = touch[u]
      BY <2>8 DEF StepDrawn, Draws
    <3>2. CASE p = q /\ s = n
      <4>1. Drafts(p, "step", s)' \subseteq Drafts(p, "step", s) \union {t}
        BY <3>1 DEF Drafts
      <4>2. now <= old + 1
        BY <2>3, <4>1, FewMore
      <4>3. /\ job[Compose(p, s)] = "live"
            /\ job'[Compose(p, s)] = "over" \/ redeliveries' = redeliveries + 1
        BY <2>8, <3>2 DEF StepDrawn
      <4>4. old <= redeliveries /\ redeliveries <= redeliveries'
        BY <1>1, <2>3, <2>4, <2>5, <4>3 DEF NothingReopened
      <4>5. CASE job'[Compose(p, s)] = "over"
        <5>1. now <= redeliveries' + 1
          BY <1>1, <2>3, <4>2, <4>4
        <5> QED
          BY <4>5, <5>1
      <4>6. CASE job'[Compose(p, s)] # "over" /\ redeliveries' = redeliveries + 1
        <5>1. now <= redeliveries'
          BY <1>1, <2>3, <4>2, <4>4, <4>6
        <5> QED
          BY <1>1, <4>6, <5>1
      <4> QED
        BY <4>3, <4>5, <4>6
    <3>3. CASE p # q \/ s # n
      <4>1. Drafts(p, "step", s)' \subseteq Drafts(p, "step", s)
        BY <3>1, <3>3 DEF Drafts
      <4> QED
        BY <2>6, <4>1
    <3> QED
      BY <3>2, <3>3
  <2> QED
    BY <1>3, <2>7, <2>8, WhoDrawsSteps
<1> QED
  BY <1>2, <1>3

\* However often jobs are run again, a step has one touch and one more for each time that a
\* job ran again after its commit: queue_draft inserts a touch whenever it is called, and
\* nothing else does.
THEOREM CopiesArePaid == Spec => []CopiesPaid
<1>1. ASSUME Init PROVE CopiesPaid
  <2>1. \A p, s : Drafts(p, "step", s) = {}
    BY <1>1 DEF Init, Drafts
  <2>2. Cardinality({}) = 0 /\ redeliveries = 0
    BY <1>1, FS_EmptySet DEF Init
  <2> QED
    BY <2>1, <2>2 DEF CopiesPaid
<1>2. TypeOK /\ CopiesPaid /\ [Next]_vars => CopiesPaid'
  BY PaidStep
<1> QED
  BY <1>1, <1>2, TypeCorrect, PTL DEF Spec

\* "Every handler must be safe to re-run" is all that StepOnce lacks: where no job runs
\* again after its commit, a step of a drip leaves at most once, whatever replies, exits,
\* second openers, reviews and forgets there are.
THEOREM StepIsOnce ==
  ASSUME MaxRedeliveries = 0
  PROVE  Spec => []StepOnce
<1>1. ASSUME TypeOK, CopiesPaid PROVE StepOnce
  <2> SUFFICES ASSUME NEW p \in Prospects, NEW s \in 0..(Steps - 1)
               PROVE  Cardinality({t \in Drafts(p, "step", s) : touch[t] = "dispatched"}) <= 1
    BY DEF StepOnce
  <2> DEFINE sends == {t \in Drafts(p, "step", s) : touch[t] = "dispatched"}
  <2>1. redeliveries = 0
    BY <1>1 DEF TypeOK, JobsType
  <2>2. Cardinality(Drafts(p, "step", s)) <= 1
    BY <1>1, <2>1, DraftsFinite DEF CopiesPaid
  <2>3. sends \in SUBSET Drafts(p, "step", s)
    OBVIOUS
  <2>4. Cardinality(sends) <= Cardinality(Drafts(p, "step", s)) /\ IsFiniteSet(sends)
    BY <2>3, DraftsFinite, FS_Subset
  <2>5. Cardinality(sends) \in Nat
    BY <2>4, FS_CardinalityType
  <2> QED
    BY <2>2, <2>4, <2>5, DraftsFinite
<1> QED
  BY <1>1, CopiesArePaid, TypeCorrect, PTL
====
