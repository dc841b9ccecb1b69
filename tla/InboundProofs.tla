---- MODULE InboundProofs ----
(***************************************************************************)
(* Proofs about the events for any mail, hooks, people, pollers and        *)
(* scopes: each acts once, an opt-out is kept and enforced on nobody else, *)
(* and its propagation is owed from its commit on.                         *)
(***************************************************************************)
EXTENDS Inbound, TLAPS

\* The keys of the control queue name a person or a scope.
PersonKeys == PauseKeys \cup ForgetKeys

Shape ==
    /\ known \subseteq People /\ paused \subseteq People
    /\ suppressed \in [People -> {None} \cup OptOuts]
    /\ tombstone \in [People -> {None} \cup People]
    /\ job \in [Keys -> {"none", "ready", "done", "dead"}]
    /\ acted \in [Events -> Nat]
    /\ poll \in [Pollers -> [listed : SUBSET Mail, fetched : SUBSET Mail]]

\* Every listed person has the job that its reason names, every such job is about a
\* listed person, and one that is done has reached the provider.
Owed ==
    /\ \A p \in People : suppressed[p] # None => job[<<"pause", p, suppressed[p]>>] # "none"
    /\ \A p \in People : tombstone[p] # None => job[<<"forget", p>>] # "none"
    /\ \A k \in PersonKeys : job[k] # "none" => k[2] \in Uncontactable
    /\ \A k \in PersonKeys : job[k] = "done" => k[2] \in paused

OptOutInv == Shape /\ Owed

LEMMA KeyFacts ==
  /\ \A k \in PersonKeys : k \in Keys /\ k[2] \in People /\ k[1] # "halt"
  /\ \A k \in HaltKeys : k \in Keys /\ k[1] = "halt"
  /\ \A p \in People : <<"forget", p>> \in PersonKeys
  /\ \A p \in People, r \in OptOuts : <<"pause", p, r>> \in PersonKeys
  /\ \A k \in Keys : k \in PersonKeys \/ k \in HaltKeys
  BY DEF PersonKeys, PauseKeys, ForgetKeys, HaltKeys, Keys

LEMMA Initially == ASSUME Init PROVE OptOutInv /\ Uncontactable = {}
<1>1. Shape
  BY DEF Init, Shape, NoPoll
<1>2. Uncontactable = {}
  BY DEF Init, Uncontactable
<1>3. Owed
  BY KeyFacts DEF Init, Owed
<1> QED
  BY <1>1, <1>2, <1>3 DEF OptOutInv

\* What a step may do to the list and to the provider.
Progress ==
    /\ Uncontactable \subseteq Uncontactable'
    /\ \/ paused' = paused
       \/ /\ Uncontactable' = Uncontactable
          /\ \E p \in Uncontactable : paused' = paused \cup {p}

Result == OptOutInv' /\ Progress

LEMMA EnqueuedJob ==
  ASSUME OptOutInv, NEW keys \in SUBSET PersonKeys, job' = Enqueued(keys)
  PROVE  /\ job' \in [Keys -> {"none", "ready", "done", "dead"}]
         /\ \A k \in Keys : job[k] # "none" => job'[k] = job[k]
         /\ \A k \in keys : job'[k] # "none"
         /\ \A k \in Keys : job'[k] # "none" => job[k] # "none" \/ k \in keys
         /\ \A k \in Keys : job'[k] = "done" => job[k] = "done"
<1>1. keys \subseteq Keys
  BY KeyFacts
<1>2. job \in [Keys -> {"none", "ready", "done", "dead"}]
  BY DEF OptOutInv, Shape
<1>3. job' = [k \in Keys |-> IF k \in keys /\ job[k] = "none" THEN "ready" ELSE job[k]]
  BY DEF Enqueued
<1> QED
  BY <1>1, <1>2, <1>3

LEMMA QuietStep ==
  ASSUME OptOutInv, UNCHANGED <<known, suppressed, tombstone, job, paused, acted>>,
         poll' \in [Pollers -> [listed : SUBSET Mail, fetched : SUBSET Mail]]
  PROVE  Result
  BY DEF Result, OptOutInv, Shape, Owed, Progress, Uncontactable

\* An event lists the person it names and enqueues the job of the reason it gives.
LEMMA IngestStep ==
  ASSUME OptOutInv, NEW batch \in SUBSET Events, NEW p, Ingest(batch, p),
         poll' \in [Pollers -> [listed : SUBSET Mail, fetched : SUBSET Mail]]
  PROVE  Result
<1> DEFINE new == Fresh(batch, p)
           out == {e \in new : Says[e] \in OptOuts /\ About[e] \in known}
           keys == {<<"pause", About[e], Says[e]>> : e \in out}
           reasons(q) == {Says[e] : e \in {f \in out : About[f] = q}}
<1>1. /\ acted' = [e \in Events |-> IF e \in new THEN acted[e] + 1 ELSE acted[e]]
      /\ suppressed' \in [People -> {None} \cup OptOuts]
      /\ \A q \in People : IF reasons(q) = {} THEN suppressed'[q] = suppressed[q]
                           ELSE suppressed'[q] \in reasons(q)
      /\ job' = Enqueued(keys)
      /\ UNCHANGED <<known, tombstone, paused>>
  BY DEF Ingest, provider
<1>2. out \subseteq Events /\ \A e \in out : About[e] \in People /\ Says[e] \in OptOuts
  BY InboundAssumption DEF Fresh
<1>3. keys \in SUBSET PersonKeys
  BY <1>2, KeyFacts
<1>4. \A q \in People : \A r \in reasons(q) : r \in OptOuts /\ <<"pause", q, r>> \in keys
  BY <1>2
<1>5. \A k \in keys : reasons(k[2]) # {} /\ k[2] \in People
  BY <1>2
<1> HIDE DEF new, out, keys, reasons
<1>6. /\ job' \in [Keys -> {"none", "ready", "done", "dead"}]
      /\ \A k \in Keys : job[k] # "none" => job'[k] # "none"
      /\ \A k \in keys : job'[k] # "none"
      /\ \A k \in Keys : job'[k] # "none" => job[k] # "none" \/ k \in keys
      /\ \A k \in Keys : job'[k] = "done" => job[k] = "done"
  BY <1>1, <1>3, EnqueuedJob
<1>7. acted' \in [Events -> Nat]
  BY <1>1 DEF OptOutInv, Shape
<1>8. Shape'
  BY <1>1, <1>6, <1>7 DEF OptOutInv, Shape
<1>9. \A q \in People : suppressed[q] # None => suppressed'[q] # None
  BY <1>1, <1>4, InboundAssumption
<1>10. Uncontactable \subseteq Uncontactable'
  BY <1>1, <1>9 DEF Uncontactable
<1>11. \A k \in keys : k[2] \in Uncontactable'
  BY <1>1, <1>4, <1>5, InboundAssumption DEF Uncontactable
<1>12. \A q \in People : suppressed'[q] # None => job'[<<"pause", q, suppressed'[q]>>] # "none"
  <2> SUFFICES ASSUME NEW q \in People, suppressed'[q] # None
               PROVE  job'[<<"pause", q, suppressed'[q]>>] # "none"
    OBVIOUS
  <2>1. CASE reasons(q) = {}
    <3>1. suppressed'[q] = suppressed[q] /\ <<"pause", q, suppressed[q]>> \in Keys
      BY <1>1, <2>1, KeyFacts
    <3> QED
      BY <1>6, <3>1 DEF OptOutInv, Owed
  <2>2. CASE reasons(q) # {}
    BY <1>1, <1>4, <1>6, <2>2
  <2> QED
    BY <2>1, <2>2
<1>13. Owed'
  BY <1>1, <1>6, <1>10, <1>11, <1>12, KeyFacts DEF OptOutInv, Owed
<1> QED
  BY <1>1, <1>8, <1>10, <1>13 DEF Result, OptOutInv, Progress

\* A deletion trades the suppression of each of its addresses for a tombstone.
LEMMA ForgetStep == ASSUME OptOutInv, NEW p \in People, Forget(p) PROVE Result
<1> DEFINE addresses == {p} \cup {q \in known : p \in known /\ EntityOf[q] = EntityOf[p]}
           keys == {<<"forget", q>> : q \in addresses}
<1>1. /\ tombstone' = [q \in People |-> IF q \in addresses /\ tombstone[q] = None
                                        THEN p ELSE tombstone[q]]
      /\ known' = known \ addresses
      /\ suppressed' = [q \in People |-> IF q \in addresses THEN None ELSE suppressed[q]]
      /\ job' = Enqueued(keys)
      /\ UNCHANGED <<poll, acted, paused>>
  BY DEF Forget, inbox, provider
<1>2. addresses \subseteq People /\ keys \in SUBSET PersonKeys
  BY KeyFacts DEF OptOutInv, Shape
<1>3. /\ \A q \in addresses : <<"forget", q>> \in keys
      /\ \A k \in keys : k[2] \in addresses
  OBVIOUS
<1> HIDE DEF addresses, keys
<1>4. /\ job' \in [Keys -> {"none", "ready", "done", "dead"}]
      /\ \A k \in Keys : job[k] # "none" => job'[k] # "none"
      /\ \A k \in keys : job'[k] # "none"
      /\ \A k \in Keys : job'[k] # "none" => job[k] # "none" \/ k \in keys
      /\ \A k \in Keys : job'[k] = "done" => job[k] = "done"
  BY <1>1, <1>2, EnqueuedJob
<1>5. Shape'
  BY <1>1, <1>4 DEF OptOutInv, Shape
<1>6. \A q \in addresses : tombstone'[q] # None
  BY <1>1, <1>2, InboundAssumption
<1>7. Uncontactable \subseteq Uncontactable' /\ addresses \subseteq Uncontactable'
  BY <1>1, <1>2, <1>6 DEF Uncontactable
<1>8. \A q \in People : suppressed'[q] # None => job'[<<"pause", q, suppressed'[q]>>] # "none"
  BY <1>1, <1>4, KeyFacts DEF OptOutInv, Shape, Owed
<1>9. \A q \in People : tombstone'[q] # None => job'[<<"forget", q>>] # "none"
  BY <1>1, <1>3, <1>4, KeyFacts DEF OptOutInv, Owed
<1>10. Owed'
  BY <1>1, <1>3, <1>4, <1>7, <1>8, <1>9, KeyFacts DEF OptOutInv, Owed
<1> QED
  BY <1>1, <1>5, <1>7, <1>10 DEF Result, OptOutInv, Progress

LEMMA HaltStep == ASSUME OptOutInv, NEW s \in Scopes, Halt(s) PROVE Result
<1>1. /\ job' = [k \in Keys |-> IF k \in {<<"halt", s>>} /\ job[k] = "none" THEN "ready" ELSE job[k]]
      /\ UNCHANGED <<known, suppressed, tombstone, poll, acted, paused>>
  BY DEF Halt, Enqueued, inbox, provider
<1>2. \A k \in PersonKeys : job'[k] = job[k]
  BY <1>1, KeyFacts
<1>3. Shape'
  BY <1>1 DEF OptOutInv, Shape
<1>4. Owed'
  <2>1. \A p \in People : suppressed[p] # None => <<"pause", p, suppressed[p]>> \in PersonKeys
    BY KeyFacts DEF OptOutInv, Shape
  <2>2. Uncontactable' = Uncontactable
    BY <1>1 DEF Uncontactable
  <2> QED
    BY <1>1, <1>2, <2>1, <2>2, KeyFacts DEF OptOutInv, Owed
<1> QED
  BY <1>1, <1>3, <1>4 DEF Result, OptOutInv, Progress, Uncontactable

\* A control job that reaches the provider pauses the person its key names.
LEMMA ControlStep ==
  ASSUME OptOutInv, NEW k \in Keys, ControlFails(k) \/ ControlOp(k) \/ ControlDies(k)
  PROVE  Result
<1>1. /\ job[k] = "ready" /\ UNCHANGED <<known, suppressed, tombstone, poll, acted>>
      /\ job' \in {job, [job EXCEPT ![k] = "done"], [job EXCEPT ![k] = "dead"]}
      /\ paused' = paused \/ paused' = IF k[1] = "halt" THEN paused ELSE paused \cup {k[2]}
      /\ job'[k] = "done" => paused' = IF k[1] = "halt" THEN paused ELSE paused \cup {k[2]}
  <2>1. job \in [Keys -> {"none", "ready", "done", "dead"}]
    BY DEF OptOutInv, Shape
  <2>2. CASE ControlFails(k)
    BY <2>1, <2>2 DEF ControlFails, Call, local, inbox
  <2>3. CASE ControlOp(k)
    BY <2>1, <2>3 DEF ControlOp, Call, local, inbox
  <2>4. CASE ControlDies(k)
    BY <2>1, <2>4 DEF ControlDies, local, inbox, provider
  <2> QED
    BY <2>2, <2>3, <2>4
<1>2. job \in [Keys -> {"none", "ready", "done", "dead"}]
  BY DEF OptOutInv, Shape
<1>3. Uncontactable' = Uncontactable
  BY <1>1 DEF Uncontactable
<1>4. k \in PersonKeys => k[1] # "halt" /\ k[2] \in People /\ k[2] \in Uncontactable
  BY <1>1, KeyFacts DEF OptOutInv, Owed
<1>5. k \notin PersonKeys => k[1] = "halt"
  BY KeyFacts
<1>6. Progress
  BY <1>1, <1>3, <1>4, <1>5 DEF Progress
<1>7. Shape'
  BY <1>1, <1>2, <1>4, <1>5 DEF OptOutInv, Shape
<1>8. /\ \A j \in Keys : job'[j] # "none" <=> job[j] # "none"
      /\ \A j \in PersonKeys : job'[j] = "done" => job[j] = "done" \/ j = k
      /\ paused \subseteq paused'
  BY <1>1, <1>2, KeyFacts
<1>9. job'[k] = "done" /\ k \in PersonKeys => k[2] \in paused'
  BY <1>1, <1>2, <1>4
<1>10. Owed'
  BY <1>1, <1>3, <1>8, <1>9, KeyFacts DEF OptOutInv, Shape, Owed
<1> QED
  BY <1>6, <1>7, <1>10 DEF Result, OptOutInv

LEMMA OptOutStep == ASSUME OptOutInv, [Next]_vars PROVE Result
<1>1. poll \in [Pollers -> [listed : SUBSET Mail, fetched : SUBSET Mail]]
  BY DEF OptOutInv, Shape
<1>2. CASE UNCHANGED vars
  BY <1>1, <1>2, QuietStep DEF vars, inbox, local, provider
<1>3. ASSUME NEW m \in Mail, Arrives(m) PROVE Result
  BY <1>1, <1>3, QuietStep DEF Arrives, local, provider
<1>4. ASSUME NEW p \in Pollers, List(p) \/ (\E m \in Mail : Fetch(p, m)) \/ PollFails(p)
      PROVE  Result
  <2>1. poll' \in [Pollers -> [listed : SUBSET Mail, fetched : SUBSET Mail]]
    <3>1. NoPoll \in [listed : SUBSET Mail, fetched : SUBSET Mail]
      BY DEF NoPoll
    <3>2. CASE List(p)
      BY <1>1, <3>2 DEF List
    <3>3. ASSUME NEW m \in Mail, Fetch(p, m)
          PROVE  poll' \in [Pollers -> [listed : SUBSET Mail, fetched : SUBSET Mail]]
      BY <1>1, <3>3 DEF Fetch
    <3>4. CASE PollFails(p)
      BY <1>1, <3>1, <3>4 DEF PollFails
    <3> QED
      BY <1>4, <3>2, <3>3, <3>4
  <2> QED
    BY <1>4, <2>1, QuietStep DEF List, Fetch, PollFails, local, provider
<1>5. ASSUME NEW p \in Pollers, IngestBatch(p) PROVE Result
  <2>1. poll[p].fetched \in SUBSET Events
    BY <1>1 DEF Events
  <2>2. poll' \in [Pollers -> [listed : SUBSET Mail, fetched : SUBSET Mail]]
    BY <1>1, <1>5 DEF IngestBatch, NoPoll
  <2> QED
    BY <1>5, <2>1, <2>2, IngestStep DEF IngestBatch
<1>6. ASSUME NEW h \in Hooks, Happens(h) \/ ProviderHook(h) PROVE Result
  <2>1. CASE Happens(h)
    BY <1>1, <2>1, QuietStep DEF Happens, inbox, local, provider
  <2>2. CASE ProviderHook(h)
    <3>1. Ingest({h}, None) /\ poll' = poll /\ {h} \in SUBSET Events
      BY <2>2 DEF ProviderHook, inbox, Events
    <3> QED
      BY <1>1, <3>1, IngestStep
  <2> QED
    BY <1>6, <2>1, <2>2
<1>7. ASSUME NEW s \in Scopes, Resume(s) \/ ProviderRestarts(s) PROVE Result
  BY <1>1, <1>7, QuietStep DEF Resume, ProviderRestarts, inbox, local, provider
<1>8. ASSUME NEW p \in People, Forget(p) PROVE Result
  BY <1>8, ForgetStep
<1>9. ASSUME NEW s \in Scopes, Halt(s) PROVE Result
  BY <1>9, HaltStep
<1>10. ASSUME NEW k \in Keys, ControlFails(k) \/ ControlOp(k) \/ ControlDies(k) PROVE Result
  BY <1>10, ControlStep
<1> QED
  BY <1>2, <1>3, <1>4, <1>5, <1>6, <1>7, <1>8, <1>9, <1>10 DEF Next, Polling

LEMMA OptOutInvariant == Spec => []OptOutInv
  BY Initially, OptOutStep, PTL DEF Spec, Result

\* No suppression or deletion commits without a control job, for any events in any order:
\* its key names the person and the reason, and a job that is done has paused the person
\* at the provider (suppress, forget, control_op).
THEOREM PropagationIsOwed == Spec => []PropagationOwed
<1>1. ASSUME OptOutInv PROVE PropagationOwed
  <2> SUFFICES ASSUME NEW p \in Uncontactable
               PROVE  \E k \in PersonKeys :
                         k[2] = p /\ (job[k] \in {"ready", "dead"} \/ (job[k] = "done" /\ p \in paused))
    BY DEF PropagationOwed, PersonKeys
  <2>1. p \in People /\ (suppressed[p] # None \/ tombstone[p] # None)
    BY DEF Uncontactable
  <2>2. PICK k \in PersonKeys : k[2] = p /\ job[k] # "none"
    <3>1. CASE suppressed[p] # None
      <4>1. suppressed[p] \in OptOuts
        BY <1>1, <2>1, <3>1 DEF OptOutInv, Shape
      <4> QED
        BY <1>1, <2>1, <3>1, <4>1, KeyFacts DEF OptOutInv, Owed
    <3>2. CASE tombstone[p] # None
      BY <1>1, <2>1, <3>2, KeyFacts DEF OptOutInv, Owed
    <3> QED
      BY <2>1, <3>1, <3>2
  <2>3. job[k] \in {"ready", "done", "dead"}
    BY <1>1, <2>2, KeyFacts DEF OptOutInv, Shape
  <2> QED
    BY <1>1, <2>2, <2>3 DEF OptOutInv, Owed
<1> QED
  BY <1>1, OptOutInvariant, PTL

\* The program implements the promise of an opt-out: nobody leaves the list, whatever
\* halt, deletion or repeated event comes, and the provider pauses listed people only.
THEOREM OptOutImplemented == Spec => ImplementsOptOut
<1>1. Init => OptOutKept!Init
  BY Initially DEF OptOutKept!Init, Init
<1>2. ASSUME OptOutInv, [Next]_vars PROVE [OptOutKept!Next]_<<Uncontactable, paused>>
  <2>1. Progress /\ Uncontactable' \subseteq People
    BY <1>2, OptOutStep DEF Result, Uncontactable
  <2>2. CASE paused' = paused
    <3>1. Uncontactable' = Uncontactable \cup Uncontactable'
      BY <2>1 DEF Progress
    <3> QED
      BY <2>1, <2>2, <3>1 DEF OptOutKept!Next, OptOutKept!List
  <2>3. CASE paused' # paused
    BY <2>1, <2>3 DEF Progress, OptOutKept!Next, OptOutKept!Enforce, Uncontactable
  <2> QED
    BY <2>2, <2>3
<1> QED
  BY <1>1, <1>2, OptOutInvariant, PTL DEF Spec, ImplementsOptOut, OptOutKept!Spec

----------------------------------------------------------------------------
\* Events that have an identity act once.

Counts ==
    /\ acted \in [Events -> Nat]
    /\ poll \in [Pollers -> [listed : SUBSET Mail, fetched : SUBSET Mail]]
    /\ \A e \in Events : acted[e] = 0 \/ (acted[e] = 1 /\ e \in ingested)

LEMMA CountsIngest ==
  ASSUME Mail \subseteq HasId, Counts, NEW batch \in SUBSET Events, NEW p, Ingest(batch, p)
  PROVE  /\ acted' \in [Events -> Nat]
         /\ \A e \in Events : acted'[e] = 0 \/ (acted'[e] = 1 /\ e \in ingested')
<1>1. \A e \in Events : EventId(e, p) = e
  BY DEF EventId, Events
<1>2. \A e \in Fresh(batch, p) : e \in Events /\ e \notin ingested
  BY <1>1 DEF Fresh
<1>3. /\ acted' = [e \in Events |-> IF e \in Fresh(batch, p) THEN acted[e] + 1 ELSE acted[e]]
      /\ ingested' = ingested \cup {EventId(e, p) : e \in Fresh(batch, p)}
  BY DEF Ingest
<1>4. \A e \in Fresh(batch, p) : e \in ingested'
  <2>1. ASSUME NEW e \in Fresh(batch, p) PROVE EventId(e, p) = e /\ EventId(e, p) \in ingested'
    BY <1>1, <1>2, <1>3, <2>1
  <2> QED
    BY <2>1
<1>5. acted' \in [Events -> Nat]
  BY <1>3 DEF Counts
<1>6. ASSUME NEW e \in Events PROVE acted'[e] = 0 \/ (acted'[e] = 1 /\ e \in ingested')
  <2>1. CASE e \in Fresh(batch, p)
    BY <1>2, <1>3, <1>4, <2>1 DEF Counts
  <2>2. CASE e \notin Fresh(batch, p)
    BY <1>3, <2>2 DEF Counts
  <2> QED
    BY <2>1, <2>2
<1> QED
  BY <1>5, <1>6

LEMMA CountsStep ==
  ASSUME Mail \subseteq HasId, OptOutInv, Counts, [Next]_vars
  PROVE  Counts'
<1>1. poll' \in [Pollers -> [listed : SUBSET Mail, fetched : SUBSET Mail]]
  BY OptOutStep DEF Result, OptOutInv, Shape
<1>2. ASSUME UNCHANGED <<acted, ingested>> PROVE Counts'
  BY <1>1, <1>2 DEF Counts
<1>3. ASSUME NEW p \in Pollers, IngestBatch(p) PROVE Counts'
  <2>1. poll[p].fetched \in SUBSET Events
    BY DEF Events, Counts
  <2> QED
    BY <1>1, <1>3, <2>1, CountsIngest DEF IngestBatch, Counts
<1>4. ASSUME NEW h \in Hooks, ProviderHook(h) PROVE Counts'
  <2>1. {h} \in SUBSET Events
    BY DEF Events
  <2> QED
    BY <1>1, <1>4, <2>1, CountsIngest DEF ProviderHook, Counts
<1>5. ASSUME NEW p \in Pollers, List(p) \/ PollFails(p) \/ \E m \in Mail : Fetch(p, m)
      PROVE  Counts'
  BY <1>2, <1>5 DEF List, PollFails, Fetch
<1>6. ASSUME NEW k \in Keys, ControlFails(k) \/ ControlOp(k) \/ ControlDies(k) PROVE Counts'
  BY <1>2, <1>6 DEF ControlFails, ControlOp, ControlDies
<1> QED
  BY <1>2, <1>3, <1>4, <1>5, <1>6
  DEF Next, Polling, Arrives, Happens, Forget, Halt, Resume, ProviderRestarts, vars

\* I-10 for any number of polls, crashes and repeated posts: an event acts once, provided
\* that every message carries a Message-ID (provider_events is unique on its name).
THEOREM ActsOnce == ASSUME Mail \subseteq HasId PROVE Spec => []ActedOnce
<1>1. Init => Counts
  BY Initially DEF Init, Counts, OptOutInv, Shape
<1>2. OptOutInv /\ Counts /\ [Next]_vars => Counts'
  BY CountsStep
<1>3. Counts => ActedOnce
  BY DEF Counts, ActedOnce
<1> QED
  BY <1>1, <1>2, <1>3, OptOutInvariant, PTL DEF Spec
====
