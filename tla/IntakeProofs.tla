---- MODULE IntakeProofs ----
(***************************************************************************)
(* Proofs about intake for any cohorts, candidates, keys and workers:      *)
(* the rows of prospects move as core/states.py allows, a deletion leaves  *)
(* nothing while nothing commits under it, and keys lead to their entity.  *)
(***************************************************************************)
EXTENDS Intake, FiniteSetTheorems, TLAPS

\* The rows of prospects, and the deletion under way.
Shape ==
    /\ state \in [Prospects -> IntakeStates]
    /\ about \in [Prospects -> Candidates \cup {None}]
    /\ address \in [Prospects -> Addresses \cup {None}]
    /\ facts \subseteq Prospects

\* The entities and the open transactions.
Transactions ==
    /\ entities \in 0..MaxEntities
    /\ owner \in [Keys -> {0} \cup Entities]
    /\ \A w \in Workers : working[w].queue # None =>
          working[w].prospect \in Prospects /\ working[w].about \in Candidates
    /\ DOMAIN working = Workers /\ DOMAIN finding = Discoverers
    /\ \A d \in Discoverers : finding[d] # NoPage =>
          /\ finding[d].cohort \in Cohorts /\ finding[d].cand \in Candidates
          /\ finding[d].entity \in {0} \cup Entities

\* A prospect without a row has nothing, and one that is in intake has its candidate.
Blank ==
    \A p \in Prospects :
        /\ state[p] = "none" => about[p] = None /\ address[p] = None /\ p \notin facts
        /\ state[p] \in {"discovered", "enriched"} => about[p] \in Candidates

RowInv == Shape /\ Transactions /\ Blank

\* What a step may do to the rows.
Untouched ==
    /\ UNCHANGED <<state, about, address, facts>>
    /\ UNCHANGED <<forgetting, erased>> \/ \E es, asked : Collects(es, asked)
Creates(p, cand) ==
    /\ state[p] = "none" /\ state' = [state EXCEPT ![p] = "discovered"]
    /\ about' = [about EXCEPT ![p] = cand] /\ UNCHANGED <<address, facts, deletion>> /\ MayCommit
Enriches(p) ==
    /\ state[p] = "discovered"
    /\ \E to \in {"enriched", "unenrichable"} : state' = [state EXCEPT ![p] = to]
    /\ \E a \in Addresses \cup {None} : address' = [address EXCEPT ![p] = a]
    /\ facts' = facts \cup {p} /\ UNCHANGED <<about, deletion>> /\ MayCommit
Judges(p) ==
    /\ state[p] = "enriched"
    /\ \E to \in {"queued", "disqualified"} : state' = [state EXCEPT ![p] = to]
    /\ UNCHANGED <<about, address, facts, deletion>> /\ MayCommit

RowStep == \/ Untouched \/ Forgets
           \/ \E p \in Prospects : \/ Enriches(p) \/ Judges(p)
                                   \/ \E cand \in Candidates : Creates(p, cand)

LEMMA Initially == ASSUME Init PROVE RowInv
<1>1. entities \in 0..MaxEntities /\ facts \subseteq Prospects /\ owner \in [Keys -> {0} \cup Entities]
  BY IntakeAssumption DEF Init
<1>2. /\ state \in [Prospects -> IntakeStates]
      /\ about \in [Prospects -> Candidates \cup {None}]
      /\ address \in [Prospects -> Addresses \cup {None}]
  BY DEF Init, IntakeStates
<1>3. /\ \A w \in Workers : working[w].queue = None
      /\ \A d \in Discoverers : finding[d] = NoPage
      /\ DOMAIN working = Workers /\ DOMAIN finding = Discoverers
  BY DEF Init, NoWork
<1>4. Blank
  BY DEF Init, Blank
<1> QED
  BY <1>1, <1>2, <1>3, <1>4 DEF RowInv, Shape, Transactions

LEMMA PersistsRows == ASSUME RowInv, NEW d \in Discoverers, Persists(d) PROVE RowStep
<1> DEFINE page == finding[d]
           e == IF page.entity = 0 THEN entities + 1 ELSE page.entity
           p == <<page.cohort, e>>
<1>1. /\ page # NoPage /\ e <= MaxEntities
      /\ page.insert => state[p] = "none"
      /\ IF page.insert
         THEN /\ state' = [state EXCEPT ![p] = "discovered"]
              /\ about' = [about EXCEPT ![p] = page.cand]
         ELSE UNCHANGED <<state, about>>
      /\ UNCHANGED <<address, facts, deletion>> /\ MayCommit
  BY DEF Persists
<1>2. page.cohort \in Cohorts /\ page.cand \in Candidates /\ page.entity \in {0} \cup Entities
  BY <1>1 DEF RowInv, Shape, Transactions
<1>3. e \in Entities
  BY <1>1, <1>2, IntakeAssumption DEF Entities, RowInv, Shape, Transactions
<1>4. p \in Prospects
  BY <1>2, <1>3 DEF Prospects
<1> HIDE DEF p, e, page
<1> QED
  BY <1>1, <1>2, <1>4 DEF RowStep, Untouched, Creates, page, deletion

LEMMA RowsStep == ASSUME RowInv, [Next]_vars PROVE RowStep
<1>1. ASSUME UNCHANGED <<people, forgetting, erased>> PROVE RowStep
  BY <1>1 DEF people, RowStep, Untouched
<1>2. ASSUME NEW w \in Workers, EnrichStores(w) PROVE RowStep
  <2>1. working[w].prospect \in Prospects /\ working[w].about \in Candidates
    BY <1>2, IntakeAssumption DEF EnrichStores, RowInv, Shape, Transactions, Queues
  <2>2. Chosen(working[w].about) \in Addresses \cup {None}
    BY <2>1, IntakeAssumption DEF Chosen
  <2>3. Enriches(working[w].prospect)
    BY <1>2, <2>1, <2>2 DEF EnrichStores, Enriches, Transitions
  <2> QED
    BY <2>1, <2>3 DEF RowStep
<1>3. ASSUME NEW w \in Workers, Qualifies(w) PROVE RowStep
  <2>1. working[w].prospect \in Prospects
    BY <1>3, IntakeAssumption DEF Qualifies, RowInv, Shape, Transactions, Queues
  <2>2. Judges(working[w].prospect)
    BY <1>3, <2>1 DEF Qualifies, Judges, Transitions, AfterVerdict
  <2> QED
    BY <2>1, <2>2 DEF RowStep
<1>4. ASSUME NEW c \in Cohorts, Trigger(c) \/ \E cand \in Returns[c] : Drops(c, cand)
      PROVE  RowStep
  BY <1>1, <1>4 DEF Trigger, Drops, deletion
<1>5. ASSUME NEW d \in Discoverers,
             RollsBack(d) \/ \E c \in Cohorts : \E cand \in Returns[c] : Resolves(d, c, cand)
      PROVE  RowStep
  BY <1>1, <1>5 DEF RollsBack, Resolves, deletion
<1>6. ASSUME NEW w \in Workers,
             \/ Fails(w) \/ Dies(w)
             \/ \E queue \in {"enrich", "qualify"}, p \in Prospects : Reads(w, queue, p)
      PROVE  RowStep
  BY <1>1, <1>6 DEF Fails, Dies, Reads, deletion
<1>7. ASSUME \/ \E e \in Entities : ForgetEntity(e)
             \/ \E a \in Addresses : ForgetAddress(a) \/ OptsOut(a)
      PROVE  RowStep
  <2>1. ASSUME NEW es, NEW asked, Collects(es, asked) PROVE RowStep
    <3>1. UNCHANGED people
      BY <2>1 DEF Collects
    <3> QED
      BY <2>1, <3>1 DEF RowStep, Untouched, people
  <2>2. ASSUME NEW a \in Addresses, OptsOut(a) PROVE RowStep
    BY <1>1, <2>2 DEF OptsOut
  <2> QED
    BY <1>7, <2>1, <2>2 DEF ForgetEntity, ForgetAddress
<1>8. CASE Forgets
  BY <1>8 DEF RowStep
<1>9. CASE UNCHANGED vars
  BY <1>1, <1>9 DEF vars, deletion
<1> QED
  BY <1>1, <1>2, <1>3, <1>4, <1>5, <1>6, <1>7, <1>8, <1>9, PersistsRows DEF Next

\* The rows after a step.
LEMMA RowsAfter ==
  ASSUME RowInv, RowStep
  PROVE  /\ state' \in [Prospects -> IntakeStates]
         /\ about' \in [Prospects -> Candidates \cup {None}]
         /\ address' \in [Prospects -> Addresses \cup {None}]
         /\ facts' \subseteq Prospects
         /\ Blank'
<1> USE DEF IntakeStates
<1>1. CASE Untouched
  BY <1>1 DEF Untouched, RowInv, Shape, Blank
<1>2. CASE Forgets
  BY <1>2, IntakeAssumption DEF Forgets, RowInv, Shape, Blank
<1>3. CASE \E p \in Prospects : Enriches(p)
  BY <1>3 DEF Enriches, RowInv, Shape, Blank
<1>4. CASE \E p \in Prospects : Judges(p)
  BY <1>4 DEF Judges, RowInv, Shape, Blank
<1>5. CASE \E p \in Prospects : \E cand \in Candidates : Creates(p, cand)
  BY <1>5 DEF Creates, RowInv, Shape, Blank
<1> QED
  BY <1>1, <1>2, <1>3, <1>4, <1>5 DEF RowStep

\* The transactions and the keys after a step.
LEMMA TransactionsAfter ==
  ASSUME RowInv, [Next]_vars
  PROVE  Transactions'
<1>1. ASSUME UNCHANGED <<entities, owner, working, finding>> PROVE Transactions'
  BY <1>1 DEF RowInv, Shape, Transactions
<1>2. ASSUME NEW w \in Workers, working' = [working EXCEPT ![w] = NoWork],
             UNCHANGED <<entities, owner, finding>>
      PROVE  Transactions'
  BY <1>2 DEF RowInv, Shape, Transactions, NoWork
<1>3. ASSUME NEW w \in Workers, NEW queue \in {"enrich", "qualify"}, NEW p \in Prospects,
             Reads(w, queue, p)
      PROVE  Transactions'
  <2>1. about[p] \in Candidates
    BY <1>3 DEF Reads, Awaited, RowInv, Blank
  <2>2. /\ UNCHANGED <<entities, owner, finding>>
        /\ working' = [working EXCEPT ![w] =
              [queue |-> queue, prospect |-> p, about |-> about[p]]]
    BY <1>3 DEF Reads, discovery, identity
  <2> QED
    BY <2>1, <2>2 DEF RowInv, Shape, Transactions
<1>4. ASSUME NEW d \in Discoverers, NEW c \in Cohorts, NEW cand \in Returns[c],
             Resolves(d, c, cand)
      PROVE  Transactions'
  <2>1. cand \in Candidates /\ KeysOf[cand] \subseteq Keys
    BY IntakeAssumption
  <2>2. PICK page :
          /\ finding' = [finding EXCEPT ![d] = page]
          /\ page.cohort = c /\ page.cand = cand /\ page.entity \in {0} \cup Entities
    <3> DEFINE matched == {owner[k] : k \in KeysOf[cand]} \ {0}
    <3>1. matched \subseteq Entities
      BY <2>1 DEF RowInv, Shape, Transactions
    <3>2. PICK e \in IF matched = {} THEN {0} ELSE matched :
            finding' = [finding EXCEPT ![d] =
                  [cohort |-> c, cand |-> cand, entity |-> e,
                   conflict |-> Cardinality(matched) > 1,
                   insert |-> IF e = 0 THEN TRUE ELSE state[<<c, e>>] = "none"]]
      BY <1>4 DEF Resolves
    <3>3. e \in {0} \cup Entities
      BY <3>1
    <3> DEFINE page == [cohort |-> c, cand |-> cand, entity |-> e,
                        conflict |-> Cardinality(matched) > 1,
                        insert |-> IF e = 0 THEN TRUE ELSE state[<<c, e>>] = "none"]
    <3>4. page.cohort = c /\ page.cand = cand /\ page.entity = e
      OBVIOUS
    <3>5. finding' = [finding EXCEPT ![d] = page]
      BY <3>2
    <3> HIDE DEF page
    <3> QED
      BY <3>3, <3>4, <3>5
  <2>3. UNCHANGED <<entities, owner, working>>
    BY <1>4 DEF Resolves, identity
  <2> QED
    BY <2>1, <2>2, <2>3 DEF RowInv, Shape, Transactions
<1>5. ASSUME NEW d \in Discoverers, finding' = [finding EXCEPT ![d] = NoPage],
             UNCHANGED working, entities' \in 0..MaxEntities,
             owner' \in [Keys -> {0} \cup Entities]
      PROVE  Transactions'
  BY <1>5 DEF RowInv, Shape, Transactions
<1>6. ASSUME NEW d \in Discoverers, Persists(d) PROVE Transactions'
  <2> DEFINE page == finding[d]
             e == IF page.entity = 0 THEN entities + 1 ELSE page.entity
  <2>1. /\ page # NoPage /\ e <= MaxEntities
        /\ entities' = IF page.entity = 0 THEN e ELSE entities
        /\ owner' = Attached(page, e)
        /\ finding' = [finding EXCEPT ![d] = NoPage] /\ UNCHANGED working
    BY <1>6 DEF Persists
  <2>2. page.entity \in {0} \cup Entities
    BY <2>1 DEF RowInv, Shape, Transactions
  <2>3. e \in Entities /\ entities' \in 0..MaxEntities
    BY <2>1, <2>2, IntakeAssumption DEF Entities, RowInv, Shape, Transactions
  <2> HIDE DEF e, page
  <2>4. owner' \in [Keys -> {0} \cup Entities]
    BY <2>1, <2>3 DEF Attached, RowInv, Shape, Transactions
  <2> QED
    BY <1>5, <2>1, <2>3, <2>4
<1>7. ASSUME NEW d \in Discoverers, RollsBack(d) PROVE Transactions'
  BY <1>5, <1>7 DEF RollsBack, identity, RowInv, Shape, Transactions
<1>8. CASE Forgets
  BY <1>8 DEF Forgets, RowInv, Shape, Transactions, discovery
<1>9. ASSUME NEW w \in Workers, EnrichStores(w) \/ Qualifies(w) \/ Fails(w) \/ Dies(w) PROVE Transactions'
  BY <1>2, <1>9 DEF EnrichStores, Qualifies, Fails, Dies, discovery, identity
<1>10. ASSUME NEW c \in Cohorts, Trigger(c) \/ \E cand \in Returns[c] : Drops(c, cand)
       PROVE  Transactions'
  BY <1>1, <1>10 DEF Trigger, Drops, identity
<1>11. CASE \/ \E e \in Entities : ForgetEntity(e)
            \/ \E a \in Addresses : ForgetAddress(a) \/ OptsOut(a)
  BY <1>1, <1>11 DEF ForgetEntity, ForgetAddress, Collects, OptsOut, discovery, identity
<1>12. CASE UNCHANGED vars
  BY <1>1, <1>12 DEF vars, discovery, identity
<1>13. CASE \E c \in Cohorts : Trigger(c) \/ \E cand \in Returns[c] : Drops(c, cand)
  BY <1>10, <1>13
<1>14. CASE \E d \in Discoverers :
               \/ Persists(d) \/ RollsBack(d)
               \/ \E c \in Cohorts : \E cand \in Returns[c] : Resolves(d, c, cand)
  BY <1>4, <1>6, <1>7, <1>14
<1>15. CASE \E w \in Workers :
               \/ EnrichStores(w) \/ Qualifies(w) \/ Fails(w) \/ Dies(w)
               \/ \E queue \in {"enrich", "qualify"}, p \in Prospects : Reads(w, queue, p)
  BY <1>3, <1>9, <1>15
<1> QED
  BY <1>8, <1>11, <1>12, <1>13, <1>14, <1>15 DEF Next

LEMMA RowInvariant == Spec => []RowInv
<1>1. RowInv /\ [Next]_vars => RowInv'
  BY RowsStep, RowsAfter, TransactionsAfter DEF RowInv, Shape
<1> QED
  BY <1>1, Initially, PTL DEF Spec

\* Whatever workers, discoverers and deletions do at the same time, a prospect's row moves
\* along the transitions of core/states.py and leaves "forgotten" never again.
THEOREM LifecycleFollowed == Spec => FollowsLifecycle
<1>1. Init => Life!Init
  BY DEF Init, Life!Init
<1>2. ASSUME RowInv, RowStep PROVE [Life!Next]_state
  <2>1. CASE Untouched
    BY <2>1 DEF Untouched
  <2>2. CASE Forgets
    <3> DEFINE gone == {p \in Prospects : p[2] \in forgetting.entities /\ state[p] # "none"}
    <3>1. gone \in SUBSET {p \in Prospects : state[p] # "none"}
      OBVIOUS
    <3>2. state' = [p \in Prospects |-> IF p \in gone THEN "forgotten" ELSE state[p]]
      BY <2>2 DEF Forgets
    <3> QED
      BY <3>1, <3>2 DEF Life!Next, Life!Forget
  <2>3. ASSUME NEW p \in Prospects, NEW cand \in Candidates, Creates(p, cand)
        PROVE  Life!Next
    BY <2>3 DEF Creates, Life!Next, Life!Create
  <2>4. ASSUME NEW p \in Prospects, Enriches(p) PROVE Life!Next
    <3>1. PICK to \in {"enriched", "unenrichable"} : state' = [state EXCEPT ![p] = to]
      BY <2>4 DEF Enriches
    <3>2. state[p] \in Life!States /\ to \in Life!Allowed(state[p])
      BY <2>4 DEF Enriches, Life!States, Life!Allowed
    <3> QED
      BY <3>1, <3>2 DEF Life!Next, Life!Advance
  <2>5. ASSUME NEW p \in Prospects, Judges(p) PROVE Life!Next
    <3>1. PICK to \in {"queued", "disqualified"} : state' = [state EXCEPT ![p] = to]
      BY <2>5 DEF Judges
    <3>2. state[p] \in Life!States /\ {"qualified", "disqualified"} \subseteq Life!Allowed(state[p])
      BY <2>5 DEF Judges, Life!States, Life!Allowed
    <3>3. "queued" \in Life!Allowed("qualified")
      BY DEF Life!Allowed
    <3>4. CASE to = "queued"
      BY <3>1, <3>2, <3>3, <3>4 DEF Life!Next, Life!Advance
    <3>5. CASE to = "disqualified"
      BY <3>1, <3>2, <3>5 DEF Life!Next, Life!Advance
    <3> QED
      BY <3>4, <3>5
  <2> QED
    BY <1>2, <2>1, <2>2, <2>3, <2>4, <2>5 DEF RowStep
<1> QED
  BY <1>1, <1>2, RowInvariant, RowsStep, PTL DEF Spec, FollowsLifecycle, Life!Spec

----------------------------------------------------------------------------
\* Deletion.

\* The facts a deletion has removed are those of its prospects until it commits.
Erasure ==
    /\ erased \subseteq Prospects /\ NothingKeptOfForgotten
    /\ \A p \in facts : p[2] \in forgetting.entities => p \in forgetting.facts

LEMMA ErasureStep ==
  ASSUME ForgetAlone, RowInv, Erasure, [Next]_vars PROVE Erasure'
<1>1. ASSUME UNCHANGED <<people, forgetting, erased>> PROVE Erasure'
  BY <1>1 DEF Erasure, NothingKeptOfForgotten, people
<1>2. ASSUME NEW es, NEW asked, Collects(es, asked) PROVE Erasure'
  <2>1. /\ forgetting'.entities = es
        /\ forgetting'.facts = facts \cap {p \in Prospects : p[2] \in es /\ state[p] # "none"}
        /\ UNCHANGED <<people, erased>>
    BY <1>2 DEF Collects
  <2>2. \A p \in facts : p \in Prospects /\ state[p] # "none"
    BY DEF RowInv, Shape, Blank
  <2> QED
    BY <2>1, <2>2 DEF Erasure, NothingKeptOfForgotten, people
<1>3. CASE Forgets
  BY <1>3 DEF Forgets, Erasure, NothingKeptOfForgotten, NoForget, RowInv, Shape, Blank
<1>4. ASSUME NEW p \in Prospects,
             Enriches(p) \/ Judges(p) \/ \E cand \in Candidates : Creates(p, cand)
      PROVE  Erasure'
  <2>1. /\ forgetting' = NoForget /\ erased' = erased /\ NoForget.entities = {}
    BY <1>4 DEF Enriches, Judges, Creates, MayCommit, deletion, NoForget
  <2>2. p \notin erased
    BY <1>4 DEF Enriches, Judges, Creates, Erasure, NothingKeptOfForgotten
  <2>3. \A q \in Prospects : q # p =>
           /\ state'[q] = state[q] /\ about'[q] = about[q] /\ address'[q] = address[q]
           /\ q \in facts' <=> q \in facts
    BY <1>4 DEF Enriches, Judges, Creates, RowInv, Shape
  <2> QED
    BY <2>1, <2>2, <2>3 DEF Erasure, NothingKeptOfForgotten
<1>5. CASE Untouched
  BY <1>1, <1>2, <1>5 DEF Untouched, people
<1> QED
  BY <1>3, <1>4, <1>5, RowsStep DEF RowStep

\* A deletion leaves nothing of the prospects it found, whatever jobs were reading them,
\* provided that none of them commits while the deletion is under way (forget locks no row
\* before its first write; the run intake_forget shows what happens otherwise).
THEOREM NothingKept == ASSUME ForgetAlone PROVE Spec => []NothingKeptOfForgotten
<1>1. Init => Erasure
  BY DEF Init, Erasure, NothingKeptOfForgotten
<1>2. RowInv /\ Erasure /\ [Next]_vars => Erasure'
  BY ErasureStep
<1>3. Erasure => NothingKeptOfForgotten
  BY DEF Erasure
<1> QED
  BY <1>1, <1>2, <1>3, RowInvariant, PTL DEF Spec

----------------------------------------------------------------------------
\* Keys.

\* A page that was resolved without a conflict meets no other entity's keys.
Keyed ==
    /\ KeysAccounted
    /\ \A d \in Discoverers : finding[d] # NoPage =>
          \/ finding[d].conflict
          \/ \A k \in KeysOf[finding[d].cand] : owner[k] \in {0, finding[d].entity}

LEMMA ResolvesKeyed ==
  ASSUME RowInv, Keyed, NEW d \in Discoverers, NEW c \in Cohorts, NEW cand \in Returns[c],
         Resolves(d, c, cand)
  PROVE  Keyed'
<1> DEFINE matched == {owner[k] : k \in KeysOf[cand]} \ {0}
<1>1. cand \in Candidates /\ KeysOf[cand] \subseteq Keys
  BY IntakeAssumption
<1>2. matched \subseteq Entities
  BY <1>1 DEF RowInv, Transactions
<1>3. PICK e \in IF matched = {} THEN {0} ELSE matched :
        finding' = [finding EXCEPT ![d] =
              [cohort |-> c, cand |-> cand, entity |-> e, conflict |-> Cardinality(matched) > 1,
               insert |-> IF e = 0 THEN TRUE ELSE state[<<c, e>>] = "none"]]
  BY DEF Resolves
<1>4. UNCHANGED <<owner, conflicts, about>>
  BY DEF Resolves, identity, people
<1>5. \A k \in KeysOf[cand] : owner[k] # 0 => owner[k] \in matched
  OBVIOUS
<1> HIDE DEF matched
<1>6. IsFiniteSet(matched)
  <2>1. IsFiniteSet(Entities)
    BY IntakeAssumption, FS_Interval DEF Entities
  <2> QED
    BY <1>2, <2>1, FS_Subset
<1>7. ASSUME ~(Cardinality(matched) > 1), NEW k \in KeysOf[cand] PROVE owner[k] \in {0, e}
  <2>1. CASE owner[k] = 0
    BY <2>1
  <2>2. CASE owner[k] # 0
    <3>1. owner[k] \in matched /\ e \in matched
      BY <1>3, <1>5, <1>7, <2>2
    <3>2. Cardinality(matched) \in Nat /\ Cardinality(matched) # 0
      BY <1>6, <3>1, FS_CardinalityType, FS_EmptySet
    <3>3. Cardinality(matched) = 1
      BY <1>7, <3>2
    <3>4. \E x : matched = {x}
      BY <1>6, <3>3, FS_Singleton
    <3> QED
      BY <3>1, <3>4
  <2> QED
    BY <2>1, <2>2
<1> DEFINE page == [cohort |-> c, cand |-> cand, entity |-> e,
                    conflict |-> Cardinality(matched) > 1,
                    insert |-> IF e = 0 THEN TRUE ELSE state[<<c, e>>] = "none"]
<1>8. /\ page.conflict <=> Cardinality(matched) > 1
      /\ page.cand = cand /\ page.entity = e
  OBVIOUS
<1>9. finding' = [finding EXCEPT ![d] = page]
  BY <1>3
<1> HIDE DEF page
<1>10. \A x \in Discoverers : finding'[x] = page \/ finding'[x] = finding[x]
  BY <1>9
<1> QED
  BY <1>4, <1>7, <1>8, <1>10 DEF Keyed, KeysAccounted

LEMMA PersistsKeyed ==
  ASSUME \A d, x \in Discoverers : d = x, RowInv, Keyed, NEW d \in Discoverers, Persists(d)
  PROVE  Keyed'
<1>1. PICK page : page = finding[d]
  OBVIOUS
<1>2. PICK e : e = IF page.entity = 0 THEN entities + 1 ELSE page.entity
  OBVIOUS
<1>3. PICK p : p = <<page.cohort, e>>
  OBVIOUS
<1>4. p[2] = e
  BY <1>3
<1>5. /\ page # NoPage /\ e <= MaxEntities
      /\ owner' = Attached(page, e)
      /\ conflicts' = IF page.conflict THEN conflicts \cup {e} ELSE conflicts
      /\ about' = IF page.insert THEN [about EXCEPT ![p] = page.cand] ELSE about
      /\ finding' = [finding EXCEPT ![d] = NoPage]
  BY <1>1, <1>2, <1>3 DEF Persists
<1>6. /\ page.cohort \in Cohorts /\ page.cand \in Candidates
      /\ page.entity \in {0} \cup Entities
  BY <1>1, <1>5 DEF RowInv, Transactions
<1>7. KeysOf[page.cand] \subseteq Keys
  BY <1>6, IntakeAssumption
<1>8. owner' = [k \in Keys |-> IF k \in KeysOf[page.cand] /\ owner[k] = 0 THEN e ELSE owner[k]]
  BY <1>5 DEF Attached
<1>9. \A k \in KeysOf[page.cand] : owner'[k] = e \/ e \in conflicts'
  <2> SUFFICES ASSUME NEW k \in KeysOf[page.cand], ~page.conflict PROVE owner'[k] = e
    BY <1>5
  <2>1. owner[k] \in {0, page.entity}
    BY <1>1, <1>5 DEF Keyed
  <2> QED
    BY <1>2, <1>5, <1>6, <1>7, <1>8, <2>1
<1>10. ASSUME NEW q \in Prospects, about'[q] # None, NEW k \in KeysOf[about'[q]]
      PROVE  owner'[k] = q[2] \/ q[2] \in conflicts'
  <2>1. CASE about'[q] = about[q]
    <3>1. about[q] \in Candidates /\ k \in Keys /\ q[2] # 0
      BY <1>10, <2>1, IntakeAssumption DEF RowInv, Shape, Prospects, Entities
    <3>2. owner[k] = q[2] \/ q[2] \in conflicts
      BY <1>10, <2>1 DEF Keyed, KeysAccounted
    <3> QED
      BY <1>5, <1>8, <3>1, <3>2
  <2>2. CASE about'[q] # about[q]
    <3>1. q = p /\ about'[q] = page.cand
      BY <1>5, <2>2 DEF RowInv, Shape
    <3> QED
      BY <1>4, <1>9, <1>10, <3>1
  <2> QED
    BY <2>1, <2>2
<1>11. \A x \in Discoverers : finding'[x] = NoPage
  BY <1>5 DEF RowInv, Transactions
<1> QED
  BY <1>10, <1>11 DEF Keyed, KeysAccounted

LEMMA ForgetsKeyed == ASSUME RowInv, Keyed, Forgets PROVE Keyed'
<1>1. /\ about' = [p \in Prospects |->
                     IF p[2] \in forgetting.entities /\ state[p] # "none" THEN None ELSE about[p]]
      /\ owner' = [k \in Keys |-> IF owner[k] \in forgetting.entities THEN 0 ELSE owner[k]]
      /\ UNCHANGED <<conflicts, finding>>
  BY DEF Forgets, discovery
<1>2. ASSUME NEW q \in Prospects, about'[q] # None, NEW k \in KeysOf[about'[q]]
      PROVE  owner'[k] = q[2] \/ q[2] \in conflicts'
  <2>1. about'[q] = about[q] /\ q[2] \notin forgetting.entities
    BY <1>1, <1>2 DEF RowInv, Blank
  <2>2. k \in Keys
    BY <1>2, <2>1, IntakeAssumption DEF RowInv, Shape
  <2>3. owner[k] = q[2] \/ q[2] \in conflicts
    BY <1>2, <2>1 DEF Keyed, KeysAccounted
  <2> QED
    BY <1>1, <2>1, <2>2, <2>3
<1>3. ASSUME NEW d \in Discoverers, finding[d] # NoPage, ~finding[d].conflict,
             NEW k \in KeysOf[finding[d].cand]
      PROVE  owner'[k] \in {0, finding[d].entity}
  <2>1. k \in Keys
    BY <1>3, IntakeAssumption DEF RowInv, Transactions
  <2> QED
    BY <1>1, <1>3, <2>1 DEF Keyed
<1> QED
  BY <1>1, <1>2, <1>3 DEF Keyed, KeysAccounted

LEMMA KeyedStep ==
  ASSUME \A d, x \in Discoverers : d = x, RowInv, Keyed, [Next]_vars PROVE Keyed'
<1>1. ASSUME UNCHANGED <<owner, conflicts, about>>,
             UNCHANGED finding \/ \E d \in Discoverers : finding' = [finding EXCEPT ![d] = NoPage]
      PROVE  Keyed'
  BY <1>1 DEF Keyed, KeysAccounted, RowInv, Transactions
<1>2. ASSUME NEW d \in Discoverers, RollsBack(d) PROVE Keyed'
  BY <1>1, <1>2 DEF RollsBack, identity, people
<1>3. ASSUME NEW w \in Workers,
             \/ EnrichStores(w) \/ Qualifies(w) \/ Fails(w) \/ Dies(w)
             \/ \E queue \in {"enrich", "qualify"}, p \in Prospects : Reads(w, queue, p)
      PROVE  Keyed'
  BY <1>1, <1>3
  DEF EnrichStores, Qualifies, Fails, Dies, Reads, discovery, identity, people
<1>4. ASSUME NEW c \in Cohorts, Trigger(c) \/ \E cand \in Returns[c] : Drops(c, cand)
      PROVE  Keyed'
  BY <1>1, <1>4 DEF Trigger, Drops, identity, people
<1>5. CASE \/ \E e \in Entities : ForgetEntity(e)
           \/ \E a \in Addresses : ForgetAddress(a) \/ OptsOut(a)
  BY <1>1, <1>5 DEF ForgetEntity, ForgetAddress, Collects, OptsOut, discovery, identity, people
<1>6. CASE UNCHANGED vars
  BY <1>1, <1>6 DEF vars, discovery, identity, people
<1>7. ASSUME NEW d \in Discoverers, Persists(d) PROVE Keyed'
  BY <1>7, PersistsKeyed
<1> QED
  BY <1>2, <1>3, <1>4, <1>5, <1>6, <1>7, ResolvesKeyed, ForgetsKeyed DEF Next

\* With one process for discover jobs every key of a stored candidate leads to its entity
\* or an operator was told of the conflict, whatever deletions and opt-outs come between
\* the reads and the writes of a page (resolve_entity).
THEOREM KeysAreAccounted ==
  ASSUME \A d, x \in Discoverers : d = x
  PROVE  Spec => []KeysAccounted
<1>1. Init => Keyed
  BY DEF Init, Keyed, KeysAccounted
<1>2. RowInv /\ Keyed /\ [Next]_vars => Keyed'
  BY KeyedStep
<1>3. Keyed => KeysAccounted
  BY DEF Keyed
<1> QED
  BY <1>1, <1>2, <1>3, RowInvariant, PTL DEF Spec
====
