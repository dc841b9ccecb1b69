---- MODULE BudgetProofs ----
(***************************************************************************)
(* Theorems about Budget for every set of cohorts and every bound: what    *)
(* one actor of each kind, which is the deployment the documents describe, *)
(* keeps exact, and what holds for any number of them: the types, and that *)
(* the total of the caps is raised by nothing but a halved overdraft.      *)
(***************************************************************************)
EXTENDS Budget, SumProofs, FiniteSetTheorems, SequenceTheorems, TLAPS

Bands == Brakes \cup {"none"}

----
\* The brake.

\* What makes BrakedOnce inductive: a classify job that is about to act read this month's
\* audit rows, and they still do not hold its event.
BrakeInv ==
    /\ braked \in [Cohorts -> [Brakes -> Nat]]
    /\ judging \in [Classifiers -> [cohort : Cohorts \cup {NoCohort}, view : 0..2, event : Bands]]
    /\ BrakedOnce
    /\ \A w \in Classifiers :
          LET job == judging[w]
          IN  /\ job.cohort = NoCohort => job.event = "none"
              /\ job.event # "none" => braked[job.cohort][job.event] = 0

\* A classify job starts: its verdict is an event only if the month has no row of it.
LEMMA JudgeReads ==
    ASSUME BudgetAssumption, BrakeInv, NEW w \in Classifiers, NEW c \in Replying, Judge(w, c)
    PROVE  BrakeInv'
<1>1. c \in Cohorts /\ c # NoCohort
    BY DEF BudgetAssumption
<1>2. PICK view \in {v \in 0..2 : v - mood[c] \in -1..1} :
         judging' = [judging EXCEPT ![w] = [cohort |-> c, view |-> view,
                         event |-> Verdict(c, view, classified[c] + 1)]]
    BY DEF Judge
<1> DEFINE event == Verdict(c, view, classified[c] + 1)
<1>3. event \in Bands /\ (event # "none" => braked[c][event] = 0)
    BY DEF Verdict, Bands, Brakes
<1>4. UNCHANGED braked
    BY DEF Judge
<1> HIDE DEF event
<1>5. judging' = [judging EXCEPT ![w] = [cohort |-> c, view |-> view, event |-> event]]
    BY <1>2 DEF event
<1>6. judging' \in [Classifiers -> [cohort : Cohorts \cup {NoCohort}, view : 0..2, event : Bands]]
    BY <1>1, <1>3, <1>5 DEF BrakeInv
<1> QED
    BY <1>1, <1>3, <1>4, <1>5, <1>6 DEF BrakeInv, BrakedOnce

\* A classify job commits: with no other job in flight, its event's count goes from 0 to 1.
LEMMA JudgedKeeps ==
    ASSUME BudgetAssumption, BrakeInv, NEW w \in Classifiers, Judged(w),
           \A x, y \in Classifiers : x = y
    PROVE  BrakeInv'
<1> DEFINE job == judging[w]
<1>1. job \in [cohort : Cohorts \cup {NoCohort}, view : 0..2, event : Bands]
    BY DEF BrakeInv
<1>2. job.cohort \in Cohorts
    BY <1>1 DEF Judged
<1>3. judging' = [judging EXCEPT ![w] = NoJob]
    BY DEF Judged
<1>4. judging' \in [Classifiers -> [cohort : Cohorts \cup {NoCohort}, view : 0..2, event : Bands]]
    BY <1>3 DEF BrakeInv, NoJob, Bands
<1>5. \A x \in Classifiers : judging'[x].event = "none"
    BY <1>3 DEF BrakeInv, NoJob
<1>6. /\ braked' \in [Cohorts -> [Brakes -> Nat]]
      /\ BrakedOnce'
    <2>1. CASE job.event = "none"
        BY <2>1 DEF Judged, BrakeInv, BrakedOnce
    <2>2. CASE job.event # "none"
        <3>1. braked' = [braked EXCEPT ![job.cohort][job.event] = @ + 1]
            BY <2>2 DEF Judged
        <3>2. job.event \in Brakes /\ braked[job.cohort][job.event] = 0
            BY <1>1, <2>2 DEF BrakeInv, Bands
        <3> QED
            BY <1>2, <3>1, <3>2 DEF BrakeInv, BrakedOnce
    <2> QED
        BY <2>1, <2>2
<1> QED
    BY <1>4, <1>5, <1>6 DEF BrakeInv

LEMMA BrakeStep ==
    ASSUME BudgetAssumption, BrakeInv, [Next]_vars, \A x, y \in Classifiers : x = y
    PROVE  BrakeInv'
<1> USE BudgetAssumption
<1>1. CASE UNCHANGED <<judging, braked>>
    BY <1>1 DEF BrakeInv, BrakedOnce
<1>2. ASSUME NEW w \in Classifiers, NEW c \in Replying, Judge(w, c) PROVE BrakeInv'
    BY <1>2, JudgeReads
<1>3. ASSUME NEW w \in Classifiers, Judged(w) PROVE BrakeInv'
    BY <1>3, JudgedKeeps
<1>4. CASE NextMonth
    <2>1. braked' = [c \in Cohorts |-> [b \in Brakes |-> 0]] /\ UNCHANGED judging
        BY <1>4 DEF NextMonth
    <2>2. \A w \in Classifiers : judging[w].event = "none"
        BY <1>4 DEF NextMonth, BrakeInv
    <2> QED
        BY <2>1, <2>2 DEF BrakeInv, BrakedOnce
<1>5. ASSUME NEW m \in Miners, Mine(m) \/ AutoReview(m) \/ Commit(m) \/ Abort(m)
      PROVE  UNCHANGED <<judging, braked>>
    BY <1>5 DEF Mine, AutoReview, Commit, Abort, brake
<1>6. ASSUME NEW o \in Operators,
             Approve(o) \/ \E i \in DOMAIN props : ReadOpen(o, i) \/ Decline(o, i)
      PROVE  UNCHANGED <<judging, braked>>
    BY <1>6 DEF Approve, ReadOpen, Decline, brake
<1>7. CASE \E i \in DOMAIN props : MemoryLapses(i)
    BY <1>1, <1>7 DEF MemoryLapses, brake
<1>8. CASE \E c \in Cohorts : SetCap(c)
    BY <1>1, <1>8 DEF SetCap, brake
<1>9. CASE UNCHANGED vars
    BY <1>1, <1>9 DEF vars, brake
<1> QED
    BY <1>1, <1>2, <1>3, <1>4, <1>5, <1>6, <1>7, <1>8, <1>9 DEF Next

\* With one classify worker a cohort is braked once a month by each event, whatever else
\* discovery, the operators and the calendar do (stats/sentiment.evaluate_cohort).
THEOREM BrakeIsOnce ==
    ASSUME \A x, y \in Classifiers : x = y
    PROVE  Spec => []BrakedOnce
<1>1. Init => BrakeInv
    BY DEF Init, BrakeInv, BrakedOnce, NoJob, Bands
<1>2. BrakeInv /\ [Next]_vars => BrakeInv'
    BY BrakeStep, BudgetAssumption
<1>3. BrakeInv => BrakedOnce
    BY DEF BrakeInv
<1> QED
    BY <1>1, <1>2, <1>3, PTL DEF Spec

----
\* Proposals.

Ran(s) == {s[i] : i \in DOMAIN s}

\* A row has the columns of the table, whatever their values.
IsRow(p) ==
    DOMAIN p = {"kind", "key", "action", "from", "to", "amount", "status", "remembered", "applied"}

IsTable(s) == s \in Seq(Ran(s)) /\ \A i \in DOMAIN s : IsRow(s[i])

Fresh(p) == IsRow(p) /\ p.status = "open" /\ p.remembered = FALSE /\ p.applied = 0

\* What makes AppliedOnce inductive: a proposal that somebody has read and will apply is still
\* open, and hands_off and the humans read proposals of different kinds.
AppliedInv ==
    /\ IsTable(props)
    /\ AppliedOnce
    /\ mining = [m \in Miners |-> mining[m]]
    /\ \A m \in Miners :
          /\ DOMAIN mining[m] = {"phase", "drafts", "open"}
          /\ mining[m].drafts \in Seq(Ran(mining[m].drafts))
          /\ \A k \in DOMAIN mining[m].drafts : Fresh(mining[m].drafts[k])
          /\ \A i \in mining[m].open :
                /\ i \in DOMAIN props /\ handsOff
                /\ props[i].status = "open" /\ props[i].kind \in AutoApplicable
    /\ deciding = [o \in Operators |-> deciding[o]]
    /\ \A o \in Operators : deciding[o] # 0 =>
          /\ deciding[o] \in DOMAIN props /\ props[deciding[o]].status = "open"
          /\ handsOff => props[deciding[o]].kind \notin AutoApplicable

OneOfEach ==
    /\ OneDecider
    /\ \A m, n \in Miners : m = n
    /\ \A o, p \in Operators : o = p

LEMMA IsSequence ==
    ASSUME NEW n \in Nat, NEW s, DOMAIN s = 1..n, s = [i \in 1..n |-> s[i]]
    PROVE  s \in Seq(Ran(s))
<1>1. s \in [1..n -> Ran(s)]
    BY DEF Ran
<1> QED
    BY <1>1

\* Appending two sequences, without a common set of elements.
LEMMA Appended ==
    ASSUME NEW s, NEW t, s \in Seq(Ran(s)), t \in Seq(Ran(t))
    PROVE  /\ DOMAIN s = 1..Len(s) /\ Len(s) \in Nat
           /\ DOMAIN (s \o t) = 1..Len(s \o t) /\ Len(s \o t) \in Nat
           /\ DOMAIN s \subseteq DOMAIN (s \o t)
           /\ \A i \in DOMAIN s : (s \o t)[i] = s[i]
           /\ \A i \in DOMAIN (s \o t) \ DOMAIN s :
                 i - Len(s) \in DOMAIN t /\ (s \o t)[i] = t[i - Len(s)]
<1> DEFINE S == Ran(s) \cup Ran(t)
<1>1. s \in Seq(S) /\ t \in Seq(S)
    BY SeqMonotonic
<1> HIDE DEF S
<1>2. /\ s \o t \in Seq(S)
      /\ Len(s \o t) = Len(s) + Len(t)
      /\ \A i \in 1..Len(s) + Len(t) :
            (s \o t)[i] = IF i <= Len(s) THEN s[i] ELSE t[i - Len(s)]
    BY <1>1, ConcatProperties
<1>3. /\ Len(s) \in Nat /\ DOMAIN s = 1..Len(s)
      /\ Len(t) \in Nat /\ DOMAIN t = 1..Len(t)
      /\ DOMAIN (s \o t) = 1..Len(s \o t)
    BY <1>1, <1>2, LenProperties
<1>4. \A i \in DOMAIN (s \o t) \ DOMAIN s :
         i - Len(s) \in DOMAIN t /\ (s \o t)[i] = t[i - Len(s)]
    BY <1>2, <1>3
<1> QED
    BY <1>2, <1>3, <1>4

LEMMA ImageIsFinite ==
    ASSUME NEW S, IsFiniteSet(S), NEW f, f = [x \in S |-> f[x]]
    PROVE  IsFiniteSet(Ran(f))
<1>1. f \in [S -> Ran(f)] /\ \A t \in Ran(f) : \E x \in S : f[x] = t
    BY DEF Ran
<1>2. f \in Surjection(S, Ran(f))
    BY <1>1 DEF Surjection
<1> QED
    BY <1>2, FS_Surjection

\* Every order of a finite set is a sequence of its elements.
LEMMA OrdersAreSequences ==
    ASSUME NEW S, IsFiniteSet(S), NEW s \in SetToSeqs(S)
    PROVE  /\ s \in Seq(Ran(s)) /\ \A k \in DOMAIN s : s[k] \in S
           /\ \A k, l \in DOMAIN s : s[k] = s[l] => k = l
<1>1. Cardinality(S) \in Nat
    BY FS_CardinalityType
<1>2. /\ s \in [1..Cardinality(S) -> S]
      /\ \A k, l \in 1..Cardinality(S) : k # l => s[k] # s[l]
    BY Zenon DEF SetToSeqs
<1> QED
    BY <1>1, <1>2, IsSequence

LEMMA DraftIsFresh ==
    ASSUME NEW kind, NEW key, NEW action, NEW from, NEW to, NEW amount
    PROVE  Fresh(Draft(kind, key, action, from, to, amount))
    BY DEF Fresh, IsRow, Draft

\* analyze drafts finitely many fresh rows.
LEMMA AnalysisIsFresh ==
    ASSUME IsFiniteSet(Cohorts), NEW outcome, NEW best, NEW worst
    PROVE  /\ IsFiniteSet(Analysis(outcome, best, worst))
           /\ \A d \in Analysis(outcome, best, worst) : Fresh(d)
<1> DEFINE shift == Draft("budget_shift", <<"budget_shift", worst, best>>, "shift", worst, best,
                          AtLeastOne(cap[worst] \div 4))
           flag == [c \in Cohorts |->
                      Draft("opportunity", <<"zero_conv", c>>, "edit", NoCohort, NoCohort, 0)]
<1>1. IsFiniteSet(Ran(flag) \cup {shift})
    <2>1. IsFiniteSet(Ran(flag))
        BY ImageIsFinite
    <2>2. IsFiniteSet({shift})
        BY FS_Singleton
    <2> HIDE DEF flag, shift
    <2> QED
        BY <2>1, <2>2, FS_Union
<1>2. Analysis(outcome, best, worst) \subseteq Ran(flag) \cup {shift}
    BY Zenon DEF Analysis, Ran
<1>3. \A d \in Ran(flag) \cup {shift} : Fresh(d)
    BY DraftIsFresh DEF Ran
<1> HIDE DEF flag, shift
<1> QED
    BY <1>1, <1>2, <1>3, FS_Subset

\* One shift at most, and one flag for a cohort.
LEMMA AnalysisKeys ==
    ASSUME NEW outcome, NEW best, NEW worst
    PROVE  /\ \A d \in Analysis(outcome, best, worst) : d.key[1] \in {"budget_shift", "zero_conv"}
           /\ \A d, x \in Analysis(outcome, best, worst) : d.key = x.key => d = x
<1> DEFINE shift == Draft("budget_shift", <<"budget_shift", worst, best>>, "shift", worst, best,
                          AtLeastOne(cap[worst] \div 4))
           flag(c) == Draft("opportunity", <<"zero_conv", c>>, "edit", NoCohort, NoCohort, 0)
<1>1. \A d \in Analysis(outcome, best, worst) : d = shift \/ \E c \in Cohorts : d = flag(c)
    BY Zenon DEF Analysis
<1>2. shift.key[1] = "budget_shift" /\ \A c \in Cohorts : flag(c).key = <<"zero_conv", c>>
    BY DEF Draft
<1>3. \A b, c \in Cohorts : flag(b).key = flag(c).key => b = c
    BY <1>2
<1> HIDE DEF shift, flag
<1>4. \A c \in Cohorts : flag(c).key[1] = "zero_conv"
    BY <1>2
<1> QED
    BY <1>1, <1>2, <1>3, <1>4

\* A row that the caps can be moved by.
Priced(p) ==
    /\ p.amount \in Nat /\ p.applied \in Nat
    /\ p.action = "shift" => p.from \in Cohorts

LEMMA AtLeastOneType ==
    ASSUME NEW n \in Nat, NEW k \in Nat \ {0}
    PROVE  n \div k \in Nat /\ AtLeastOne(n \div k) \in Nat
    BY DEF AtLeastOne

\* A draft of discover moves a natural number of sends out of a cohort.
LEMMA DraftsArePriced ==
    ASSUME cap \in [Cohorts -> Nat], NEW outcome, NEW best \in Cohorts, NEW worst \in Cohorts,
           NEW top \in Cohorts
    PROVE  /\ \A d \in Analysis(outcome, best, worst) : Priced(d)
           /\ \A c \in Cohorts : Priced(Rebalance(outcome, c, top))
           /\ \A idea \in Ideas : Priced(IdeaDraft(idea))
<1> DEFINE amount == AtLeastOne(cap[worst] \div 4)
           shift == Draft("budget_shift", <<"budget_shift", worst, best>>, "shift", worst, best,
                          amount)
           flag(c) == Draft("opportunity", <<"zero_conv", c>>, "edit", NoCohort, NoCohort, 0)
<1>1. \A d \in Analysis(outcome, best, worst) : d = shift \/ \E c \in Cohorts : d = flag(c)
    BY Zenon DEF Analysis
<1>2. amount \in Nat
    BY AtLeastOneType
<1>3. \A c \in Cohorts : AtLeastOne(cap[c] \div 2) \in Nat
    BY AtLeastOneType
<1> HIDE DEF amount
<1>4. Priced(shift) /\ \A c \in Cohorts : Priced(flag(c))
    BY <1>2 DEF Priced, Draft
<1>5. \A c \in Cohorts : Priced(Rebalance(outcome, c, top))
    BY <1>3 DEF Priced, Draft, Rebalance
<1>6. \A idea \in Ideas : Priced(IdeaDraft(idea))
    BY DEF Priced, Draft, IdeaDraft
<1> HIDE DEF shift, flag
<1> QED
    BY <1>1, <1>4, <1>5, <1>6

\* What a discover command drafts is finite, and every draft is a fresh row.
LEMMA DraftsAreFresh ==
    ASSUME IsFiniteSet(Cohorts), IsFiniteSet(Ideas), NEW m \in Miners, Mine(m)
    PROVE  \E drafts :
              /\ mining' = [mining EXCEPT ![m] = [phase |-> "mined", drafts |-> drafts,
                                                 open |-> {}]]
              /\ drafts \in Seq(Ran(drafts))
              /\ \A k \in DOMAIN drafts : Fresh(drafts[k]) /\ ~Suppressed(drafts[k].key)
              /\ \A k, l \in DOMAIN drafts : drafts[k].key = drafts[l].key => k = l
              /\ cap \in [Cohorts -> Nat] => \A k \in DOMAIN drafts : Priced(drafts[k])
<1>1. PICK outcome \in [Cohorts -> Outcomes], ideas \in SUBSET Ideas :
         \E best, worst, top \in Cohorts :
            /\ IsExtreme(outcome, best, worst)
            /\ \A c \in Cohorts : Rate(outcome[c]) <= Rate(outcome[top])
            /\ LET wanted == Analysis(outcome, best, worst)
                             \cup {Rebalance(outcome, c, top) : c \in {d \in Cohorts : outcome[d].flagged}}
                             \cup {IdeaDraft(idea) : idea \in ideas}
                   kept == {d \in wanted : ~Suppressed(d.key)}
               IN  /\ Len(props) + Cardinality(kept) <= MaxProposals
                   /\ \E drafts \in SetToSeqs(kept) :
                         mining' = [mining EXCEPT ![m] = [phase |-> "mined", drafts |-> drafts,
                                                          open |-> {}]]
    BY Zenon DEF Mine
<1>2. PICK best, worst, top \in Cohorts :
            /\ IsExtreme(outcome, best, worst)
            /\ \A c \in Cohorts : Rate(outcome[c]) <= Rate(outcome[top])
            /\ LET wanted == Analysis(outcome, best, worst)
                             \cup {Rebalance(outcome, c, top) : c \in {d \in Cohorts : outcome[d].flagged}}
                             \cup {IdeaDraft(idea) : idea \in ideas}
                   kept == {d \in wanted : ~Suppressed(d.key)}
               IN  /\ Len(props) + Cardinality(kept) <= MaxProposals
                   /\ \E drafts \in SetToSeqs(kept) :
                         mining' = [mining EXCEPT ![m] = [phase |-> "mined", drafts |-> drafts,
                                                          open |-> {}]]
    BY <1>1, Zenon
<1> DEFINE below == {d \in Cohorts : outcome[d].flagged}
           floors == [c \in below |-> Rebalance(outcome, c, top)]
           models == [idea \in ideas |-> IdeaDraft(idea)]
           wanted == Analysis(outcome, best, worst) \cup Ran(floors) \cup Ran(models)
           kept == {d \in wanted : ~Suppressed(d.key)}
<1>3. IsFiniteSet(kept)
    <2>1. IsFiniteSet(below) /\ IsFiniteSet(ideas)
        BY FS_Subset
    <2>2. IsFiniteSet(Ran(floors)) /\ IsFiniteSet(Ran(models))
        <3> HIDE DEF below
        <3> QED
            BY <2>1, ImageIsFinite
    <2>3. IsFiniteSet(Analysis(outcome, best, worst))
        BY AnalysisIsFresh
    <2>4. IsFiniteSet(wanted)
        <3> HIDE DEF floors, models
        <3> QED
            BY <2>2, <2>3, FS_Union
    <2> HIDE DEF wanted
    <2> QED
        BY <2>4, FS_Subset
<1>4. \A d \in wanted : Fresh(d)
    <2>1. \A c \in below : Fresh(floors[c])
        BY DraftIsFresh DEF Rebalance
    <2>2. \A idea \in ideas : Fresh(models[idea])
        BY DraftIsFresh DEF IdeaDraft
    <2> HIDE DEF Fresh
    <2> QED
        BY <2>1, <2>2, AnalysisIsFresh DEF Ran
<1>5. PICK drafts \in SetToSeqs(kept) :
         mining' = [mining EXCEPT ![m] = [phase |-> "mined", drafts |-> drafts, open |-> {}]]
    <2>1. /\ Ran(floors) = {Rebalance(outcome, c, top) : c \in below}
          /\ Ran(models) = {IdeaDraft(idea) : idea \in ideas}
        BY DEF Ran
    <2>2. kept = {d \in Analysis(outcome, best, worst)
                       \cup {Rebalance(outcome, c, top) : c \in below}
                       \cup {IdeaDraft(idea) : idea \in ideas} : ~Suppressed(d.key)}
        BY <2>1, Zenon
    <2> QED
        BY <1>2, <2>2, Zenon
<1>6. \A d, x \in wanted : d.key = x.key => d = x
    <2>1. ASSUME NEW d \in Analysis(outcome, best, worst), NEW x \in Analysis(outcome, best, worst),
                 d.key = x.key
          PROVE  d = x
        BY <2>1, AnalysisKeys
    <2>2. \A d \in Analysis(outcome, best, worst) : d.key[1] \in {"budget_shift", "zero_conv"}
        BY AnalysisKeys
    <2>3. \A c \in below : floors[c].key = <<"rebalance", c>>
        BY DEF Rebalance, Draft
    <2>4. \A idea \in ideas :
             /\ models[idea].key = idea
             /\ idea[1] \notin {"budget_shift", "rebalance", "zero_conv"}
        BY BudgetAssumption DEF IdeaDraft, Draft, AutoApplicable
    <2>5. \A d \in Ran(floors) : d.key[1] = "rebalance" /\ \E c \in below : d = floors[c]
        <3>1. Ran(floors) = {floors[c] : c \in below}
            BY DEF Ran
        <3> HIDE DEF floors, below
        <3>2. \A c \in below : floors[c].key[1] = "rebalance"
            BY <2>3
        <3> QED
            BY <3>1, <3>2
    <2>6. \A d \in Ran(models) : /\ d.key[1] \notin {"budget_shift", "rebalance", "zero_conv"}
                                 /\ \E idea \in ideas : d = models[idea]
        BY <2>4 DEF Ran
    <2>7. ASSUME NEW d \in Ran(floors), NEW x \in Ran(floors), d.key = x.key PROVE d = x
        <3>1. PICK b \in below, c \in below : d = floors[b] /\ x = floors[c]
            BY <2>5
        <3>2. <<"rebalance", b>> = <<"rebalance", c>>
            BY <2>3, <2>7, <3>1
        <3>3. b = c
            BY <3>2
        <3> QED
            BY <3>1, <3>3
    <2>8. ASSUME NEW d \in Ran(models), NEW x \in Ran(models), d.key = x.key PROVE d = x
        BY <2>4, <2>6, <2>8
    <2> HIDE DEF floors, models
    <2> QED
        BY <2>1, <2>2, <2>5, <2>6, <2>7, <2>8
<1> HIDE DEF kept
<1>7. /\ drafts \in Seq(Ran(drafts)) /\ \A k \in DOMAIN drafts : drafts[k] \in kept
      /\ \A k, l \in DOMAIN drafts : drafts[k] = drafts[l] => k = l
    BY <1>3, OrdersAreSequences
<1>8. /\ \A k \in DOMAIN drafts : Fresh(drafts[k]) /\ ~Suppressed(drafts[k].key)
      /\ \A k, l \in DOMAIN drafts : drafts[k].key = drafts[l].key => k = l
    <2> HIDE DEF wanted, Fresh, Suppressed
    <2> QED
        BY <1>4, <1>6, <1>7 DEF kept
<1>9. ASSUME cap \in [Cohorts -> Nat] PROVE \A k \in DOMAIN drafts : Priced(drafts[k])
    <2>1. \A c \in below : Priced(floors[c])
        BY <1>9, DraftsArePriced
    <2>2. \A idea \in ideas : Priced(models[idea])
        BY <1>9, DraftsArePriced
    <2>3. \A d \in Analysis(outcome, best, worst) : Priced(d)
        BY <1>9, DraftsArePriced
    <2>4. \A d \in wanted : Priced(d)
        <3> HIDE DEF Priced
        <3> QED
            BY <2>1, <2>2, <2>3 DEF Ran
    <2>5. \A k \in DOMAIN drafts : drafts[k] \in wanted
        BY <1>7 DEF kept
    <2> QED
        BY <2>4, <2>5
<1> QED
    BY <1>5, <1>7, <1>8, <1>9

\* A step of a miner leaves its transaction with its drafts or with the open proposals it saw.
MinedOK(job) ==
    /\ DOMAIN job = {"phase", "drafts", "open"}
    /\ job.drafts \in Seq(Ran(job.drafts))
    /\ \A k \in DOMAIN job.drafts : Fresh(job.drafts[k])
    /\ \A i \in job.open :
          /\ i \in DOMAIN props /\ handsOff
          /\ props[i].status = "open" /\ props[i].kind \in AutoApplicable

LEMMA NoDraftsOK == MinedOK(NoDrafts)
<1>1. /\ NoDrafts.drafts = <<>> /\ NoDrafts.open = {}
      /\ DOMAIN NoDrafts = {"phase", "drafts", "open"}
    BY DEF NoDrafts
<1>2. <<>> \in Seq(Ran(<<>>)) /\ DOMAIN <<>> = {}
    OBVIOUS
<1> QED
    BY <1>1, <1>2 DEF MinedOK

LEMMA MinerMoves ==
    ASSUME AppliedInv, NEW m \in Miners, NEW job, MinedOK(job),
           mining' = [mining EXCEPT ![m] = job], UNCHANGED <<handsOff, props, deciding>>
    PROVE  AppliedInv'
<1>1. DOMAIN mining = Miners
    BY DEF AppliedInv
<1>2. /\ mining' = [n \in Miners |-> mining'[n]]
      /\ \A n \in Miners : mining'[n] = IF n = m THEN job ELSE mining[n]
    BY <1>1
<1> QED
    BY <1>2 DEF AppliedInv, AppliedOnce, MinedOK

\* discover's reads, and its rollback.
LEMMA MinerReads ==
    ASSUME AppliedInv, IsFiniteSet(Cohorts), IsFiniteSet(Ideas), NEW m \in Miners,
           Mine(m) \/ AutoReview(m) \/ Abort(m)
    PROVE  AppliedInv'
<1>1. CASE Mine(m)
    <2>1. PICK drafts :
             /\ mining' = [mining EXCEPT ![m] = [phase |-> "mined", drafts |-> drafts,
                                                open |-> {}]]
             /\ drafts \in Seq(Ran(drafts))
             /\ \A k \in DOMAIN drafts : Fresh(drafts[k])
        BY <1>1, DraftsAreFresh
    <2>2. MinedOK([phase |-> "mined", drafts |-> drafts, open |-> {}])
        BY <2>1 DEF MinedOK
    <2>3. UNCHANGED <<handsOff, props, deciding>>
        BY <1>1 DEF Mine
    <2> QED
        BY <2>1, <2>2, <2>3, MinerMoves
<1>2. CASE AutoReview(m)
    <2> DEFINE seen == {i \in DOMAIN props : /\ handsOff
                                            /\ props[i].status = "open"
                                            /\ props[i].kind \in AutoApplicable}
               job == [[mining[m] EXCEPT !.phase = "reviewed"] EXCEPT !.open = seen]
    <2>1. mining' = [mining EXCEPT ![m] = job]
        BY <1>2 DEF AutoReview, AppliedInv
    <2>2. MinedOK(job)
        <3>1. /\ DOMAIN job = {"phase", "drafts", "open"}
              /\ job.drafts = mining[m].drafts /\ job.open = seen
            BY DEF AppliedInv
        <3> HIDE DEF job
        <3> QED
            BY <3>1 DEF MinedOK, AppliedInv
    <2>3. UNCHANGED <<handsOff, props, deciding>>
        BY <1>2 DEF AutoReview
    <2> QED
        BY <2>1, <2>2, <2>3, MinerMoves
<1>3. CASE Abort(m)
    BY <1>3, MinerMoves, NoDraftsOK DEF Abort
<1> QED
    BY <1>1, <1>2, <1>3

\* Approving an open row applies it once.
LEMMA ApprovedOnce ==
    ASSUME NEW p, IsRow(p)
    PROVE  /\ IsRow(Approved(p)) /\ Approved(p).status = "approved"
           /\ Approved(p).applied = p.applied + 1 /\ Approved(p).kind = p.kind
    BY DEF Approved, IsRow

\* The commit of discover: hands_off applies what it read as open, and no human had it.
LEMMA CommitKeeps ==
    ASSUME AppliedInv, OneOfEach, NEW m \in Miners, Commit(m)
    PROVE  AppliedInv'
<1> DEFINE drafts == mining[m].drafts
           all == props \o drafts
           taken == {i \in DOMAIN all : IF i \in DOMAIN props THEN i \in mining[m].open
                                        ELSE handsOff /\ all[i].kind \in AutoApplicable}
<1>1. /\ props' = [i \in DOMAIN all |-> IF i \in taken THEN Approved(all[i]) ELSE all[i]]
      /\ mining' = [mining EXCEPT ![m] = NoDrafts]
      /\ UNCHANGED <<handsOff, deciding>>
    BY Zenon DEF Commit
<1>2. /\ DOMAIN all = 1..Len(all) /\ Len(all) \in Nat /\ DOMAIN props \subseteq DOMAIN all
      /\ \A i \in DOMAIN props : all[i] = props[i]
      /\ \A i \in DOMAIN all \ DOMAIN props : \E k \in DOMAIN drafts : all[i] = drafts[k]
    <2>1. props \in Seq(Ran(props)) /\ drafts \in Seq(Ran(drafts))
        BY DEF AppliedInv, IsTable
    <2> HIDE DEF drafts
    <2> QED
        BY <2>1, Appended
<1>3. \A i \in DOMAIN all \ DOMAIN props : Fresh(all[i])
    BY <1>2 DEF AppliedInv
<1> HIDE DEF all
<1>4. \A i \in DOMAIN all : IsRow(all[i])
    BY <1>2, <1>3 DEF AppliedInv, IsTable, Fresh
<1>5. \A i \in taken : all[i].status = "open" /\ all[i].applied = 0
    BY <1>2, <1>3 DEF AppliedInv, AppliedOnce, Fresh
<1>6. \A i \in DOMAIN all \ taken : all[i].applied = IF all[i].status = "approved" THEN 1 ELSE 0
    BY <1>2, <1>3 DEF AppliedInv, AppliedOnce, Fresh
<1>7. /\ DOMAIN props' = DOMAIN all
      /\ \A i \in DOMAIN all : props'[i] = IF i \in taken THEN Approved(all[i]) ELSE all[i]
    BY <1>1
<1>8. IsTable(props)'
    <2>1. props' = [i \in 1..Len(all) |-> props'[i]] /\ DOMAIN props' = 1..Len(all)
        BY <1>1, <1>2, <1>7
    <2>2. props' \in Seq(Ran(props'))
        BY <1>2, <2>1, IsSequence
    <2>3. \A i \in DOMAIN props' : IsRow(props'[i])
        BY <1>4, <1>7, ApprovedOnce
    <2> QED
        BY <2>2, <2>3 DEF IsTable, Ran, IsRow
<1>9. AppliedOnce'
    BY <1>4, <1>5, <1>6, <1>7, ApprovedOnce DEF AppliedOnce
<1>10. \A n \in Miners : mining'[n] = NoDrafts
    BY <1>1 DEF OneOfEach, AppliedInv
<1>11. \A o \in Operators : deciding[o] # 0 =>
          /\ deciding[o] \in DOMAIN props' /\ props'[deciding[o]].status = "open"
          /\ handsOff => props'[deciding[o]].kind \notin AutoApplicable
    <2> SUFFICES ASSUME NEW o \in Operators, deciding[o] # 0
                 PROVE  /\ deciding[o] \in DOMAIN props'
                        /\ props'[deciding[o]] = props[deciding[o]]
        BY DEF AppliedInv
    <2>1. deciding[o] \in DOMAIN props
        BY DEF AppliedInv
    <2>2. deciding[o] \notin taken
        BY <2>1 DEF AppliedInv
    <2> QED
        BY <1>2, <1>7, <2>1, <2>2
<1> HIDE DEF taken
<1>13. mining' = [n \in Miners |-> mining'[n]]
    BY <1>1 DEF AppliedInv
<1>14. \A n \in Miners :
          /\ DOMAIN mining'[n] = {"phase", "drafts", "open"}
          /\ mining'[n].drafts \in Seq(Ran(mining'[n].drafts))
          /\ \A k \in DOMAIN mining'[n].drafts : Fresh(mining'[n].drafts[k])
          /\ mining'[n].open = {}
    <2>1. /\ NoDrafts.open = {}
          /\ MinedOK(NoDrafts)
        BY NoDraftsOK DEF NoDrafts
    <2> QED
        BY <1>10, <2>1 DEF MinedOK
<1>15. deciding' = [o \in Operators |-> deciding'[o]]
    BY <1>1 DEF AppliedInv
<1> QED
    BY <1>1, <1>8, <1>9, <1>11, <1>13, <1>14, <1>15 DEF AppliedInv

\* A step that rewrites one row, of a kind or a status no open list of a miner holds, and
\* leaves what is open to whoever is about to decide it.
LEMMA RowRewritten ==
    ASSUME AppliedInv, NEW i \in DOMAIN props, NEW row, IsRow(row),
           row.applied = IF row.status = "approved" THEN 1 ELSE 0, row.kind = props[i].kind,
           props' = [props EXCEPT ![i] = row], UNCHANGED <<handsOff, mining>>,
           row.status # props[i].status => \A m \in Miners : i \notin mining[m].open,
           deciding' = [o \in Operators |-> deciding'[o]],
           \A o \in Operators : deciding'[o] # 0 =>
               deciding'[o] = deciding[o] /\ (deciding[o] = i => row.status = props[i].status)
    PROVE  AppliedInv'
<1>1. /\ Len(props) \in Nat /\ DOMAIN props = 1..Len(props)
      /\ props = [k \in DOMAIN props |-> props[k]]
    BY LenProperties DEF AppliedInv, IsTable
<1>2. /\ DOMAIN props' = DOMAIN props
      /\ \A k \in DOMAIN props : props'[k] = IF k = i THEN row ELSE props[k]
    BY <1>1
<1>3. IsTable(props)'
    <2>1. props' = [k \in 1..Len(props) |-> props'[k]]
        BY <1>1, <1>2
    <2>2. props' \in Seq(Ran(props'))
        BY <1>1, <2>1, IsSequence
    <2>3. \A k \in DOMAIN props' : IsRow(props'[k])
        BY <1>2 DEF AppliedInv, IsTable
    <2> QED
        BY <2>2, <2>3 DEF IsTable, Ran, IsRow
<1>4. AppliedOnce'
    BY <1>2 DEF AppliedInv, AppliedOnce
<1>5. \A m \in Miners : \A k \in mining'[m].open :
         /\ k \in DOMAIN props' /\ handsOff'
         /\ props'[k].status = "open" /\ props'[k].kind \in AutoApplicable
    BY <1>2 DEF AppliedInv
<1>6. \A o \in Operators : deciding'[o] # 0 =>
         /\ deciding'[o] \in DOMAIN props' /\ props'[deciding'[o]].status = "open"
         /\ handsOff' => props'[deciding'[o]].kind \notin AutoApplicable
    BY <1>2 DEF AppliedInv
<1>7. /\ mining' = [m \in Miners |-> mining'[m]]
      /\ \A m \in Miners :
           /\ DOMAIN mining'[m] = {"phase", "drafts", "open"}
           /\ mining'[m].drafts \in Seq(Ran(mining'[m].drafts))
           /\ \A k \in DOMAIN mining'[m].drafts : Fresh(mining'[m].drafts[k])
    BY DEF AppliedInv
<1> QED
    BY <1>3, <1>4, <1>5, <1>6, <1>7 DEF AppliedInv

\* approve, decline and the end of a decline's memory, by humans.
LEMMA HumanKeeps ==
    ASSUME AppliedInv, OneOfEach, NEW o \in Operators,
           Approve(o) \/ \E i \in DOMAIN props : ReadOpen(o, i) \/ Decline(o, i)
    PROVE  AppliedInv'
<1>1. DOMAIN deciding = Operators /\ \A p \in Operators : p = o
    BY DEF AppliedInv, OneOfEach
<1>2. CASE Approve(o)
    <2> DEFINE i == deciding[o]
               row == Approved(props[i])
    <2>1. /\ i # 0 /\ props' = [props EXCEPT ![i] = row]
          /\ deciding' = [deciding EXCEPT ![o] = 0] /\ UNCHANGED <<handsOff, mining>>
        BY <1>2 DEF Approve
    <2>2. /\ i \in DOMAIN props /\ props[i].status = "open"
          /\ handsOff => props[i].kind \notin AutoApplicable
        BY <2>1 DEF AppliedInv
    <2>3. /\ IsRow(row) /\ row.status = "approved" /\ row.applied = 1
          /\ row.kind = props[i].kind
        BY <2>2, ApprovedOnce DEF AppliedInv, AppliedOnce, IsTable
    <2>4. \A m \in Miners : i \notin mining[m].open
        BY <2>2 DEF AppliedInv
    <2>5. /\ deciding' = [p \in Operators |-> deciding'[p]]
          /\ \A p \in Operators : deciding'[p] = 0
        BY <1>1, <2>1
    <2> HIDE DEF row, i
    <2> QED
        BY <2>1, <2>2, <2>3, <2>4, <2>5, RowRewritten
<1>3. ASSUME NEW i \in DOMAIN props, ReadOpen(o, i) PROVE AppliedInv'
    <2>1. /\ deciding' = [p \in Operators |-> deciding'[p]] /\ deciding'[o] = i
          /\ props[i].status = "open" /\ (handsOff => props[i].kind \notin AutoApplicable)
          /\ UNCHANGED <<handsOff, props, mining>>
        BY <1>1, <1>3 DEF ReadOpen, OneOfEach
    <2> QED
        BY <1>1, <2>1 DEF AppliedInv, AppliedOnce
<1>4. ASSUME NEW i \in DOMAIN props, Decline(o, i) PROVE AppliedInv'
    <2> DEFINE row == [[props[i] EXCEPT !.status = "declined"] EXCEPT !.remembered = TRUE]
    <2>1. IsRow(props[i])
        BY DEF AppliedInv, IsTable
    <2>2. /\ deciding[o] = 0 /\ props[i].status = "open"
          /\ handsOff => props[i].kind \notin AutoApplicable
          /\ UNCHANGED <<handsOff, mining, deciding>>
        BY <1>4 DEF Decline, OneOfEach
    <2>3. /\ props = [k \in DOMAIN props |-> props[k]]
        BY LenProperties DEF AppliedInv, IsTable
    <2>4. props' = [props EXCEPT ![i] = row]
        BY <1>4, <2>3 DEF Decline
    <2>5. /\ IsRow(row) /\ row.status = "declined" /\ row.applied = props[i].applied
          /\ row.kind = props[i].kind
        BY <2>1 DEF IsRow
    <2>6. props[i].applied = 0
        BY <2>2 DEF AppliedInv, AppliedOnce
    <2>7. \A m \in Miners : i \notin mining[m].open
        BY <2>2 DEF AppliedInv
    <2>8. /\ deciding' = [p \in Operators |-> deciding'[p]]
          /\ \A p \in Operators : deciding'[p] = 0
        BY <1>1, <2>2 DEF AppliedInv
    <2> HIDE DEF row
    <2> QED
        BY <2>2, <2>4, <2>5, <2>6, <2>7, <2>8, RowRewritten
<1> QED
    BY <1>2, <1>3, <1>4

LEMMA LapseKeeps ==
    ASSUME AppliedInv, NEW i \in DOMAIN props, MemoryLapses(i)
    PROVE  AppliedInv'
<1> DEFINE row == [props[i] EXCEPT !.remembered = FALSE]
<1>1. IsRow(props[i])
    BY DEF AppliedInv, IsTable
<1>2. props = [k \in DOMAIN props |-> props[k]]
    BY LenProperties DEF AppliedInv, IsTable
<1>3. props' = [props EXCEPT ![i] = row] /\ UNCHANGED <<handsOff, mining, deciding>>
    BY <1>2 DEF MemoryLapses
<1>4. /\ IsRow(row) /\ row.status = props[i].status /\ row.applied = props[i].applied
      /\ row.kind = props[i].kind
    BY <1>1 DEF IsRow
<1>5. row.applied = IF row.status = "approved" THEN 1 ELSE 0
    BY <1>4 DEF AppliedInv, AppliedOnce
<1>6. deciding' = [o \in Operators |-> deciding'[o]]
    BY <1>3 DEF AppliedInv
<1> HIDE DEF row
<1> QED
    BY <1>3, <1>4, <1>5, <1>6, RowRewritten

LEMMA AppliedStep ==
    ASSUME AppliedInv, OneOfEach, IsFiniteSet(Cohorts), IsFiniteSet(Ideas), [Next]_vars
    PROVE  AppliedInv'
<1>1. ASSUME NEW m \in Miners, Mine(m) \/ AutoReview(m) \/ Abort(m) PROVE AppliedInv'
    BY <1>1, MinerReads
<1>2. ASSUME NEW m \in Miners, Commit(m) PROVE AppliedInv'
    BY <1>2, CommitKeeps
<1>3. ASSUME NEW o \in Operators,
             Approve(o) \/ \E i \in DOMAIN props : ReadOpen(o, i) \/ Decline(o, i)
      PROVE  AppliedInv'
    BY <1>3, HumanKeeps
<1>4. ASSUME NEW i \in DOMAIN props, MemoryLapses(i) PROVE AppliedInv'
    BY <1>4, LapseKeeps
<1>5. ASSUME UNCHANGED <<handsOff, props, mining, deciding>> PROVE AppliedInv'
    <2>1. props' = props /\ mining' = mining /\ deciding' = deciding /\ handsOff' = handsOff
        BY <1>5
    <2>2. IsTable(props)' /\ AppliedOnce'
        BY <2>1 DEF AppliedInv, AppliedOnce
    <2> QED
        BY <2>1, <2>2 DEF AppliedInv
<1>6. ASSUME NEW w \in Classifiers, Judged(w) \/ \E c \in Replying : Judge(w, c)
      PROVE  UNCHANGED <<handsOff, props, mining, deciding>>
    BY <1>6 DEF Judged, Judge, market
<1>7. ASSUME (\E c \in Cohorts : SetCap(c)) \/ NextMonth \/ UNCHANGED vars
      PROVE  UNCHANGED <<handsOff, props, mining, deciding>>
    BY <1>7 DEF SetCap, NextMonth, vars, market
<1> QED
    BY <1>1, <1>2, <1>3, <1>4, <1>5, <1>6, <1>7 DEF Next

LEMMA InitApplied == Init => AppliedInv
<1> SUFFICES ASSUME Init PROVE AppliedInv
    OBVIOUS
<1>1. IsTable(props) /\ AppliedOnce
    BY DEF Init, IsTable, AppliedOnce
<1>2. \A m \in Miners : mining[m] = NoDrafts
    BY DEF Init
<1>3. MinedOK(NoDrafts)
    BY NoDraftsOK
<1> HIDE DEF NoDrafts
<1> QED
    BY <1>1, <1>2, <1>3 DEF Init, AppliedInv, MinedOK

\* With one discover command, one operator and one decider of each proposal, every approved
\* proposal moved the caps exactly once and no other ever did (core/proposals.approve).
THEOREM AppliedIsOnce ==
    ASSUME OneDecider, \A m, n \in Miners : m = n, \A o, p \in Operators : o = p,
           IsFiniteSet(Cohorts), IsFiniteSet(Ideas)
    PROVE  Spec => []AppliedOnce
<1>1. Init => AppliedInv
    BY InitApplied
<1>2. AppliedInv /\ [Next]_vars => AppliedInv'
    BY AppliedStep DEF OneOfEach
<1>3. AppliedInv => AppliedOnce
    BY DEF AppliedInv
<1> QED
    BY <1>1, <1>2, <1>3, PTL DEF Spec

----
\* No direction twice.

\* A transaction's drafts are of different directions, and none is open or remembered.
Distinct(drafts) == \A k, l \in DOMAIN drafts : drafts[k].key = drafts[l].key => k = l
Unpitched(drafts, table) ==
    \A k \in DOMAIN drafts, i \in DOMAIN table :
        table[i].key = drafts[k].key => table[i].status # "open" /\ ~table[i].remembered

\* What makes NotRepitched inductive: between a miner's read and its commit nobody opens or
\* declines what it is about to file.
PitchInv ==
    /\ \A i \in DOMAIN props : props[i].remembered => props[i].status = "declined"
    /\ NotRepitched
    /\ \A m \in Miners : Distinct(mining[m].drafts) /\ Unpitched(mining[m].drafts, props)

\* A step that changes no row's key, opens none and remembers none but an open one's decline.
LEMMA RowsSettle ==
    ASSUME PitchInv, DOMAIN props' = DOMAIN props,
           \A i \in DOMAIN props :
              /\ props'[i].key = props[i].key
              /\ props'[i].status = "open" => props[i].status = "open"
              /\ props'[i].remembered =>
                    /\ props'[i].status = "declined"
                    /\ props[i].remembered \/ props[i].status = "open",
           \A m \in Miners : mining'[m].drafts = mining[m].drafts
    PROVE  PitchInv'
<1>1. NotRepitched'
    <2> SUFFICES ASSUME NEW i \in DOMAIN props, NEW j \in DOMAIN props, i # j,
                        props'[i].key = props'[j].key, props'[i].status = "open"
                 PROVE  props'[j].status # "open" /\ ~props'[j].remembered
        BY DEF NotRepitched
    <2>1. props[j].status # "open" /\ ~props[j].remembered
        BY DEF PitchInv, NotRepitched
    <2> QED
        BY <2>1
<1>2. \A m \in Miners : Distinct(mining'[m].drafts) /\ Unpitched(mining'[m].drafts, props')
    BY DEF PitchInv, Distinct, Unpitched
<1> QED
    BY <1>1, <1>2 DEF PitchInv, Distinct

\* The commit of discover: its drafts find no open or remembered row of their direction.
LEMMA CommitPitches ==
    ASSUME AppliedInv, PitchInv, OneOfEach, NEW m \in Miners, Commit(m)
    PROVE  PitchInv'
<1> DEFINE drafts == mining[m].drafts
           all == props \o drafts
           taken == {i \in DOMAIN all : IF i \in DOMAIN props THEN i \in mining[m].open
                                        ELSE handsOff /\ all[i].kind \in AutoApplicable}
           new(i) == i - Len(props)
<1>1. /\ props' = [i \in DOMAIN all |-> IF i \in taken THEN Approved(all[i]) ELSE all[i]]
      /\ mining' = [mining EXCEPT ![m] = NoDrafts]
    BY Zenon DEF Commit
<1>2. /\ DOMAIN props \subseteq DOMAIN all /\ DOMAIN all = 1..Len(all)
      /\ Len(props) \in Nat /\ Len(all) \in Nat
      /\ \A i \in DOMAIN props : all[i] = props[i]
      /\ \A i \in DOMAIN all \ DOMAIN props : new(i) \in DOMAIN drafts /\ all[i] = drafts[new(i)]
    <2>1. props \in Seq(Ran(props)) /\ drafts \in Seq(Ran(drafts))
        BY DEF AppliedInv, IsTable
    <2> HIDE DEF drafts
    <2> QED
        BY <2>1, Appended
<1>3. \A k \in DOMAIN drafts : Fresh(drafts[k])
    BY DEF AppliedInv
<1>4. Distinct(drafts) /\ Unpitched(drafts, props)
    BY DEF PitchInv
<1> HIDE DEF all, drafts
<1>5. \A i \in DOMAIN all : IsRow(all[i])
    BY <1>2, <1>3 DEF AppliedInv, IsTable, Fresh
<1>6. \A i \in taken : all[i].status = "open"
    BY <1>2, <1>3 DEF AppliedInv, Fresh
<1> HIDE DEF taken, new
<1>7. /\ DOMAIN props' = DOMAIN all
      /\ \A i \in DOMAIN all : props'[i] = IF i \in taken THEN Approved(all[i]) ELSE all[i]
    BY <1>1
<1>8. \A i \in DOMAIN all :
         /\ props'[i].key = all[i].key /\ props'[i].remembered = all[i].remembered
         /\ props'[i].status = IF i \in taken THEN "approved" ELSE all[i].status
    BY <1>5, <1>7 DEF Approved, IsRow
<1>9. \A i \in DOMAIN all : all[i].remembered => all[i].status = "declined"
    BY <1>2, <1>3 DEF PitchInv, Fresh
<1>10. \A i, j \in DOMAIN all : i # j /\ all[i].key = all[j].key /\ all[i].status = "open"
          => all[j].status # "open" /\ ~all[j].remembered
    <2> SUFFICES ASSUME NEW i \in DOMAIN all, NEW j \in DOMAIN all, i # j,
                        all[i].key = all[j].key, all[i].status = "open"
                 PROVE  all[j].status # "open" /\ ~all[j].remembered
        OBVIOUS
    <2>1. CASE i \in DOMAIN props /\ j \in DOMAIN props
        BY <1>2, <2>1 DEF PitchInv, NotRepitched
    <2>2. CASE i \in DOMAIN props /\ j \notin DOMAIN props
        BY <1>2, <1>4, <2>2 DEF Unpitched
    <2>3. CASE i \notin DOMAIN props /\ j \in DOMAIN props
        BY <1>2, <1>4, <2>3 DEF Unpitched
    <2>4. CASE i \notin DOMAIN props /\ j \notin DOMAIN props
        <3>1. new(i) = new(j)
            BY <1>2, <1>4, <2>4 DEF Distinct
        <3>2. i \in Int /\ j \in Int
            BY <1>2
        <3> QED
            BY <1>2, <3>1, <3>2 DEF new
    <2> QED
        BY <2>1, <2>2, <2>3, <2>4
<1>11. NotRepitched'
    BY <1>7, <1>8, <1>10 DEF NotRepitched
<1>12. \A i \in DOMAIN props' : props'[i].remembered => props'[i].status = "declined"
    BY <1>6, <1>7, <1>8, <1>9
<1>13. \A n \in Miners : mining'[n].drafts = <<>>
    BY <1>1 DEF OneOfEach, AppliedInv, NoDrafts
<1>14. \A n \in Miners : Distinct(mining'[n].drafts) /\ Unpitched(mining'[n].drafts, props')
    BY <1>13 DEF Distinct, Unpitched
<1> QED
    BY <1>11, <1>12, <1>14 DEF PitchInv, Distinct

LEMMA PitchStep ==
    ASSUME AppliedInv, PitchInv, OneOfEach, IsFiniteSet(Cohorts), IsFiniteSet(Ideas), [Next]_vars
    PROVE  PitchInv'
<1>1. ASSUME UNCHANGED props, \A m \in Miners : mining'[m].drafts = mining[m].drafts
      PROVE  PitchInv'
    BY <1>1, RowsSettle DEF PitchInv
<1>2. ASSUME NEW m \in Miners, NEW job, Distinct(job.drafts), Unpitched(job.drafts, props),
             mining' = [mining EXCEPT ![m] = job], UNCHANGED props
      PROVE  PitchInv'
    <2>1. \A n \in Miners : mining'[n] = IF n = m THEN job ELSE mining[n]
        BY <1>2 DEF AppliedInv
    <2> QED
        BY <1>2, <2>1 DEF PitchInv, NotRepitched, Distinct, Unpitched
<1>3. ASSUME NEW m \in Miners, Mine(m) PROVE PitchInv'
    <2>1. PICK drafts :
             /\ mining' = [mining EXCEPT ![m] = [phase |-> "mined", drafts |-> drafts,
                                                open |-> {}]]
             /\ \A k \in DOMAIN drafts : ~Suppressed(drafts[k].key)
             /\ Distinct(drafts)
        BY <1>3, DraftsAreFresh DEF Distinct
    <2>2. Unpitched(drafts, props)
        BY <2>1 DEF Unpitched, Suppressed, PitchInv
    <2>3. UNCHANGED props
        BY <1>3 DEF Mine
    <2> DEFINE job == [phase |-> "mined", drafts |-> drafts, open |-> {}]
    <2>4. job.drafts = drafts
        OBVIOUS
    <2>5. mining' = [mining EXCEPT ![m] = job]
        BY <2>1
    <2> HIDE DEF job
    <2> QED
        BY <1>2, <2>1, <2>2, <2>3, <2>4, <2>5
<1>4. ASSUME NEW m \in Miners, AutoReview(m) PROVE PitchInv'
    <2>1. \A n \in Miners : mining'[n].drafts = mining[n].drafts
        BY <1>4 DEF AutoReview, AppliedInv
    <2> QED
        BY <1>1, <1>4, <2>1 DEF AutoReview
<1>5. ASSUME NEW m \in Miners, Abort(m) PROVE PitchInv'
    <2>1. Distinct(NoDrafts.drafts) /\ Unpitched(NoDrafts.drafts, props)
        BY DEF NoDrafts, Distinct, Unpitched
    <2>2. mining' = [mining EXCEPT ![m] = NoDrafts] /\ UNCHANGED props
        BY <1>5 DEF Abort
    <2> HIDE DEF NoDrafts
    <2> QED
        BY <1>2, <2>1, <2>2
<1>6. ASSUME NEW o \in Operators, Approve(o) PROVE PitchInv'
    <2> DEFINE i == deciding[o]
    <2>1. /\ i \in DOMAIN props /\ props[i].status = "open" /\ IsRow(props[i])
          /\ props' = [props EXCEPT ![i] = Approved(props[i])] /\ UNCHANGED mining
          /\ props = [k \in DOMAIN props |-> props[k]]
        BY <1>6, LenProperties DEF Approve, AppliedInv, IsTable
    <2>2. /\ Approved(props[i]).key = props[i].key /\ Approved(props[i]).status = "approved"
          /\ Approved(props[i]).remembered = props[i].remembered
        BY <2>1 DEF Approved, IsRow
    <2>3. ~props[i].remembered
        BY <2>1 DEF PitchInv
    <2>4. /\ DOMAIN props' = DOMAIN props
          /\ \A k \in DOMAIN props :
                props'[k] = IF k = i THEN Approved(props[i]) ELSE props[k]
        BY <2>1
    <2> HIDE DEF i
    <2> QED
        BY <2>1, <2>2, <2>3, <2>4, RowsSettle DEF PitchInv
<1>7. ASSUME NEW o \in Operators, NEW i \in DOMAIN props, ReadOpen(o, i) \/ Decline(o, i)
      PROVE  PitchInv'
    <2>1. CASE ReadOpen(o, i)
        BY <1>1, <2>1 DEF ReadOpen
    <2>2. CASE Decline(o, i)
        <3>1. /\ IsRow(props[i]) /\ props = [k \in DOMAIN props |-> props[k]]
              /\ props[i].status = "open" /\ UNCHANGED mining
            BY <2>2, LenProperties DEF Decline, AppliedInv, IsTable
        <3>2. /\ DOMAIN props' = DOMAIN props
              /\ \A k \in DOMAIN props : k # i => props'[k] = props[k]
              /\ props'[i].status = "declined" /\ props'[i].key = props[i].key
            BY <2>2, <3>1 DEF Decline, IsRow
        <3> QED
            BY <3>1, <3>2, RowsSettle DEF PitchInv
    <2> QED
        BY <1>7, <2>1, <2>2
<1>8. ASSUME NEW i \in DOMAIN props, MemoryLapses(i) PROVE PitchInv'
    <2>1. /\ IsRow(props[i]) /\ props = [k \in DOMAIN props |-> props[k]] /\ UNCHANGED mining
        BY <1>8, LenProperties DEF MemoryLapses, AppliedInv, IsTable
    <2>2. /\ DOMAIN props' = DOMAIN props
          /\ \A k \in DOMAIN props : k # i => props'[k] = props[k]
          /\ props'[i].status = props[i].status /\ props'[i].key = props[i].key
          /\ props'[i].remembered = FALSE
        BY <1>8, <2>1 DEF MemoryLapses, IsRow
    <2> QED
        BY <2>1, <2>2, RowsSettle DEF PitchInv
<1>9. ASSUME NEW w \in Classifiers, Judged(w) \/ \E c \in Replying : Judge(w, c)
      PROVE  UNCHANGED <<props, mining>>
    BY <1>9 DEF Judged, Judge, market
<1>10. ASSUME (\E c \in Cohorts : SetCap(c)) \/ NextMonth \/ UNCHANGED vars
       PROVE  UNCHANGED <<props, mining>>
    BY <1>10 DEF SetCap, NextMonth, vars, market
<1>11. ASSUME NEW m \in Miners, Commit(m) PROVE PitchInv'
    BY <1>11, CommitPitches
<1> QED
    BY <1>1, <1>3, <1>4, <1>5, <1>6, <1>7, <1>8, <1>9, <1>10, <1>11 DEF Next

\* With one discover command, one operator and one decider of each proposal, no direction
\* is filed while it is open or while its decline is remembered (core/proposals.propose).
THEOREM DirectionsAreNotRepitched ==
    ASSUME OneDecider, \A m, n \in Miners : m = n, \A o, p \in Operators : o = p,
           IsFiniteSet(Cohorts), IsFiniteSet(Ideas)
    PROVE  Spec => []NotRepitched
<1>1. Init => AppliedInv
    BY InitApplied
<1>2. Init => PitchInv
    BY DEF Init, PitchInv, NotRepitched, NoDrafts, Distinct, Unpitched
<1>3. AppliedInv /\ [Next]_vars => AppliedInv'
    BY AppliedStep DEF OneOfEach
<1>4. AppliedInv /\ PitchInv /\ [Next]_vars => PitchInv'
    BY PitchStep DEF OneOfEach
<1>5. PitchInv => NotRepitched
    BY DEF PitchInv
<1> QED
    BY <1>1, <1>2, <1>3, <1>4, <1>5, PTL DEF Spec

----
\* The caps.

\* The caps of a month: a cohort without a row has none.
IsCaps(caps) == caps \in [Cohorts -> Nat] /\ \A c \in Cohorts \ rows : caps[c] = 0

RowOK(p) == IsRow(p) /\ Priced(p) /\ p.status \in {"open", "approved", "declined"}

FiledOK(job) ==
    /\ DOMAIN job = {"phase", "drafts", "open"}
    /\ job.drafts \in Seq(Ran(job.drafts))
    /\ \A k \in DOMAIN job.drafts : Fresh(job.drafts[k]) /\ Priced(job.drafts[k])

\* What makes TypeOK inductive: the table, and what its readers hold of it.
RowsInv ==
    /\ props \in Seq(Ran(props)) /\ \A i \in DOMAIN props : RowOK(props[i])
    /\ deciding \in [Operators -> Nat]
    /\ \A o \in Operators : deciding[o] # 0 => deciding[o] \in DOMAIN props
    /\ mining = [m \in Miners |-> mining[m]]
    /\ \A m \in Miners : FiledOK(mining[m])

\* The counters, and what a classify job holds of them.
CapInv ==
    /\ handsOff \in BOOLEAN /\ month \in Nat
    /\ rows \subseteq Cohorts /\ IsCaps(cap)
    /\ judging \in [Classifiers -> [cohort : Cohorts \cup {NoCohort}, view : 0..2, event : Bands]]
    /\ mood \in [Cohorts -> 0..2] /\ classified \in [Cohorts -> Nat]
    /\ braked \in [Cohorts -> [Brakes -> Nat]]

LEMMA RowApproved ==
    ASSUME NEW p, RowOK(p)
    PROVE  /\ RowOK(Approved(p)) /\ Approved(p).status = "approved"
           /\ Approved(p).applied = p.applied + 1 /\ Approved(p).applied > p.applied
           /\ Approved(p).amount = p.amount /\ Approved(p).from = p.from
           /\ Approved(p).action = p.action
<1>1. /\ DOMAIN Approved(p) = DOMAIN p /\ Approved(p).status = "approved"
      /\ Approved(p).applied = p.applied + 1
      /\ \A x \in DOMAIN p \ {"status", "applied"} : Approved(p)[x] = p[x]
    BY DEF Approved, RowOK, IsRow
<1> QED
    BY <1>1 DEF RowOK, IsRow, Priced

LEMMA NothingFiled == FiledOK(NoDrafts)
<1>1. NoDrafts.drafts = <<>> /\ DOMAIN NoDrafts = {"phase", "drafts", "open"}
    BY DEF NoDrafts
<1>2. <<>> \in Seq(Ran(<<>>)) /\ DOMAIN <<>> = {}
    OBVIOUS
<1> QED
    BY <1>1, <1>2 DEF FiledOK

\* What the commit of discover writes.
LEMMA CommitTakes ==
    ASSUME RowsInv, NEW m \in Miners, Commit(m)
    PROVE  \E all, taken :
              /\ DOMAIN all = 1..Len(all) /\ Len(all) \in Nat /\ taken \subseteq DOMAIN all
              /\ \A i \in DOMAIN all : RowOK(all[i])
              /\ DOMAIN props \subseteq DOMAIN all
              /\ \A i \in DOMAIN props : all[i] = props[i]
              /\ \A i \in DOMAIN all \ DOMAIN props : all[i].status = "open"
              /\ cap' = CapsAfter(all, taken)
              /\ props' = [i \in DOMAIN all |-> IF i \in taken THEN Approved(all[i]) ELSE all[i]]
<1> DEFINE drafts == mining[m].drafts
           all == props \o drafts
           taken == {i \in DOMAIN all : IF i \in DOMAIN props THEN i \in mining[m].open
                                        ELSE handsOff /\ all[i].kind \in AutoApplicable}
<1>1. /\ props' = [i \in DOMAIN all |-> IF i \in taken THEN Approved(all[i]) ELSE all[i]]
      /\ cap' = CapsAfter(all, taken)
    BY Zenon DEF Commit
<1>2. /\ DOMAIN all = 1..Len(all) /\ Len(all) \in Nat /\ DOMAIN props \subseteq DOMAIN all
      /\ \A i \in DOMAIN props : all[i] = props[i]
      /\ \A i \in DOMAIN all \ DOMAIN props : \E k \in DOMAIN drafts : all[i] = drafts[k]
    <2>1. props \in Seq(Ran(props)) /\ drafts \in Seq(Ran(drafts))
        BY DEF RowsInv, FiledOK
    <2> HIDE DEF drafts
    <2> QED
        BY <2>1, Appended
<1>3. \A i \in DOMAIN all \ DOMAIN props : RowOK(all[i]) /\ all[i].status = "open"
    BY <1>2 DEF RowsInv, FiledOK, Fresh, RowOK
<1>4. \A i \in DOMAIN all : RowOK(all[i])
    BY <1>2, <1>3 DEF RowsInv
<1>5. taken \subseteq DOMAIN all
    OBVIOUS
<1> HIDE DEF all, taken
<1> QED
    BY <1>1, <1>2, <1>3, <1>4, <1>5

\* A new table whose rows are rows, no shorter than the old one.
LEMMA TableWritten ==
    ASSUME RowsInv, NEW n \in Nat, DOMAIN props' = 1..n, props' = [i \in 1..n |-> props'[i]],
           DOMAIN props \subseteq DOMAIN props', \A i \in DOMAIN props' : RowOK(props'[i]),
           mining' = [m \in Miners |-> mining'[m]], \A m \in Miners : FiledOK(mining'[m]),
           deciding' \in [Operators -> Nat],
           \A o \in Operators : deciding'[o] # 0 => deciding'[o] \in DOMAIN props'
    PROVE  RowsInv'
<1>1. props' \in Seq(Ran(props'))
    BY IsSequence
<1>2. RowsInv' = (/\ props' \in Seq(Ran(props')) /\ \A i \in DOMAIN props' : RowOK(props'[i])
                  /\ deciding' \in [Operators -> Nat]
                  /\ \A o \in Operators : deciding'[o] # 0 => deciding'[o] \in DOMAIN props'
                  /\ mining' = [m \in Miners |-> mining'[m]]
                  /\ \A m \in Miners : FiledOK(mining'[m]))
    BY DEF RowsInv, Ran, RowOK, IsRow, Priced, FiledOK, Fresh
<1> QED
    BY <1>1, <1>2

\* One row rewritten.
LEMMA RowWritten ==
    ASSUME RowsInv, NEW i \in DOMAIN props, NEW row, RowOK(row),
           props' = [props EXCEPT ![i] = row], UNCHANGED mining,
           deciding' = deciding \/ \E o \in Operators : deciding' = [deciding EXCEPT ![o] = 0]
    PROVE  RowsInv'
<1>1. /\ Len(props) \in Nat /\ DOMAIN props = 1..Len(props)
      /\ props = [k \in DOMAIN props |-> props[k]]
    BY LenProperties DEF RowsInv
<1>2. /\ DOMAIN props' = 1..Len(props) /\ props' = [k \in 1..Len(props) |-> props'[k]]
      /\ \A k \in DOMAIN props : props'[k] = IF k = i THEN row ELSE props[k]
    BY <1>1
<1>3. \A k \in DOMAIN props' : RowOK(props'[k])
    BY <1>1, <1>2 DEF RowsInv
<1>4. mining' = [m \in Miners |-> mining'[m]] /\ \A m \in Miners : FiledOK(mining'[m])
    BY DEF RowsInv
<1>5. /\ deciding' \in [Operators -> Nat]
      /\ \A o \in Operators : deciding'[o] # 0 => deciding'[o] \in DOMAIN props'
    <2>1. /\ deciding' \in [Operators -> Nat]
          /\ \A o \in Operators : deciding'[o] # 0 => deciding'[o] \in DOMAIN props
        BY DEF RowsInv
    <2>2. DOMAIN props' = DOMAIN props
        BY <1>1, <1>2
    <2> QED
        BY <2>1, <2>2
<1> QED
    BY <1>1, <1>2, <1>3, <1>4, <1>5, TableWritten

\* A miner's transaction replaced.
LEMMA MinerWritten ==
    ASSUME RowsInv, NEW m \in Miners, NEW job, FiledOK(job),
           mining' = [mining EXCEPT ![m] = job], UNCHANGED <<props, deciding>>
    PROVE  RowsInv'
<1>1. /\ mining' = [n \in Miners |-> mining'[n]]
      /\ \A n \in Miners : mining'[n] = IF n = m THEN job ELSE mining[n]
    BY DEF RowsInv
<1> QED
    BY <1>1 DEF RowsInv, FiledOK

LEMMA RowsStep ==
    ASSUME RowsInv, CapInv, IsFiniteSet(Cohorts), IsFiniteSet(Ideas), [Next]_vars
    PROVE  RowsInv'
<1>1. ASSUME NEW m \in Miners, Mine(m) PROVE RowsInv'
    <2>1. PICK drafts :
             /\ mining' = [mining EXCEPT ![m] = [phase |-> "mined", drafts |-> drafts,
                                                open |-> {}]]
             /\ drafts \in Seq(Ran(drafts))
             /\ \A k \in DOMAIN drafts : Fresh(drafts[k]) /\ Priced(drafts[k])
        BY <1>1, DraftsAreFresh DEF CapInv, IsCaps
    <2>2. FiledOK([phase |-> "mined", drafts |-> drafts, open |-> {}])
        BY <2>1 DEF FiledOK
    <2> QED
        BY <1>1, <2>1, <2>2, MinerWritten DEF Mine
<1>2. ASSUME NEW m \in Miners, AutoReview(m) PROVE RowsInv'
    <2> DEFINE seen == {i \in DOMAIN props : /\ handsOff
                                            /\ props[i].status = "open"
                                            /\ props[i].kind \in AutoApplicable}
               job == [[mining[m] EXCEPT !.phase = "reviewed"] EXCEPT !.open = seen]
    <2>1. mining' = [mining EXCEPT ![m] = job]
        BY <1>2 DEF AutoReview, RowsInv, FiledOK
    <2>2. DOMAIN job = {"phase", "drafts", "open"} /\ job.drafts = mining[m].drafts
        BY DEF RowsInv, FiledOK
    <2> HIDE DEF job
    <2>3. FiledOK(job)
        BY <2>2 DEF RowsInv, FiledOK
    <2> QED
        BY <1>2, <2>1, <2>3, MinerWritten DEF AutoReview
<1>3. ASSUME NEW m \in Miners, Abort(m) PROVE RowsInv'
    BY <1>3, NothingFiled, MinerWritten DEF Abort
<1>4. ASSUME NEW m \in Miners, Commit(m) PROVE RowsInv'
    <2>1. PICK all, taken :
              /\ DOMAIN all = 1..Len(all) /\ Len(all) \in Nat
              /\ \A i \in DOMAIN all : RowOK(all[i])
              /\ DOMAIN props \subseteq DOMAIN all
              /\ props' = [i \in DOMAIN all |-> IF i \in taken THEN Approved(all[i]) ELSE all[i]]
        <3>1. \E all, taken :
              /\ DOMAIN all = 1..Len(all) /\ Len(all) \in Nat /\ taken \subseteq DOMAIN all
              /\ \A i \in DOMAIN all : RowOK(all[i])
              /\ DOMAIN props \subseteq DOMAIN all
              /\ \A i \in DOMAIN props : all[i] = props[i]
              /\ \A i \in DOMAIN all \ DOMAIN props : all[i].status = "open"
              /\ cap' = CapsAfter(all, taken)
              /\ props' = [i \in DOMAIN all |-> IF i \in taken THEN Approved(all[i]) ELSE all[i]]
            BY <1>4, CommitTakes, Zenon
        <3> QED
            BY <3>1, Zenon
    <2>2. \A i \in DOMAIN props' : RowOK(props'[i])
        BY <2>1, RowApproved
    <2>3. /\ mining' = [n \in Miners |-> mining'[n]]
          /\ \A n \in Miners : FiledOK(mining'[n])
        <3>1. mining' = [mining EXCEPT ![m] = NoDrafts]
            BY <1>4, Zenon DEF Commit
        <3> QED
            BY <3>1, NothingFiled DEF RowsInv
    <2>4. UNCHANGED deciding
        BY <1>4, Zenon DEF Commit
    <2> QED
        BY <2>1, <2>2, <2>3, <2>4, TableWritten DEF RowsInv
<1>5. ASSUME NEW o \in Operators, Approve(o) PROVE RowsInv'
    <2> DEFINE i == deciding[o]
    <2>1. /\ i \in DOMAIN props /\ props' = [props EXCEPT ![i] = Approved(props[i])]
          /\ deciding' = [deciding EXCEPT ![o] = 0] /\ UNCHANGED mining
        BY <1>5 DEF Approve, RowsInv
    <2>2. RowOK(Approved(props[i]))
        BY <2>1, RowApproved DEF RowsInv
    <2> HIDE DEF i
    <2> QED
        BY <2>1, <2>2, RowWritten
<1>6. ASSUME NEW o \in Operators, NEW i \in DOMAIN props, ReadOpen(o, i) PROVE RowsInv'
    <2>1. DOMAIN props = 1..Len(props)
        BY LenProperties DEF RowsInv
    <2>2. /\ deciding' \in [Operators -> Nat]
          /\ \A p \in Operators : deciding'[p] # 0 => deciding'[p] \in DOMAIN props
          /\ UNCHANGED <<props, mining>>
        BY <1>6, <2>1 DEF ReadOpen, RowsInv
    <2> QED
        BY <2>2 DEF RowsInv, FiledOK
<1>7. ASSUME NEW o \in Operators, NEW i \in DOMAIN props, Decline(o, i) PROVE RowsInv'
    <2> DEFINE row == [[props[i] EXCEPT !.status = "declined"] EXCEPT !.remembered = TRUE]
    <2>1. RowOK(props[i]) /\ props = [k \in DOMAIN props |-> props[k]]
        BY LenProperties DEF RowsInv
    <2>2. props' = [props EXCEPT ![i] = row] /\ UNCHANGED <<mining, deciding>>
        BY <1>7, <2>1 DEF Decline
    <2>3. RowOK(row)
        BY <2>1 DEF RowOK, IsRow, Priced
    <2> HIDE DEF row
    <2> QED
        BY <2>2, <2>3, RowWritten
<1>8. ASSUME NEW i \in DOMAIN props, MemoryLapses(i) PROVE RowsInv'
    <2> DEFINE row == [props[i] EXCEPT !.remembered = FALSE]
    <2>1. RowOK(props[i]) /\ props = [k \in DOMAIN props |-> props[k]]
        BY LenProperties DEF RowsInv
    <2>2. props' = [props EXCEPT ![i] = row] /\ UNCHANGED <<mining, deciding>>
        BY <1>8, <2>1 DEF MemoryLapses
    <2>3. RowOK(row)
        BY <2>1 DEF RowOK, IsRow, Priced
    <2> HIDE DEF row
    <2> QED
        BY <2>2, <2>3, RowWritten
<1>9. ASSUME UNCHANGED <<props, mining, deciding>> PROVE RowsInv'
    BY <1>9 DEF RowsInv
<1>10. ASSUME NEW w \in Classifiers, Judged(w) \/ \E c \in Replying : Judge(w, c)
       PROVE  UNCHANGED <<props, mining, deciding>>
    BY <1>10 DEF Judged, Judge, market
<1>11. ASSUME (\E c \in Cohorts : SetCap(c)) \/ NextMonth \/ UNCHANGED vars
       PROVE  UNCHANGED <<props, mining, deciding>>
    BY <1>11 DEF SetCap, NextMonth, vars, market
<1> QED
    BY <1>1, <1>2, <1>3, <1>4, <1>5, <1>6, <1>7, <1>8, <1>9, <1>10, <1>11 DEF Next

\* A move keeps the caps natural numbers, and a cohort without a row at none.
LEMMA MovedType ==
    ASSUME rows \subseteq Cohorts, NEW caps, IsCaps(caps), NEW c, NEW delta \in Int
    PROVE  IsCaps(Moved(caps, c, delta))
<1>1. CASE c \notin rows
    BY <1>1 DEF Moved
<1>2. CASE c \in rows
    <2> DEFINE n == IF caps[c] + delta < 0 THEN 0 ELSE caps[c] + delta
    <2>1. n \in Nat
        BY <1>2 DEF IsCaps
    <2>2. Moved(caps, c, delta) = [caps EXCEPT ![c] = n]
        BY <1>2 DEF Moved
    <2> HIDE DEF n
    <2> QED
        BY <1>2, <2>1, <2>2 DEF IsCaps
<1> QED
    BY <1>1, <1>2

LEMMA AppliedType ==
    ASSUME rows \subseteq Cohorts, NEW caps, IsCaps(caps), NEW p, p.amount \in Nat
    PROVE  IsCaps(Applied(caps, p))
<1>1. CASE p.action = "pause"
    BY <1>1 DEF Applied, IsCaps
<1>2. CASE p.action = "shift"
    <2>1. -p.amount \in Int /\ p.amount \in Int
        OBVIOUS
    <2>2. IsCaps(Moved(Moved(caps, p.from, -p.amount), p.to, p.amount))
        BY <2>1, MovedType
    <2> QED
        BY <1>2, <2>2 DEF Applied
<1>3. CASE p.action \notin {"pause", "shift"}
    BY <1>3 DEF Applied
<1> QED
    BY <1>1, <1>2, <1>3

\* auto_review's loop as a ladder of caps, one rung for a row.
IsLadder(after, all, taken) ==
    /\ CapsAfter(all, taken) = after[Len(all)]
    /\ after[0] = cap
    /\ \A n \in 0..(Len(all) - 1) :
          after[n + 1] = IF n + 1 \in taken THEN Applied(after[n], all[n + 1]) ELSE after[n]

LEMMA Ladder ==
    ASSUME NEW all, NEW taken, Len(all) \in Nat
    PROVE  \E after : IsLadder(after, all, taken)
<1> DEFINE Rung(f, n) == IF n = 0 THEN cap
                         ELSE IF n \in taken THEN Applied(f[n - 1], all[n]) ELSE f[n - 1]
           after == CHOOSE f : f = [n \in 0..Len(all) |-> Rung(f, n)]
           N == {n \in Nat : \E f : f = [k \in 0..n |-> Rung(f, k)]}
<1>1. CapsAfter(all, taken) = after[Len(all)]
    BY DEF CapsAfter
<1>2. 0 \in N
    <2> DEFINE f == [k \in 0..0 |-> cap]
    <2>1. f = [k \in 0..0 |-> Rung(f, k)]
        OBVIOUS
    <2> QED
        BY <2>1
<1>3. ASSUME NEW n \in N PROVE n + 1 \in N
    <2>1. PICK f : f = [k \in 0..n |-> Rung(f, k)]
        OBVIOUS
    <2> DEFINE g == [k \in 0..(n + 1) |-> IF k <= n THEN f[k] ELSE Rung(f, n + 1)]
    <2>2. \A k \in 0..(n + 1) : g[k] = Rung(g, k)
        <3> SUFFICES ASSUME NEW k \in 0..(n + 1) PROVE g[k] = Rung(g, k)
            OBVIOUS
        <3>1. n \in Nat
            OBVIOUS
        <3>2. g[k] = Rung(f, k)
            BY <2>1, <3>1
        <3>3. k # 0 => g[k - 1] = f[k - 1]
            BY <3>1
        <3> HIDE DEF g
        <3> QED
            BY <3>2, <3>3
    <2>3. g = [k \in 0..(n + 1) |-> g[k]]
        OBVIOUS
    <2> HIDE DEF g, Rung
    <2>4. g = [k \in 0..(n + 1) |-> Rung(g, k)]
        BY <2>2, <2>3
    <2>5. n + 1 \in Nat
        OBVIOUS
    <2> QED
        BY <2>4, <2>5
<1>4. N = Nat
    <2>1. N \in SUBSET Nat
        OBVIOUS
    <2> HIDE DEF N
    <2> QED
        BY <1>2, <1>3, <2>1, NatSet
<1> HIDE DEF Rung
<1>5. \E f : f = [n \in 0..Len(all) |-> Rung(f, n)]
    BY <1>4
<1>6. after = [n \in 0..Len(all) |-> Rung(after, n)]
    BY <1>5
<1> HIDE DEF after, N
<1>7. \A n \in 0..Len(all) : after[n] = Rung(after, n)
    BY <1>6
<1>8. after[0] = cap
    BY <1>7 DEF Rung
<1>9. ASSUME NEW n \in 0..(Len(all) - 1)
      PROVE  after[n + 1] = IF n + 1 \in taken THEN Applied(after[n], all[n + 1]) ELSE after[n]
    <2>1. n + 1 \in 0..Len(all) /\ n + 1 # 0 /\ (n + 1) - 1 = n
        OBVIOUS
    <2>2. after[n + 1] = Rung(after, n + 1)
        BY <1>7, <2>1
    <2> QED
        BY <2>1, <2>2 DEF Rung
<1> QED
    BY <1>1, <1>8, <1>9 DEF IsLadder

LEMMA CapsAfterType ==
    ASSUME rows \subseteq Cohorts, IsCaps(cap), NEW all, NEW taken, Len(all) \in Nat,
           \A i \in 1..Len(all) : all[i].amount \in Nat
    PROVE  IsCaps(CapsAfter(all, taken))
<1>1. PICK after : IsLadder(after, all, taken)
    BY Ladder
<1> DEFINE N == {n \in Nat : n <= Len(all) => IsCaps(after[n])}
<1>2. 0 \in N
    BY <1>1 DEF IsLadder
<1>3. ASSUME NEW n \in N PROVE n + 1 \in N
    <2> SUFFICES ASSUME n + 1 <= Len(all) PROVE IsCaps(after[n + 1])
        OBVIOUS
    <2>1. n \in 0..(Len(all) - 1) /\ n + 1 \in 1..Len(all)
        OBVIOUS
    <2>2. IsCaps(after[n])
        BY <2>1
    <2> QED
        BY <1>1, <2>1, <2>2, AppliedType DEF IsLadder
<1>4. N = Nat
    <2>1. N \in SUBSET Nat
        OBVIOUS
    <2> HIDE DEF N
    <2> QED
        BY <1>2, <1>3, <2>1, NatSet
<1>5. Len(all) \in N
    BY <1>4
<1> QED
    BY <1>1, <1>5 DEF IsLadder

\* The brake writes a natural number to a cohort that has a row.
LEMMA BrakedType ==
    ASSUME rows \subseteq Cohorts, IsCaps(cap), NEW c, NEW event
    PROVE  IsCaps(Braked(c, event))
<1>1. CASE c \notin rows
    BY <1>1 DEF Braked
<1>2. CASE c \in rows
    <2> DEFINE n == IF event = "sentiment_pause" THEN 0 ELSE AtLeastOne(cap[c] \div 2)
    <2>1. n \in Nat
        BY <1>2, AtLeastOneType DEF IsCaps
    <2>2. Braked(c, event) = [cap EXCEPT ![c] = n]
        BY <1>2 DEF Braked
    <2> HIDE DEF n
    <2> QED
        BY <1>2, <2>1, <2>2 DEF IsCaps
<1> QED
    BY <1>1, <1>2

\* A step of discovery or of a human leaves the caps of the cohorts with a row numbers.
LEMMA MarketCaps ==
    ASSUME RowsInv, CapInv, UNCHANGED <<handsOff, month, rows, brake>>,
           (\E m \in Miners : Commit(m)) \/ (\E o \in Operators : Approve(o)) \/ UNCHANGED cap
    PROVE  CapInv'
<1>1. IsCaps(cap)'
    <2>1. ASSUME NEW m \in Miners, Commit(m) PROVE IsCaps(cap')
        <3>1. PICK all, taken :
                 /\ DOMAIN all = 1..Len(all) /\ Len(all) \in Nat
                 /\ \A i \in DOMAIN all : RowOK(all[i])
                 /\ cap' = CapsAfter(all, taken)
            BY <2>1, CommitTakes
        <3>2. \A i \in 1..Len(all) : all[i].amount \in Nat
            BY <3>1 DEF RowOK, Priced
        <3> QED
            BY <3>1, <3>2, CapsAfterType DEF CapInv
    <2>2. ASSUME NEW o \in Operators, Approve(o) PROVE IsCaps(cap')
        <3>1. cap' = Applied(cap, props[deciding[o]]) /\ deciding[o] \in DOMAIN props
            BY <2>2 DEF Approve, RowsInv
        <3>2. props[deciding[o]].amount \in Nat
            BY <3>1 DEF RowsInv, RowOK, Priced
        <3> QED
            BY <3>1, <3>2, AppliedType DEF CapInv
    <2>3. ASSUME UNCHANGED cap PROVE IsCaps(cap')
        BY <2>3 DEF CapInv
    <2>4. IsCaps(cap')
        BY <2>1, <2>2, <2>3
    <2> QED
        BY <2>4 DEF IsCaps
<1> QED
    BY <1>1 DEF CapInv, brake

LEMMA CapStep ==
    ASSUME RowsInv, CapInv, [Next]_vars
    PROVE  CapInv'
<1>1. ASSUME NEW m \in Miners, Mine(m) \/ AutoReview(m) \/ Commit(m) \/ Abort(m) PROVE CapInv'
    <2>1. UNCHANGED <<handsOff, month, rows, brake>> /\ (Commit(m) \/ UNCHANGED cap)
        BY <1>1, Zenon DEF Mine, AutoReview, Commit, Abort
    <2> QED
        BY <2>1, MarketCaps
<1>2. ASSUME NEW o \in Operators,
             Approve(o) \/ \E i \in DOMAIN props : ReadOpen(o, i) \/ Decline(o, i)
      PROVE  CapInv'
    <2>1. UNCHANGED <<handsOff, month, rows, brake>> /\ (Approve(o) \/ UNCHANGED cap)
        BY <1>2 DEF Approve, ReadOpen, Decline
    <2> QED
        BY <2>1, MarketCaps
<1>3. ASSUME NEW i \in DOMAIN props, MemoryLapses(i) PROVE CapInv'
    BY <1>3, MarketCaps DEF MemoryLapses
<1>4. ASSUME NEW w \in Classifiers, NEW c \in Replying, Judge(w, c) PROVE CapInv'
    <2>1. PICK view \in {v \in 0..2 : v - mood[c] \in -1..1} :
             judging' = [judging EXCEPT ![w] = [cohort |-> c, view |-> view,
                             event |-> Verdict(c, view, classified[c] + 1)]]
        BY <1>4 DEF Judge
    <2> DEFINE event == Verdict(c, view, classified[c] + 1)
    <2>2. event \in Bands
        BY DEF Verdict, Bands, Brakes
    <2> HIDE DEF event
    <2>3. judging' = [judging EXCEPT ![w] = [cohort |-> c, view |-> view, event |-> event]]
        BY <2>1 DEF event
    <2>4. judging' \in [Classifiers -> [cohort : Cohorts \cup {NoCohort}, view : 0..2, event : Bands]]
        BY <2>2, <2>3, BudgetAssumption DEF CapInv
    <2>5. UNCHANGED <<handsOff, month, rows, cap, mood, classified, braked>>
        BY <1>4 DEF Judge
    <2> QED
        BY <2>4, <2>5 DEF CapInv, IsCaps
<1>5. ASSUME NEW w \in Classifiers, Judged(w) PROVE CapInv'
    <2> DEFINE job == judging[w]
    <2>1. job \in [cohort : Cohorts \cup {NoCohort}, view : 0..2, event : Bands]
        BY DEF CapInv
    <2>2. job.cohort \in Cohorts
        BY <1>5, <2>1 DEF Judged
    <2>3. UNCHANGED <<handsOff, month, rows>>
        BY <1>5 DEF Judged
    <2>4. IsCaps(cap)'
        <3>1. cap' = Braked(job.cohort, job.event) \/ cap' = cap
            BY <1>5 DEF Judged
        <3>2. IsCaps(cap')
            BY <3>1, BrakedType DEF CapInv
        <3> QED
            BY <2>3, <3>2 DEF IsCaps
    <2>5. braked' \in [Cohorts -> [Brakes -> Nat]]
        <3>1. CASE job.event = "none"
            BY <1>5, <3>1 DEF Judged, CapInv
        <3>2. CASE job.event # "none"
            <4>1. braked' = [braked EXCEPT ![job.cohort][job.event] = @ + 1]
                BY <1>5, <3>2 DEF Judged
            <4>2. job.event \in Brakes
                BY <2>1, <3>2 DEF Bands
            <4> QED
                BY <2>2, <4>1, <4>2 DEF CapInv
        <3> QED
            BY <3>1, <3>2
    <2>6. mood' \in [Cohorts -> 0..2] /\ classified' \in [Cohorts -> Nat]
        BY <1>5, <2>1, <2>2 DEF Judged, CapInv
    <2>7. judging' \in [Classifiers -> [cohort : Cohorts \cup {NoCohort}, view : 0..2, event : Bands]]
        BY <1>5 DEF Judged, CapInv, NoJob, Bands
    <2> QED
        BY <2>3, <2>4, <2>5, <2>6, <2>7 DEF CapInv
<1>6. ASSUME NEW c \in Cohorts, SetCap(c) PROVE CapInv'
    <2>1. rows' = rows \cup {c} /\ cap' = [cap EXCEPT ![c] = Plan] /\ Plan \in Nat
        BY <1>6, BudgetAssumption DEF SetCap
    <2>2. rows' \subseteq Cohorts /\ IsCaps(cap)'
        BY <2>1 DEF CapInv, IsCaps
    <2> QED
        BY <1>6, <2>2 DEF SetCap, CapInv, brake
<1>7. CASE NextMonth
    <2>1. /\ month' \in Nat /\ rows' = {} /\ cap' = [c \in Cohorts |-> 0]
          /\ braked' = [c \in Cohorts |-> [b \in Brakes |-> 0]]
          /\ UNCHANGED <<handsOff, judging, mood, classified>>
        BY <1>7 DEF NextMonth, CapInv
    <2>2. rows' \subseteq Cohorts /\ IsCaps(cap)' /\ braked' \in [Cohorts -> [Brakes -> Nat]]
        BY <2>1 DEF IsCaps
    <2> QED
        BY <2>1, <2>2 DEF CapInv
<1>8. CASE UNCHANGED vars
    BY <1>8, MarketCaps DEF vars, market
<1> QED
    BY <1>1, <1>2, <1>3, <1>4, <1>5, <1>6, <1>7, <1>8 DEF Next

LEMMA InitTyped == Init => RowsInv /\ CapInv
<1> SUFFICES ASSUME Init PROVE RowsInv /\ CapInv
    OBVIOUS
<1>1. CapInv
    BY DEF Init, CapInv, IsCaps, NoJob, Bands
<1>2. \A m \in Miners : mining[m] = NoDrafts
    BY DEF Init
<1>3. \A m \in Miners : FiledOK(mining[m])
    BY <1>2, NothingFiled
<1>4. props \in Seq(Ran(props)) /\ DOMAIN props = {}
    BY DEF Init
<1>5. deciding \in [Operators -> Nat] /\ \A o \in Operators : deciding[o] = 0
    BY DEF Init
<1>6. mining = [m \in Miners |-> mining[m]]
    BY DEF Init
<1> QED
    BY <1>1, <1>3, <1>4, <1>5, <1>6 DEF RowsInv

LEMMA TypedStep ==
    ASSUME IsFiniteSet(Cohorts), IsFiniteSet(Ideas)
    PROVE  Spec => [](RowsInv /\ CapInv)
<1>1. RowsInv /\ CapInv /\ [Next]_vars => RowsInv' /\ CapInv'
    BY RowsStep, CapStep
<1> QED
    BY <1>1, InitTyped, PTL DEF Spec

\* However many miners, operators and classifiers run, caps stay natural numbers and nobody
\* holds a proposal that is not in the table (core/proposals._apply, stats/sentiment.py).
THEOREM TypeCorrect ==
    ASSUME IsFiniteSet(Cohorts), IsFiniteSet(Ideas)
    PROVE  Spec => []TypeOK
<1>1. RowsInv /\ CapInv => TypeOK
    BY DEF RowsInv, CapInv, IsCaps, RowOK, TypeOK
<1> QED
    BY <1>1, TypedStep, PTL

----
\* The total of the caps.

\* What the first n rows draw from a cohort, of those that are taken.
Draws(all, taken, c, n) ==
    [i \in 1..Len(all) |-> IF i \in taken /\ i <= n /\ all[i].from = c THEN all[i].amount ELSE 0]
Drawn(all, taken, c, n) == SumFunctionOnSet(Draws(all, taken, c, n), 1..Len(all))

\* What a row asks of a cohort, whatever its action.
Asked(p, c) == IF p.from = c THEN p.amount ELSE 0

\* The caps are covered by what each cohort has or may still draw, whichever is more.
Larger(caps, left) == [c \in Cohorts |-> IF caps[c] > left[c] THEN caps[c] ELSE left[c]]
Cover(caps, left) == SumFunctionOnSet(Larger(caps, left), Cohorts)

LEMMA LargerType ==
    ASSUME NEW caps, IsCaps(caps), NEW left, IsCaps(left)
    PROVE  \A c \in Cohorts : Larger(caps, left)[c] \in Nat
    BY DEF IsCaps, Larger

\* A shift lowers what its source has, or may still draw, by its amount.
LEMMA SourcePays ==
    ASSUME IsFiniteSet(Cohorts), rows \subseteq Cohorts, NEW caps, IsCaps(caps),
           NEW left, IsCaps(left), NEW rest, IsCaps(rest), NEW from \in Cohorts, NEW n \in Nat,
           \A c \in Cohorts : left[c] = rest[c] + (IF from = c THEN n ELSE 0)
    PROVE  Cover(caps, left) = Cover(Moved(caps, from, -n), rest) + n
<1> DEFINE mid == Moved(caps, from, -n)
<1>1. IsCaps(mid)
    BY MovedType
<1>2. \A c \in Cohorts : mid[c] = IF c = from /\ from \in rows
                                 THEN (IF caps[c] - n < 0 THEN 0 ELSE caps[c] - n) ELSE caps[c]
    BY DEF Moved, IsCaps
<1> HIDE DEF mid
<1>3. \A c \in Cohorts : Larger(caps, left)[c] = Larger(mid, rest)[c] + (IF c = from THEN n ELSE 0)
    <2> SUFFICES ASSUME NEW c \in Cohorts
                 PROVE  Larger(caps, left)[c] = Larger(mid, rest)[c] + (IF c = from THEN n ELSE 0)
        OBVIOUS
    <2>1. /\ caps[c] \in Nat /\ left[c] \in Nat /\ rest[c] \in Nat /\ mid[c] \in Nat
          /\ c \notin rows => caps[c] = 0 /\ left[c] = 0
        BY <1>1 DEF IsCaps
    <2>2. CASE c # from
        BY <1>2, <2>1, <2>2 DEF Larger
    <2>3. CASE c = from
        BY <1>2, <2>1, <2>3 DEF Larger
    <2> QED
        BY <2>2, <2>3
<1>4. \A c \in Cohorts : Larger(mid, rest)[c] \in Nat
    BY <1>1, LargerType
<1>5. Cover(caps, left) = Cover(mid, rest) + n
    <2> DEFINE f == Larger(mid, rest)
               g == Larger(caps, left)
    <2>1. \A c \in Cohorts : f[c] \in Nat /\ g[c] = f[c] + (IF c = from THEN n ELSE 0)
        BY <1>3, <1>4
    <2> HIDE DEF f, g
    <2>2. SumFunctionOnSet(g, Cohorts)
             = SumFunctionOnSet(f, Cohorts) + (IF from \in Cohorts THEN n ELSE 0)
        BY <2>1, SumChanged
    <2>3. SumFunctionOnSet(g, Cohorts) = SumFunctionOnSet(f, Cohorts) + n
        BY <2>2
    <2> QED
        BY <2>3 DEF Cover, f, g
<1> QED
    BY <1>5 DEF mid

\* And its target gains no more than the amount.
LEMMA TargetGains ==
    ASSUME IsFiniteSet(Cohorts), rows \subseteq Cohorts, NEW caps, IsCaps(caps),
           NEW rest, IsCaps(rest), NEW to, NEW n \in Nat
    PROVE  Cover(Moved(caps, to, n), rest) <= Cover(caps, rest) + n
<1>1. \A c \in Cohorts : Larger(caps, rest)[c] \in Nat
    BY LargerType
<1>2. Cover(caps, rest) \in Nat
    BY <1>1, SumType DEF Cover
<1>3. CASE to \notin rows
    BY <1>2, <1>3 DEF Moved
<1>4. CASE to \in rows
    <2> DEFINE now == Moved(caps, to, n)
               gain == Larger(now, rest)[to] - Larger(caps, rest)[to]
    <2>1. /\ \A c \in Cohorts \ {to} : now[c] = caps[c]
          /\ to \in Cohorts /\ caps[to] \in Nat /\ rest[to] \in Nat /\ now[to] = caps[to] + n
        BY <1>4 DEF Moved, IsCaps
    <2> HIDE DEF now
    <2>2. gain \in Nat /\ gain <= n
        BY <2>1 DEF Larger
    <2>3. Larger(now, rest)[to] = Larger(caps, rest)[to] + gain
        BY <1>1, <2>1, <2>2 DEF Larger
    <2>4. \A c \in Cohorts \ {to} : Larger(now, rest)[c] = Larger(caps, rest)[c]
        BY <2>1 DEF Larger
    <2> HIDE DEF gain
    <2>5. \A c \in Cohorts :
             Larger(now, rest)[c] = Larger(caps, rest)[c] + (IF c = to THEN gain ELSE 0)
        BY <1>1, <2>3, <2>4
    <2>6. Cover(now, rest) = Cover(caps, rest) + gain
        BY <1>1, <2>1, <2>2, <2>5, SumChanged DEF Cover
    <2> QED
        BY <1>2, <2>2, <2>6 DEF now
<1> QED
    BY <1>3, <1>4

\* Applying a row does not raise the cover, when its source may still draw what it asks.
LEMMA AppliedIsCovered ==
    ASSUME IsFiniteSet(Cohorts), rows \subseteq Cohorts, NEW caps, IsCaps(caps),
           NEW left, IsCaps(left), NEW rest, IsCaps(rest), NEW p, Priced(p),
           \A c \in Cohorts : left[c] = rest[c] + Asked(p, c)
    PROVE  Cover(Applied(caps, p), rest) <= Cover(caps, left)
<1> DEFINE n == p.amount
<1>1. \A c \in Cohorts : left[c] = rest[c] + (IF p.from = c THEN n ELSE 0)
    BY DEF Asked
<1>2. n \in Nat
    BY DEF Priced
<1>3. CASE p.action = "shift"
    <2> DEFINE mid == Moved(caps, p.from, -n)
    <2>1. p.from \in Cohorts
        BY <1>3 DEF Priced
    <2>2. Applied(caps, p) = Moved(mid, p.to, n)
        BY <1>3 DEF Applied
    <2> HIDE DEF n
    <2>3. Cover(caps, left) = Cover(mid, rest) + n
        BY <1>1, <1>2, <2>1, SourcePays
    <2>4. IsCaps(mid)
        BY <1>2, MovedType
    <2> HIDE DEF mid
    <2>5. Cover(Moved(mid, p.to, n), rest) <= Cover(mid, rest) + n
        BY <1>2, <2>4, TargetGains
    <2> QED
        BY <2>2, <2>3, <2>5
<1>4. CASE p.action # "shift"
    <2>1. IsCaps(Applied(caps, p))
        BY <1>2, AppliedType
    <2>2. \A c \in Cohorts : Applied(caps, p)[c] <= caps[c]
        BY <1>4 DEF Applied, IsCaps
    <2>3. \A c \in Cohorts : rest[c] <= left[c] /\ rest[c] \in Nat /\ left[c] \in Nat
        BY <1>1, <1>2 DEF IsCaps
    <2> DEFINE now == Applied(caps, p)
    <2> HIDE DEF now
    <2>4. \A c \in Cohorts : now[c] \in Nat /\ caps[c] \in Nat /\ now[c] <= caps[c]
        BY <2>1, <2>2 DEF now, IsCaps
    <2>5. \A c \in Cohorts : /\ Larger(caps, left)[c] \in Nat /\ Larger(now, rest)[c] \in Nat
                            /\ Larger(now, rest)[c] <= Larger(caps, left)[c]
        BY <2>3, <2>4 DEF Larger
    <2> QED
        BY <2>5, SumMonotone DEF Cover, now
<1> QED
    BY <1>3, <1>4

\* The sums of what is drawn, row by row.
LEMMA DrawnRows ==
    ASSUME NEW all, Len(all) \in Nat, \A i \in 1..Len(all) : Priced(all[i]), NEW taken, NEW c
    PROVE  /\ Drawn(all, taken, c, 0) = 0
           /\ \A n \in 0..Len(all) :
                 /\ Drawn(all, taken, c, n) \in Nat
                 /\ Drawn(all, taken, c, n) <= Drawn(all, taken, c, Len(all))
           /\ \A n \in 0..(Len(all) - 1) :
                 Drawn(all, taken, c, n + 1) =
                    Drawn(all, taken, c, n) + (IF n + 1 \in taken THEN Asked(all[n + 1], c) ELSE 0)
<1> DEFINE S == 1..Len(all)
           D(n) == Draws(all, taken, c, n)
<1>1. IsFiniteSet(S)
    BY FS_Interval
<1>2. \A n \in Nat : \A i \in S : D(n)[i] \in Nat
    BY DEF Draws, Priced
<1>3. Drawn(all, taken, c, 0) = 0
    <2>1. \A i \in S : D(0)[i] = 0
        BY DEF Draws
    <2> QED
        BY <1>1, <2>1, SumZero DEF Drawn
<1>4. ASSUME NEW n \in 0..Len(all)
      PROVE  /\ Drawn(all, taken, c, n) \in Nat
             /\ Drawn(all, taken, c, n) <= Drawn(all, taken, c, Len(all))
    <2>1. \A i \in S : D(n)[i] <= D(Len(all))[i]
        BY <1>4 DEF Draws, Priced
    <2>2. n \in Nat /\ \A i \in S : D(n)[i] \in Nat /\ D(Len(all))[i] \in Nat
        BY <1>2
    <2> HIDE DEF D, S
    <2>3. SumFunctionOnSet(D(n), S) \in Nat
        BY <1>1, <2>2, SumType
    <2>4. SumFunctionOnSet(D(n), S) <= SumFunctionOnSet(D(Len(all)), S)
        BY <1>1, <2>1, <2>2, SumMonotone
    <2> QED
        BY <2>3, <2>4 DEF Drawn, D, S
<1>5. ASSUME NEW n \in 0..(Len(all) - 1)
      PROVE  Drawn(all, taken, c, n + 1) =
                Drawn(all, taken, c, n) + (IF n + 1 \in taken THEN Asked(all[n + 1], c) ELSE 0)
    <2> DEFINE d == IF n + 1 \in taken THEN Asked(all[n + 1], c) ELSE 0
               x == n + 1
    <2>1. x \in S /\ d \in Nat
        BY DEF Asked, Priced
    <2>2. \A i \in S : D(n + 1)[i] = D(n)[i] + (IF i = x THEN d ELSE 0)
        BY DEF Draws, Asked, Priced
    <2>3. \A i \in S : D(n)[i] \in Nat
        BY <1>2
    <2> HIDE DEF D, S, d, x
    <2>4. SumFunctionOnSet(D(n + 1), S) = SumFunctionOnSet(D(n), S) + (IF x \in S THEN d ELSE 0)
        BY <1>1, <2>1, <2>2, <2>3, SumChanged
    <2> QED
        BY <2>1, <2>4 DEF Drawn, D, S, d
<1> QED
    BY <1>3, <1>4, <1>5

\* hands_off does not raise the total when no cohort is asked for more than it has.
LEMMA CapsAfterCovered ==
    ASSUME IsFiniteSet(Cohorts), rows \subseteq Cohorts, IsCaps(cap), NEW all, NEW taken,
           Len(all) \in Nat, \A i \in 1..Len(all) : Priced(all[i]),
           \A c \in Cohorts : Drawn(all, taken, c, Len(all)) <= cap[c]
    PROVE  Total(CapsAfter(all, taken)) <= Total(cap)
<1> DEFINE Left(n) == [c \in Cohorts |-> cap[c] - Drawn(all, taken, c, n)]
<1>1. PICK after : IsLadder(after, all, taken)
    BY Ladder
<1>2. \A n \in 0..Len(all) : IsCaps(Left(n))
    <2> SUFFICES ASSUME NEW n \in 0..Len(all), NEW c \in Cohorts
                 PROVE  Left(n)[c] \in Nat /\ (c \notin rows => Left(n)[c] = 0)
        BY DEF IsCaps
    <2>1. /\ Drawn(all, taken, c, n) \in Nat /\ Drawn(all, taken, c, Len(all)) \in Nat
          /\ Drawn(all, taken, c, n) <= Drawn(all, taken, c, Len(all))
        BY DrawnRows
    <2>2. cap[c] \in Nat /\ (c \notin rows => cap[c] = 0)
        BY DEF IsCaps
    <2> QED
        BY <2>1, <2>2
<1>3. \A n \in 0..(Len(all) - 1) : \A c \in Cohorts :
         Left(n)[c] = Left(n + 1)[c] + (IF n + 1 \in taken THEN Asked(all[n + 1], c) ELSE 0)
    <2> SUFFICES ASSUME NEW n \in 0..(Len(all) - 1), NEW c \in Cohorts
                 PROVE  Left(n)[c] = Left(n + 1)[c]
                                     + (IF n + 1 \in taken THEN Asked(all[n + 1], c) ELSE 0)
        OBVIOUS
    <2> DEFINE d == IF n + 1 \in taken THEN Asked(all[n + 1], c) ELSE 0
    <2>1. d \in Nat
        BY DEF Asked, Priced
    <2>2. Drawn(all, taken, c, n + 1) = Drawn(all, taken, c, n) + d
        BY DrawnRows
    <2>3. Drawn(all, taken, c, n) \in Nat
        BY DrawnRows
    <2>4. cap[c] \in Nat
        BY DEF IsCaps
    <2> HIDE DEF d
    <2>5. Left(n)[c] = Left(n + 1)[c] + d
        BY <2>1, <2>2, <2>3, <2>4
    <2> QED
        BY <2>5 DEF d
<1>4. \A c \in Cohorts : Left(0)[c] = cap[c]
    BY DrawnRows DEF IsCaps
<1> DEFINE N == {n \in Nat : n <= Len(all) =>
                    IsCaps(after[n]) /\ Cover(after[n], Left(n)) <= Total(cap)}
<1>5. 0 \in N
    <2>1. \A c \in Cohorts : cap[c] \in Nat /\ Larger(cap, Left(0))[c] = cap[c]
        BY <1>4 DEF Larger, IsCaps
    <2>2. Cover(cap, Left(0)) = Total(cap) /\ Total(cap) \in Nat
        <3> HIDE DEF Left
        <3> QED
            BY <2>1, SumSame, SumType DEF Cover, Total
    <2> HIDE DEF Left
    <2> QED
        BY <1>1, <2>2 DEF IsLadder
<1> HIDE DEF Left
<1>6. ASSUME NEW n \in N PROVE n + 1 \in N
    <2> SUFFICES ASSUME n + 1 <= Len(all)
                 PROVE  IsCaps(after[n + 1]) /\ Cover(after[n + 1], Left(n + 1)) <= Total(cap)
        OBVIOUS
    <2>1. /\ n \in 0..(Len(all) - 1) /\ n + 1 \in 1..Len(all)
          /\ n \in 0..Len(all) /\ n + 1 \in 0..Len(all)
        OBVIOUS
    <2>2. IsCaps(after[n]) /\ Cover(after[n], Left(n)) <= Total(cap)
        BY <2>1
    <2>3. IsCaps(Left(n)) /\ IsCaps(Left(n + 1))
        BY <1>2, <2>1
    <2>4. after[n + 1] = IF n + 1 \in taken THEN Applied(after[n], all[n + 1]) ELSE after[n]
        BY <1>1, <2>1 DEF IsLadder
    <2>5. /\ Cover(after[n], Left(n)) \in Nat /\ Cover(after[n + 1], Left(n + 1)) \in Nat
          /\ Total(cap) \in Nat /\ IsCaps(after[n + 1])
        <3>1. IsCaps(after[n + 1])
            BY <2>1, <2>2, <2>4, AppliedType DEF Priced
        <3>2. /\ \A c \in Cohorts : Larger(after[n], Left(n))[c] \in Nat
              /\ \A c \in Cohorts : Larger(after[n + 1], Left(n + 1))[c] \in Nat
            BY <2>2, <2>3, <3>1, LargerType
        <3>3. \A c \in Cohorts : cap[c] \in Nat
            BY DEF IsCaps
        <3> QED
            BY <3>1, <3>2, <3>3, SumType DEF Cover, Total
    <2>6. Cover(after[n + 1], Left(n + 1)) <= Cover(after[n], Left(n))
        <3>1. CASE n + 1 \in taken
            <4>1. \A c \in Cohorts : Left(n)[c] = Left(n + 1)[c] + Asked(all[n + 1], c)
                BY <1>3, <2>1, <3>1
            <4>2. Priced(all[n + 1])
                BY <2>1
            <4>3. Cover(Applied(after[n], all[n + 1]), Left(n + 1)) <= Cover(after[n], Left(n))
                BY <2>2, <2>3, <4>1, <4>2, AppliedIsCovered
            <4> QED
                BY <2>4, <3>1, <4>3
        <3>2. CASE n + 1 \notin taken
            <4>1. \A c \in Cohorts : Left(n)[c] = Left(n + 1)[c]
                BY <1>3, <2>1, <2>3, <3>2 DEF IsCaps
            <4>2. \A c \in Cohorts : /\ Larger(after[n], Left(n))[c] \in Nat
                                    /\ Larger(after[n], Left(n + 1))[c] = Larger(after[n], Left(n))[c]
                BY <2>2, <2>3, <4>1, LargerType DEF Larger
            <4>3. Cover(after[n], Left(n + 1)) = Cover(after[n], Left(n))
                BY <4>2, SumSame DEF Cover
            <4> QED
                BY <2>4, <2>5, <3>2, <4>3
        <3> QED
            BY <3>1, <3>2
    <2> QED
        BY <2>2, <2>5, <2>6
<1>7. N = Nat
    <2>1. N \in SUBSET Nat
        OBVIOUS
    <2> HIDE DEF N
    <2> QED
        BY <1>5, <1>6, <2>1, NatSet
<1> DEFINE end == after[Len(all)]
           left == Left(Len(all))
<1>8. IsCaps(end) /\ IsCaps(left) /\ Cover(end, left) <= Total(cap)
    <2>1. Len(all) \in N /\ Len(all) \in 0..Len(all)
        BY <1>7
    <2> QED
        BY <1>2, <2>1
<1> HIDE DEF end, left
<1>9. Total(end) <= Cover(end, left)
    <2>1. \A c \in Cohorts : /\ Larger(end, left)[c] \in Nat
                            /\ end[c] \in Nat /\ end[c] <= Larger(end, left)[c]
        BY <1>8 DEF IsCaps, Larger
    <2> QED
        BY <2>1, SumMonotone DEF Cover, Total
<1>10. Total(end) \in Nat /\ Total(cap) \in Nat /\ Cover(end, left) \in Nat
    <2>1. \A c \in Cohorts : end[c] \in Nat /\ cap[c] \in Nat /\ Larger(end, left)[c] \in Nat
        BY <1>8, LargerType DEF IsCaps
    <2> QED
        BY <2>1, SumType DEF Cover, Total
<1>11. CapsAfter(all, taken) = end
    BY <1>1 DEF IsLadder, end
<1> QED
    BY <1>8, <1>9, <1>10, <1>11

LEMMA TotalType ==
    ASSUME IsFiniteSet(Cohorts), NEW caps \in [Cohorts -> Nat]
    PROVE  Total(caps) \in Nat
<1>1. \A c \in Cohorts : caps[c] \in Nat
    OBVIOUS
<1> QED
    BY <1>1, SumType DEF Total

\* The commit of discover draws what AppliedNow and DrawnNow say.
LEMMA CommitDraws ==
    ASSUME RowsInv, CapInv, IsFiniteSet(Cohorts), NEW m \in Miners, Commit(m),
           \A c \in Cohorts : ~(DrawnNow(c) > cap[c])
    PROVE  Total(cap') <= Total(cap)
<1>1. PICK all, taken :
         /\ DOMAIN all = 1..Len(all) /\ Len(all) \in Nat /\ taken \subseteq DOMAIN all
         /\ \A i \in DOMAIN all : RowOK(all[i])
         /\ DOMAIN props \subseteq DOMAIN all
         /\ \A i \in DOMAIN props : all[i] = props[i]
         /\ \A i \in DOMAIN all \ DOMAIN props : all[i].status = "open"
         /\ cap' = CapsAfter(all, taken)
         /\ props' = [i \in DOMAIN all |-> IF i \in taken THEN Approved(all[i]) ELSE all[i]]
    BY CommitTakes
<1>2. /\ DOMAIN props' = DOMAIN all
      /\ \A i \in taken : props'[i] = Approved(all[i])
      /\ \A i \in DOMAIN all \ taken : props'[i] = all[i]
    BY <1>1
<1>3. AppliedNow = taken
    <2>1. \A i \in taken : i \in AppliedNow
        BY <1>1, <1>2, RowApproved DEF AppliedNow
    <2>2. \A i \in DOMAIN all \ taken : i \notin AppliedNow
        <3> SUFFICES ASSUME NEW i \in DOMAIN all \ taken PROVE i \notin AppliedNow
            OBVIOUS
        <3>1. props'[i] = all[i]
            BY <1>2
        <3>2. CASE i \in DOMAIN props
            <4>1. props'[i].applied = props[i].applied /\ props[i].applied \in Nat
                BY <1>1, <3>1, <3>2 DEF RowOK, Priced
            <4>2. ~(props[i].applied < props'[i].applied)
                BY <4>1
            <4> QED
                BY <3>2, <4>2 DEF AppliedNow
        <3>3. CASE i \notin DOMAIN props
            BY <1>1, <3>1, <3>3 DEF AppliedNow
        <3> QED
            BY <3>2, <3>3
    <2>3. AppliedNow \subseteq DOMAIN all
        BY <1>2 DEF AppliedNow
    <2> QED
        BY <1>1, <2>1, <2>2, <2>3
<1>4. \A c \in Cohorts : Drawn(all, taken, c, Len(all)) <= cap[c]
    <2> SUFFICES ASSUME NEW c \in Cohorts PROVE Drawn(all, taken, c, Len(all)) = DrawnNow(c)
        <3>1. Len(all) \in 0..Len(all) /\ \A i \in 1..Len(all) : Priced(all[i])
            BY <1>1 DEF RowOK
        <3>2. ASSUME NEW c \in Cohorts PROVE Drawn(all, taken, c, Len(all)) \in Nat
            BY <1>1, <3>1, DrawnRows
        <3>3. \A c \in Cohorts : cap[c] \in Nat
            BY DEF CapInv, IsCaps
        <3> QED
            BY <3>2, <3>3
    <2> DEFINE f == Draws(all, taken, c, Len(all))
               g == [i \in DOMAIN props' |-> IF i \in AppliedNow /\ props'[i].from = c
                                             THEN props'[i].amount ELSE 0]
               S == 1..Len(all)
    <2>1. \A i \in S : f[i] \in Nat
        BY <1>1 DEF Draws, RowOK, Priced
    <2>2. \A i \in S : g[i] = f[i]
        <3> SUFFICES ASSUME NEW i \in S PROVE g[i] = f[i]
            OBVIOUS
        <3>1. RowOK(all[i]) /\ i \in DOMAIN props'
            BY <1>1, <1>2
        <3>2. props'[i].amount = all[i].amount /\ props'[i].from = all[i].from
            BY <1>1, <1>2, <3>1, RowApproved
        <3> QED
            BY <1>3, <3>1, <3>2 DEF Draws
    <2>3. IsFiniteSet(S)
        BY <1>1, FS_Interval
    <2>4. DrawnNow(c) = SumFunctionOnSet(g, S)
        BY <1>1, <1>2 DEF DrawnNow
    <2> HIDE DEF f, g, S
    <2>5. SumFunctionOnSet(g, S) = SumFunctionOnSet(f, S)
        BY <2>1, <2>2, <2>3, SumSame
    <2> QED
        BY <2>4, <2>5 DEF Drawn, f, S
<1>5. \A i \in 1..Len(all) : Priced(all[i])
    BY <1>1 DEF RowOK
<1> QED
    BY <1>1, <1>4, <1>5, CapsAfterCovered DEF CapInv

\* approve by a human draws the amount of its row.
LEMMA ApproveDraws ==
    ASSUME RowsInv, CapInv, IsFiniteSet(Cohorts), NEW o \in Operators, Approve(o),
           \A c \in Cohorts : ~(DrawnNow(c) > cap[c])
    PROVE  Total(cap') <= Total(cap)
<1> DEFINE i == deciding[o]
           p == props[i]
<1>1. /\ i \in DOMAIN props /\ RowOK(p) /\ cap' = Applied(cap, p)
      /\ props' = [props EXCEPT ![i] = Approved(p)]
      /\ props = [k \in DOMAIN props |-> props[k]]
      /\ DOMAIN props = 1..Len(props) /\ Len(props) \in Nat
    BY LenProperties DEF Approve, RowsInv
<1> HIDE DEF i, p
<1>2. /\ DOMAIN props' = DOMAIN props /\ props'[i] = Approved(p)
      /\ \A k \in DOMAIN props : k # i => props'[k] = props[k]
    BY <1>1
<1>3. AppliedNow = {i}
    <2>1. i \in AppliedNow
        BY <1>1, <1>2, RowApproved DEF AppliedNow, p
    <2>2. ASSUME NEW k \in DOMAIN props, k # i PROVE k \notin AppliedNow
        <3>1. props'[k].applied = props[k].applied /\ props[k].applied \in Nat
            BY <1>2, <2>2 DEF RowsInv, RowOK, Priced
        <3>2. ~(props[k].applied < props'[k].applied)
            BY <3>1
        <3> QED
            BY <3>2 DEF AppliedNow
    <2>3. AppliedNow \subseteq DOMAIN props
        BY <1>2 DEF AppliedNow
    <2> QED
        BY <2>1, <2>2, <2>3
<1>4. \A c \in Cohorts : DrawnNow(c) = Asked(p, c)
    <2> SUFFICES ASSUME NEW c \in Cohorts PROVE DrawnNow(c) = Asked(p, c)
        OBVIOUS
    <2> DEFINE g == [k \in DOMAIN props' |-> IF k \in AppliedNow /\ props'[k].from = c
                                             THEN props'[k].amount ELSE 0]
               z == [k \in DOMAIN props |-> 0]
               S == DOMAIN props
               d == Asked(p, c)
    <2>1. d \in Nat
        BY <1>1 DEF Asked, RowOK, Priced
    <2>2. \A k \in S : g[k] = z[k] + (IF k = i THEN d ELSE 0)
        <3>1. g[i] = d
            BY <1>1, <1>2, <1>3, RowApproved DEF Asked
        <3>2. \A k \in S : k # i => g[k] = 0
            BY <1>2, <1>3
        <3> HIDE DEF g, d
        <3> QED
            BY <2>1, <3>1, <3>2
    <2>3. IsFiniteSet(S)
        BY <1>1, FS_Interval
    <2>4. (\A k \in S : z[k] \in Nat) /\ (\A k \in S : z[k] = 0)
        OBVIOUS
    <2>5. DrawnNow(c) = SumFunctionOnSet(g, S)
        BY <1>2 DEF DrawnNow
    <2>6. i \in S
        BY <1>1
    <2> HIDE DEF g, z, S, d
    <2>7. SumFunctionOnSet(g, S) = SumFunctionOnSet(z, S) + (IF i \in S THEN d ELSE 0)
        BY <2>1, <2>2, <2>3, <2>4, SumChanged
    <2>8. SumFunctionOnSet(z, S) = 0
        BY <2>3, <2>4, SumZero
    <2> QED
        BY <2>1, <2>5, <2>6, <2>7, <2>8 DEF d
<1> DEFINE rest == [c \in Cohorts |-> cap[c] - Asked(p, c)]
<1>5. /\ IsCaps(rest) /\ IsCaps(cap) /\ rows \subseteq Cohorts
      /\ \A c \in Cohorts : cap[c] = rest[c] + Asked(p, c)
    <2>1. IsCaps(cap) /\ rows \subseteq Cohorts
        BY DEF CapInv
    <2>2. ASSUME NEW c \in Cohorts
          PROVE  /\ rest[c] \in Nat /\ (c \notin rows => rest[c] = 0)
                 /\ cap[c] = rest[c] + Asked(p, c)
        <3>1. Asked(p, c) \in Nat
            BY <1>1 DEF Asked, RowOK, Priced
        <3>2. cap[c] \in Nat /\ (c \notin rows => cap[c] = 0)
            BY <2>1 DEF IsCaps
        <3>3. ~(Asked(p, c) > cap[c])
            BY <1>4
        <3> QED
            BY <3>1, <3>2, <3>3
    <2> QED
        BY <2>1, <2>2 DEF IsCaps
<1> HIDE DEF rest
<1> DEFINE now == Applied(cap, p)
<1>6. IsCaps(now) /\ Cover(now, rest) <= Cover(cap, cap)
    BY <1>1, <1>5, AppliedType, AppliedIsCovered DEF RowOK, Priced
<1> HIDE DEF now
<1>7. \A c \in Cohorts : /\ cap[c] \in Nat /\ Larger(cap, cap)[c] = cap[c]
                        /\ now[c] \in Nat /\ now[c] <= Larger(now, rest)[c]
                        /\ Larger(now, rest)[c] \in Nat
    BY <1>5, <1>6 DEF IsCaps, Larger
<1>8. Cover(cap, cap) = Total(cap)
    BY <1>7, SumSame DEF Cover, Total
<1>9. Total(now) <= Cover(now, rest)
    BY <1>7, SumMonotone DEF Cover, Total
<1>10. Total(now) \in Nat /\ Total(cap) \in Nat /\ Cover(now, rest) \in Nat
    BY <1>7, SumType DEF Cover, Total
<1> QED
    BY <1>1, <1>6, <1>8, <1>9, <1>10 DEF now

\* The brake lowers a cap that is not empty.
LEMMA BrakeLowers ==
    ASSUME IsFiniteSet(Cohorts), IsCaps(cap), NEW c \in Cohorts, cap[c] # 0, NEW event
    PROVE  Total(Braked(c, event)) <= Total(cap)
<1>1. \A b \in Cohorts : Braked(c, event)[b] \in Nat /\ Braked(c, event)[b] <= cap[b]
    <2> SUFFICES ASSUME NEW b \in Cohorts
                 PROVE  Braked(c, event)[b] \in Nat /\ Braked(c, event)[b] <= cap[b]
        OBVIOUS
    <2>1. cap[b] \in Nat /\ cap[c] \in Nat \ {0}
        BY DEF IsCaps
    <2>2. cap[c] \div 2 \in Nat /\ cap[c] \div 2 <= cap[c]
        BY <2>1
    <2>3. AtLeastOne(cap[c] \div 2) \in Nat /\ AtLeastOne(cap[c] \div 2) <= cap[c]
        BY <2>1, <2>2 DEF AtLeastOne
    <2> QED
        BY <2>1, <2>3 DEF Braked, IsCaps
<1>2. \A b \in Cohorts : cap[b] \in Nat
    BY DEF IsCaps
<1> DEFINE now == Braked(c, event)
<1> HIDE DEF now
<1>3. SumFunctionOnSet(now, Cohorts) <= SumFunctionOnSet(cap, Cohorts)
    BY <1>1, <1>2, SumMonotone DEF now
<1> QED
    BY <1>3 DEF Total, now

LEMMA TotalStep ==
    ASSUME RowsInv, CapInv, IsFiniteSet(Cohorts), [Next]_vars
    PROVE  Total(cap') > Total(cap) =>
              \/ \E c \in Cohorts : SetCap(c)
              \/ \E c \in Cohorts : cap[c] = 0 /\ braked'[c] # braked[c]
              \/ \E c \in Cohorts : DrawnNow(c) > cap[c]
<1> SUFFICES ASSUME ~ \E c \in Cohorts : SetCap(c),
                    ~ \E c \in Cohorts : cap[c] = 0 /\ braked'[c] # braked[c],
                    ~ \E c \in Cohorts : DrawnNow(c) > cap[c]
             PROVE  ~(Total(cap') > Total(cap))
    OBVIOUS
<1>1. IsCaps(cap) /\ Total(cap) \in Nat
    BY TotalType DEF CapInv, IsCaps
<1>2. Total(cap') \in Nat
    <2>1. CapInv'
        BY CapStep
    <2> QED
        BY <2>1, TotalType DEF CapInv, IsCaps
<1> SUFFICES Total(cap') <= Total(cap)
    BY <1>1, <1>2
<1>3. ASSUME UNCHANGED cap PROVE Total(cap') <= Total(cap)
    BY <1>1, <1>3
<1>4. ASSUME NEW m \in Miners, Mine(m) \/ AutoReview(m) \/ Abort(m)
      PROVE  UNCHANGED cap
    BY <1>4 DEF Mine, AutoReview, Abort
<1>5. ASSUME NEW m \in Miners, Commit(m) PROVE Total(cap') <= Total(cap)
    BY <1>5, CommitDraws
<1>6. ASSUME NEW o \in Operators, Approve(o) PROVE Total(cap') <= Total(cap)
    BY <1>6, ApproveDraws
<1>7. ASSUME NEW i \in DOMAIN props,
             MemoryLapses(i) \/ \E o \in Operators : ReadOpen(o, i) \/ Decline(o, i)
      PROVE  UNCHANGED cap
    BY <1>7 DEF MemoryLapses, ReadOpen, Decline
<1>8. ASSUME NEW w \in Classifiers, NEW c \in Replying, Judge(w, c) PROVE UNCHANGED cap
    BY <1>8 DEF Judge
<1>9. ASSUME NEW w \in Classifiers, Judged(w) PROVE Total(cap') <= Total(cap)
    <2> DEFINE job == judging[w]
               c == job.cohort
    <2>1. c \in Cohorts /\ job.event \in Bands
        BY <1>9 DEF Judged, CapInv
    <2>2. CASE job.event = "none"
        BY <1>3, <1>9, <2>2 DEF Judged
    <2>3. CASE job.event # "none"
        <3>1. cap' = Braked(c, job.event) /\ braked' = [braked EXCEPT ![c][job.event] = @ + 1]
            BY <1>9, <2>3 DEF Judged
        <3>2. job.event \in Brakes
            BY <2>1, <2>3 DEF Bands
        <3>3. braked'[c] # braked[c]
            <4>1. braked'[c][job.event] = braked[c][job.event] + 1 /\ braked[c][job.event] \in Nat
                BY <2>1, <3>1, <3>2 DEF CapInv
            <4> QED
                BY <4>1
        <3>4. cap[c] # 0
            BY <2>1, <3>3
        <3> HIDE DEF c, job
        <3> QED
            BY <1>1, <2>1, <3>1, <3>4, BrakeLowers
    <2> QED
        BY <2>2, <2>3
<1>10. CASE NextMonth
    <2>1. cap' = [c \in Cohorts |-> 0]
        BY <1>10 DEF NextMonth
    <2>2. \A c \in Cohorts : cap'[c] = 0
        BY <2>1
    <2>3. Total(cap') = 0
        BY <2>2, SumZero DEF Total
    <2> QED
        BY <1>1, <2>3
<1>11. CASE UNCHANGED vars
    BY <1>3, <1>11 DEF vars
<1> QED
    BY <1>3, <1>4, <1>5, <1>6, <1>7, <1>8, <1>9, <1>10, <1>11 DEF Next

\* Without an operator's own write, the throttle's floor of one on an empty cap or a shift
\* of more than a cohort has, no step raises the total of the caps, whatever number of rows
\* hands_off applies at once (core/proposals._apply, auto_review).
THEOREM TotalIsKept ==
    ASSUME IsFiniteSet(Cohorts), IsFiniteSet(Ideas)
    PROVE  Spec => TotalRaisedOnlyByOverdraft
<1>1. RowsInv /\ CapInv /\ [Next]_vars =>
         [Total(cap') > Total(cap) =>
             \/ \E c \in Cohorts : SetCap(c)
             \/ \E c \in Cohorts : cap[c] = 0 /\ braked'[c] # braked[c]
             \/ \E c \in Cohorts : DrawnNow(c) > cap[c]]_vars
    BY TotalStep
<1> QED
    BY <1>1, TypedStep, PTL DEF Spec, TotalRaisedOnlyByOverdraft
====
