---- MODULE Budget ----
(***************************************************************************)
(* Who may move a cohort's monthly cap: discovery and rebalancing file     *)
(* proposals, a human or the hands_off policy resolves them, and the       *)
(* sentiment brake rewrites caps from the classify path                    *)
(* (agents/discovery.py, core/proposals.py, core/programs.py,              *)
(* stats/sentiment.py, cli/main.py, api/manage.py).                        *)
(*                                                                         *)
(* A command is one transaction at READ COMMITTED.  It takes one step to   *)
(* read and one to write and commit; an UPDATE of a counter locks the row  *)
(* and sees the committed cap, so its effect is placed at the commit.      *)
(***************************************************************************)
EXTENDS Integers, Sequences, FiniteSets, SequencesExt

CONSTANTS
    Cohorts,
    NoCohort,         \* a proposal that names no cohort
    Miners,           \* processes of `reachout discover`
    Operators,        \* CLI and dashboard sessions of humans
    Classifiers,      \* workers of the classify queue
    OneDecider,       \* assumed: no proposal is resolved by hands_off and by a human
    Outcomes,         \* what cohort_outcomes and the floors may say of a cohort
    Replying,         \* cohorts whose prospects reply
    Ideas,            \* <<kind, key>> of the always-human proposals a model may file
    Plan,             \* the cap the operator gives a cohort for a month
    MinSignal,        \* MIN_SIGNAL
    EvaluateEvery,    \* EVALUATE_EVERY
    MinReplies,       \* MIN_REPLIES
    MaxReplies,       \* bound: classified replies of a cohort
    MaxProposals,     \* bound: rows of proposals
    MaxMonths         \* bound: months

AutoApplicable == {"budget_shift", "rebalance"}

ASSUME BudgetAssumption ==
    /\ NoCohort \notin Cohorts /\ Replying \subseteq Cohorts
    /\ OneDecider \in BOOLEAN
    /\ Outcomes \subseteq [contacted : Nat, converted : Nat, flagged : BOOLEAN]
    /\ \A idea \in Ideas : idea[1] \notin AutoApplicable \cup {"zero_conv"}
    /\ Plan \in Nat \ {0}
    /\ MinSignal \in Nat \ {0} /\ EvaluateEvery \in Nat \ {0}
    /\ MinReplies \in Nat /\ MaxReplies \in Nat
    /\ MaxProposals \in Nat /\ MaxMonths \in Nat

VARIABLES
    handsOff,    \* expand_autonomy(brief.autonomy).cohort_launch = auto_within_budget
    month,       \* datetime.now(UTC).strftime("%Y-%m")
    rows,        \* cohorts with a cohort_month row of this month in counters
    cap,         \* counters.cap of this month, 0 without a row
    props,       \* proposals, in the order of their commits
    mining,      \* per miner: the transaction of a discover command
    deciding,    \* per operator: the proposal it has read as open, or 0
    judging,     \* per classifier: the transaction of a classify job
    mood,        \* per cohort: the band of cohort_sentiment, 0 fine, 1 sour, 2 hostile
    classified,  \* per cohort: replies with an intent
    braked       \* per cohort: this month's audit rows of each sentiment event

market == <<props, mining, deciding>>
brake == <<judging, mood, classified, braked>>
vars == <<handsOff, month, rows, cap, market, brake>>

Brakes == {"sentiment_throttle", "sentiment_pause"}
NoDrafts == [phase |-> "idle", drafts |-> <<>>, open |-> {}]
NoJob == [cohort |-> NoCohort, view |-> 0, event |-> "none"]

Init ==
    /\ handsOff \in BOOLEAN
    /\ month = 1 /\ rows = {} /\ cap = [c \in Cohorts |-> 0]
    /\ props = <<>>
    /\ mining = [m \in Miners |-> NoDrafts]
    /\ deciding = [o \in Operators |-> 0]
    /\ judging = [w \in Classifiers |-> NoJob]
    /\ mood = [c \in Cohorts |-> 0]
    /\ classified = [c \in Cohorts |-> 0]
    /\ braked = [c \in Cohorts |-> [b \in Brakes |-> 0]]

----
\* Discovery: what a discover command drafts from the outcomes it reads.

Rate(o) == IF o.contacted = 0 THEN 0 ELSE (100 * o.converted) \div o.contacted

Draft(kind, key, action, from, to, amount) ==
    [kind |-> kind, key |-> key, action |-> action, from |-> from, to |-> to,
     amount |-> amount, status |-> "open", remembered |-> FALSE, applied |-> 0]

AtLeastOne(n) == IF n > 1 THEN n ELSE 1

\* analyze: max and min take any of the best and of the worst; when they name one
\* cohort the scan returns before it flags the cohorts without a conversion.
Analysis(outcome, best, worst) ==
    LET signal == {c \in Cohorts : outcome[c].contacted >= MinSignal}
        rate == [c \in signal |-> Rate(outcome[c])]
        shift == Draft("budget_shift", <<"budget_shift", worst, best>>, "shift", worst, best,
                       AtLeastOne(cap[worst] \div 4))
    IN  IF \A c, d \in signal : rate[c] = rate[d]
        THEN {}
        ELSE (IF rate[worst] = 0 \/ rate[best] >= 2 * rate[worst] THEN {shift} ELSE {})
             \cup {Draft("opportunity", <<"zero_conv", c>>, "edit", NoCohort, NoCohort, 0) :
                     c \in {d \in signal : /\ outcome[d].converted = 0
                                           /\ outcome[d].contacted >= 2 * MinSignal}}

IsExtreme(outcome, best, worst) ==
    LET signal == {c \in Cohorts : outcome[c].contacted >= MinSignal}
    IN  signal # {} => /\ {best, worst} \subseteq signal
                       /\ \A c \in signal : /\ Rate(outcome[c]) <= Rate(outcome[best])
                                            /\ Rate(outcome[c]) >= Rate(outcome[worst])

\* rebalance_scan: a cohort below its floors is paused, or shifted to the best one.
Rebalance(outcome, c, top) ==
    IF Rate(outcome[top]) > Rate(outcome[c])
    THEN Draft("rebalance", <<"rebalance", c>>, "shift", c, top, AtLeastOne(cap[c] \div 2))
    ELSE Draft("rebalance", <<"rebalance", c>>, "pause", c, NoCohort, 0)

\* brainstorm, resynthesize_on_drift and the synthesize job.
IdeaDraft(idea) == Draft(idea[1], idea, "edit", NoCohort, NoCohort, 0)

\* Mutant: a decline is not remembered.
SuppressedByOpen(key) == \E i \in DOMAIN props : props[i].key = key /\ props[i].status = "open"

\* propose: an open duplicate, or one declined within the memory window.
Suppressed(key) ==
    \E i \in DOMAIN props : /\ props[i].key = key
                            /\ \/ props[i].status = "open"
                               \/ props[i].status = "declined" /\ props[i].remembered

Mine(m) ==
    /\ mining[m].phase = "idle"
    /\ \E outcome \in [Cohorts -> Outcomes], ideas \in SUBSET Ideas :
       \E best, worst, top \in Cohorts :
          /\ IsExtreme(outcome, best, worst)
          /\ \A c \in Cohorts : Rate(outcome[c]) <= Rate(outcome[top])
          /\ LET wanted == Analysis(outcome, best, worst)
                           \cup {Rebalance(outcome, c, top) : c \in {d \in Cohorts : outcome[d].flagged}}
                           \cup {IdeaDraft(idea) : idea \in ideas}
                 kept == {d \in wanted : ~Suppressed(d.key)}
             IN  /\ Len(props) + Cardinality(kept) <= MaxProposals
                 /\ \E drafts \in SetToSeqs(kept) :
                       mining' = [mining EXCEPT ![m] = [phase |-> "mined", drafts |-> drafts,
                                                        open |-> {}]]
    /\ UNCHANGED <<handsOff, month, rows, cap, props, deciding, brake>>

\* auto_review takes its own drafts and the open proposals it sees.
AutoReview(m) ==
    /\ mining[m].phase = "mined"
    /\ mining' = [mining EXCEPT
           ![m].phase = "reviewed",
           ![m].open = {i \in DOMAIN props : /\ handsOff
                                             /\ props[i].status = "open"
                                             /\ props[i].kind \in AutoApplicable}]
    /\ UNCHANGED <<handsOff, month, rows, cap, props, deciding, brake>>

----
\* Resolution.

\* Mutant: no clamp.
MovedBelowZero(caps, c, delta) == IF c \notin rows THEN caps ELSE [caps EXCEPT ![c] = @ + delta]

\* _apply: the two halves clamp at zero one by one; a cohort without a row is passed over.
Moved(caps, c, delta) ==
    IF c \notin rows THEN caps
    ELSE [caps EXCEPT ![c] = IF @ + delta < 0 THEN 0 ELSE @ + delta]

\* Mutant: the signs are swapped.
AppliedBackwards(caps, p) ==
    CASE p.action = "pause" -> IF p.from \in rows THEN [caps EXCEPT ![p.from] = 0] ELSE caps
      [] p.action = "shift" -> Moved(Moved(caps, p.to, -p.amount), p.from, p.amount)
      [] OTHER -> caps

Applied(caps, p) ==
    CASE p.action = "pause" -> IF p.from \in rows THEN [caps EXCEPT ![p.from] = 0] ELSE caps
      [] p.action = "shift" -> Moved(Moved(caps, p.from, -p.amount), p.to, p.amount)
      [] OTHER -> caps

\* approve's UPDATE names the proposal by id alone, whatever became of it since.
Approved(p) == [p EXCEPT !.status = "approved", !.applied = @ + 1]

\* auto_review applies what it takes of the rows, the oldest first.
CapsAfter(all, taken) ==
    LET after[n \in 0..Len(all)] ==
            IF n = 0 THEN cap
            ELSE IF n \in taken THEN Applied(after[n - 1], all[n]) ELSE after[n - 1]
    IN  after[Len(all)]

\* The commit of a discover command: its drafts join the table, behind what others have
\* committed meanwhile, and hands_off applies its own and those that it saw.
Commit(m) ==
    LET all == props \o mining[m].drafts
        taken == {i \in DOMAIN all : IF i \in DOMAIN props THEN i \in mining[m].open
                                    ELSE handsOff /\ all[i].kind \in AutoApplicable}
    IN  /\ mining[m].phase = "reviewed"
        /\ Len(all) <= MaxProposals
        /\ cap' = CapsAfter(all, taken)
        /\ props' = [i \in DOMAIN all |-> IF i \in taken THEN Approved(all[i]) ELSE all[i]]
        /\ mining' = [mining EXCEPT ![m] = NoDrafts]
        /\ UNCHANGED <<handsOff, month, rows, deciding, brake>>

\* A discover command fails (a model error, a lock cycle) and its transaction rolls back.
Abort(m) ==
    /\ mining[m].phase # "idle"
    /\ mining' = [mining EXCEPT ![m] = NoDrafts]
    /\ UNCHANGED <<handsOff, month, rows, cap, props, deciding, brake>>

\* Mutant: the status is not looked at.
ReadAny(o, i) ==
    /\ deciding[o] = 0
    /\ OneDecider /\ handsOff => props[i].kind \notin AutoApplicable
    /\ deciding' = [deciding EXCEPT ![o] = i]
    /\ UNCHANGED <<handsOff, month, rows, cap, props, mining, brake>>

\* approve by a human, up to _get_open.
ReadOpen(o, i) ==
    /\ deciding[o] = 0
    /\ props[i].status = "open"
    /\ OneDecider /\ handsOff => props[i].kind \notin AutoApplicable
    /\ deciding' = [deciding EXCEPT ![o] = i]
    /\ UNCHANGED <<handsOff, month, rows, cap, props, mining, brake>>

Approve(o) ==
    LET i == deciding[o]
    IN  /\ i # 0
        /\ cap' = Applied(cap, props[i])
        /\ props' = [props EXCEPT ![i] = Approved(@)]
        /\ deciding' = [deciding EXCEPT ![o] = 0]
        /\ UNCHANGED <<handsOff, month, rows, mining, brake>>

Decline(o, i) ==
    /\ deciding[o] = 0
    /\ props[i].status = "open"
    /\ OneDecider /\ handsOff => props[i].kind \notin AutoApplicable
    /\ props' = [props EXCEPT ![i].status = "declined", ![i].remembered = TRUE]
    /\ UNCHANGED <<handsOff, month, rows, cap, mining, deciding, brake>>

\* DECLINE_MEMORY_DAYS pass.
MemoryLapses(i) ==
    /\ props[i].remembered
    /\ props' = [props EXCEPT ![i].remembered = FALSE]
    /\ UNCHANGED <<handsOff, month, rows, cap, mining, deciding, brake>>

----
\* The sentiment brake.

Due(n) == n % EvaluateEvery = 0

\* Mutant: the audit rows are not read.
VerdictAlways(c, view, n) ==
    IF Due(n) /\ n >= MinReplies /\ view > 0
    THEN IF view = 2 THEN "sentiment_pause" ELSE "sentiment_throttle"
    ELSE "none"

\* evaluate_cohort's verdict on the n-th reply: the event of its band, once a month.
Verdict(c, view, n) ==
    LET event == IF view = 2 THEN "sentiment_pause" ELSE "sentiment_throttle"
    IN  IF Due(n) /\ n >= MinReplies /\ view > 0 /\ braked[c][event] = 0 THEN event ELSE "none"

\* A classify job stores its reply's intent and, on every EvaluateEvery-th one, reads the
\* score and this month's audit rows.  It counts its own reply and the committed ones.
\* One reply moves the average by less than a band.
Judge(w, c) ==
    /\ judging[w].cohort = NoCohort
    /\ classified[c] < MaxReplies
    /\ \E view \in {v \in 0..2 : v - mood[c] \in -1..1} :
          LET n == classified[c] + 1
          IN  judging' = [judging EXCEPT ![w] = [cohort |-> c, view |-> view,
                                                 event |-> Verdict(c, view, n)]]
    /\ UNCHANGED <<handsOff, month, rows, cap, market, mood, classified, braked>>

\* evaluate_cohort: zero the cap, or halve it down to one.
Braked(c, event) ==
    IF c \notin rows THEN cap
    ELSE [cap EXCEPT ![c] = IF event = "sentiment_pause" THEN 0 ELSE AtLeastOne(@ \div 2)]

Judged(w) ==
    LET job == judging[w]
        c == job.cohort
        acts == job.event # "none"
    IN  /\ c # NoCohort
        /\ cap' = IF acts THEN Braked(c, job.event) ELSE cap
        /\ braked' = IF acts THEN [braked EXCEPT ![c][job.event] = @ + 1] ELSE braked
        /\ mood' = [mood EXCEPT ![c] = job.view]
        /\ classified' = [classified EXCEPT ![c] = @ + 1]
        /\ judging' = [judging EXCEPT ![w] = NoJob]
        /\ UNCHANGED <<handsOff, month, rows, market>>

----
\* The operator writes a cohort's row for the month, or restores a zeroed cap (SQL).
SetCap(c) ==
    /\ c \notin rows \/ cap[c] = 0
    /\ rows' = rows \cup {c}
    /\ cap' = [cap EXCEPT ![c] = Plan]
    /\ UNCHANGED <<handsOff, month, market, brake>>

\* A new period has no rows and no audit rows; a classify job does not straddle midnight.
NextMonth ==
    /\ month < MaxMonths
    /\ \A w \in Classifiers : judging[w].cohort = NoCohort
    /\ month' = month + 1
    /\ rows' = {} /\ cap' = [c \in Cohorts |-> 0]
    /\ braked' = [c \in Cohorts |-> [b \in Brakes |-> 0]]
    /\ UNCHANGED <<handsOff, market, judging, mood, classified>>

Next ==
    \/ \E m \in Miners : Mine(m) \/ AutoReview(m) \/ Commit(m) \/ Abort(m)
    \/ \E o \in Operators : Approve(o) \/ \E i \in DOMAIN props : ReadOpen(o, i) \/ Decline(o, i)
    \/ \E i \in DOMAIN props : MemoryLapses(i)
    \/ \E w \in Classifiers : Judged(w) \/ \E c \in Replying : Judge(w, c)
    \/ \E c \in Cohorts : SetCap(c)
    \/ NextMonth

Spec == Init /\ [][Next]_vars

----
TypeOK ==
    /\ handsOff \in BOOLEAN /\ month \in Nat
    /\ rows \subseteq Cohorts /\ cap \in [Cohorts -> Nat]
    /\ \A i \in DOMAIN props : props[i].status \in {"open", "approved", "declined"}
    /\ deciding \in [Operators -> Nat]
    /\ \A o \in Operators : deciding[o] # 0 => deciding[o] \in DOMAIN props
    /\ mood \in [Cohorts -> 0..2]
    /\ classified \in [Cohorts -> Nat]
    /\ braked \in [Cohorts -> [Brakes -> Nat]]

\* Every approved proposal was applied exactly once, and an open or declined one never
\* (approve reads an open proposal, applies its delta, and marks it in three statements).
AppliedOnce ==
    \A i \in DOMAIN props : props[i].applied = IF props[i].status = "approved" THEN 1 ELSE 0

\* A direction has one open proposal at most, and none while its decline is remembered
\* (propose reads for a duplicate and inserts; no unique index stands behind it).
NotRepitched ==
    \A i, j \in DOMAIN props :
        /\ i # j /\ props[i].key = props[j].key /\ props[i].status = "open"
        => props[j].status # "open" /\ ~props[j].remembered

Total(caps) == SumFunctionOnSet(caps, Cohorts)

\* The proposals that a step applies, and what they ask of a cohort.
AppliedNow == {i \in DOMAIN props' :
                  /\ props'[i].status = "approved"
                  /\ i \in DOMAIN props => props[i].applied < props'[i].applied}
DrawnNow(c) ==
    SumFunctionOnSet([i \in DOMAIN props' |-> IF i \in AppliedNow /\ props'[i].from = c
                                              THEN props'[i].amount ELSE 0],
                     DOMAIN props')

\* The total of the caps rises by the operator's own hand, by the throttle's floor of one on
\* an empty cap, or when the shifts applied in one step ask a cohort for more than it has.
TotalRaisedOnlyByOverdraft ==
    [][Total(cap') > Total(cap) =>
          \/ \E c \in Cohorts : SetCap(c)
          \/ \E c \in Cohorts : cap[c] = 0 /\ braked'[c] # braked[c]
          \/ \E c \in Cohorts : DrawnNow(c) > cap[c]]_vars

\* A month brakes a cohort once for each event however many replies sour it: the cap is
\* halved once, not with every evaluation (sentiment._already_acted).
BrakedOnce == \A c \in Cohorts, b \in Brakes : braked[c][b] <= 1
====
