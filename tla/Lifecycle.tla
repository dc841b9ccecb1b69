---- MODULE Lifecycle ----
(***************************************************************************)
(* The life of a prospect as core/states.py allows it: a row begins as     *)
(* discovered, a transaction takes one prospect along one or two allowed   *)
(* transitions, and a deletion takes a whole set of them to forgotten.     *)
(***************************************************************************)
CONSTANT Prospects
VARIABLE state

States == {"discovered", "enriched", "qualified", "queued", "contacted", "engaged",
           "converted", "disqualified", "unenrichable", "bounced", "declined",
           "unsubscribed", "no_response", "forgotten"}

\* TRANSITIONS
Allowed(from) ==
    CASE from = "discovered" -> {"enriched", "unenrichable", "forgotten"}
      [] from = "enriched" -> {"qualified", "disqualified", "forgotten"}
      [] from = "qualified" -> {"queued", "forgotten"}
      [] from = "queued" -> {"contacted", "disqualified", "forgotten"}
      [] from = "contacted" -> {"engaged", "converted", "bounced", "declined",
                                "unsubscribed", "no_response", "forgotten"}
      [] from = "engaged" -> {"converted", "declined", "unsubscribed", "no_response",
                              "forgotten"}
      [] from = "no_response" -> {"queued", "forgotten"}
      [] from = "forgotten" -> {}
      [] OTHER -> {"forgotten"}

Init == state = [p \in Prospects |-> "none"]

Create(p) ==
    /\ state[p] = "none"
    /\ state' = [state EXCEPT ![p] = "discovered"]

Advance(p) ==
    /\ state[p] \in States
    /\ \E next \in Allowed(state[p]) :
          \E last \in {next} \cup Allowed(next) : state' = [state EXCEPT ![p] = last]

Forget ==
    \E gone \in SUBSET {p \in Prospects : state[p] # "none"} :
        state' = [p \in Prospects |-> IF p \in gone THEN "forgotten" ELSE state[p]]

Next == Forget \/ \E p \in Prospects : Create(p) \/ Advance(p)

Spec == Init /\ [][Next]_state
====
