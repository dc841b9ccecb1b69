---- MODULE OptOut ----
(***************************************************************************)
(* What an opt-out promises: whoever is listed stays listed whatever comes *)
(* after, and the provider is told of nobody else and untold of nobody.    *)
(***************************************************************************)
CONSTANT People
VARIABLES listed, enforced

Init == listed = {} /\ enforced = {}

List ==
    /\ \E new \in SUBSET People : listed' = listed \cup new
    /\ UNCHANGED enforced

Enforce(p) ==
    /\ p \in listed
    /\ enforced' = enforced \cup {p}
    /\ UNCHANGED listed

Next == List \/ \E p \in People : Enforce(p)

Spec == Init /\ [][Next]_<<listed, enforced>>
====
