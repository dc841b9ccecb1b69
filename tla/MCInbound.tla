---- MODULE MCInbound ----
(***************************************************************************)
(* Small instances of Inbound for TLC: a person with two addresses, two    *)
(* polls, a bounce in the mailbox and an unsubscribe from the provider.    *)
(***************************************************************************)
EXTENDS Inbound

CONSTANTS bounce, unsubscribe, home, work, global

MCMail == {bounce}
MCHooks == {unsubscribe}
MCPeople == {home, work}
MCScopes == {global}
MCEntityOf == [p \in MCPeople |-> home]
MCAbout == [e \in MCMail \cup MCHooks |-> IF e = bounce THEN work ELSE home]
MCSays == [e \in MCMail \cup MCHooks |->
             IF e = bounce THEN "bounce" ELSE "unsubscribe"]
====
