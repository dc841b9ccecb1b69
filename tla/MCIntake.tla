---- MODULE MCIntake ----
(***************************************************************************)
(* Small instances of Intake for TLC: one person the sources list three    *)
(* times, by registry number, by address, and by both, so that the third   *)
(* listing may find two entities.                                          *)
(***************************************************************************)
EXTENDS Intake

CONSTANTS registry, website, listing, npi, mailA, cohortA, cohortB

MCCandidates == {registry, website, listing}
MCKeys == {npi, mailA}
MCKeysOf == [c \in MCCandidates |->
               CASE c = registry -> {npi} [] c = website -> {mailA} [] OTHER -> {npi, mailA}]
MCCohorts == {cohortA, cohortB}
MCReturns == [c \in MCCohorts |-> IF c = cohortA THEN {registry} ELSE {website, listing}]
MCEmailOf == [c \in MCCandidates |-> IF c = registry THEN None ELSE mailA]
MCFinds == [c \in MCCandidates |-> mailA]
====
