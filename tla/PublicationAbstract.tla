------------------------- MODULE PublicationAbstract ------------------------
(***************************************************************************)
(* What the publication service promises a contributor: an accepted        *)
(* operation has one outcome, it keeps that outcome, and it is published   *)
(* in the same instant in which its version becomes the next of its family.*)
(***************************************************************************)
EXTENDS Naturals

CONSTANTS Ops, Artifacts, NoFamily

VARIABLES outcome,   \* outcome[o]: "none", "pending", "published" or "failed"
          family,    \* family[o]: the artifact family o was accepted for, or NoFamily
          number,    \* number[o]: the version o published, 0 if none
          latest     \* latest[a]: how many versions the family has

vars == <<outcome, family, number, latest>>

Init ==
    /\ outcome = [o \in Ops |-> "none"]
    /\ family = [o \in Ops |-> NoFamily]
    /\ number = [o \in Ops |-> 0]
    /\ latest = [a \in Artifacts |-> 0]

Accept(o, a) ==
    /\ outcome[o] = "none"
    /\ outcome' = [outcome EXCEPT ![o] = "pending"]
    /\ family' = [family EXCEPT ![o] = a]
    /\ UNCHANGED <<number, latest>>

Publish(o) ==
    /\ outcome[o] = "pending"
    /\ outcome' = [outcome EXCEPT ![o] = "published"]
    /\ latest' = [latest EXCEPT ![family[o]] = @ + 1]
    /\ number' = [number EXCEPT ![o] = latest[family[o]] + 1]
    /\ UNCHANGED family

Reject(o) ==
    /\ outcome[o] = "pending"
    /\ outcome' = [outcome EXCEPT ![o] = "failed"]
    /\ UNCHANGED <<family, number, latest>>

Next == \E o \in Ops : (\E a \in Artifacts : Accept(o, a)) \/ Publish(o) \/ Reject(o)

Spec == Init /\ [][Next]_vars
=============================================================================
