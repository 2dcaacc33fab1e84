------------------------------- MODULE Atlas -------------------------------
(***************************************************************************)
(* What the stored homes and warps of solaris-essentials promise, whoever  *)
(* writes them at the same time: they change by one named place at a time, *)
(* a place is not moved to another dimension unless it is set again, and   *)
(* no register outgrows the limit its decoder enforces.                    *)
(***************************************************************************)
EXTENDS Naturals, FiniteSets

CONSTANTS
  Keys,            \* the registers: the homes of each player, the warps
  Names,           \* names of places
  Dimensions,
  Unknown,         \* the dimension of a place saved before dimensions were
  Limit,           \* register -> how many places it may hold
  InitialAtlases

VARIABLE atlas     \* register -> name -> dimension

SetPlace(k, n, d) ==
  /\ n \in DOMAIN atlas[k] \/ Cardinality(DOMAIN atlas[k]) < Limit[k]
  /\ atlas' = [atlas EXCEPT ![k] = [m \in DOMAIN @ \cup {n} |-> IF m = n THEN d ELSE @[m]]]

DeletePlace(k, n) ==
  /\ n \in DOMAIN atlas[k]
  /\ atlas' = [atlas EXCEPT ![k] = [m \in DOMAIN @ \ {n} |-> @[m]]]

Init == atlas \in InitialAtlases

Next == \E k \in Keys, n \in Names :
           DeletePlace(k, n) \/ \E d \in Dimensions : SetPlace(k, n, d)

Spec == Init /\ [][Next]_atlas
=============================================================================
