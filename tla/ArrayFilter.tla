----------------------------- MODULE ArrayFilter -----------------------------
(* Array.prototype.filter, which the pages use on their lists: the entries *)
(* at the places where the condition holds, in their order. It is stated   *)
(* without recursion, the n-th entry kept being the one at the place that  *)
(* has n of the places up to it.                                           *)
EXTENDS Naturals, FiniteSets

Filtered(s, places) ==
  [n \in 1..Cardinality(places) |->
     s[CHOOSE i \in places : Cardinality({k \in places : k <= i}) = n]]
=============================================================================
