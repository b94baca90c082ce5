-------------------------------- MODULE Picks --------------------------------
(***************************************************************************)
(* Filters of a sequence, by the places that are kept: what retain, a      *)
(* HashSet of seen keys or a filtered loop leave of a Vec.                 *)
(***************************************************************************)
EXTENDS Integers, Sequences, FiniteSets

\* The entries of s at these places, in their order.
Picked(s, places) ==
    [n \in 1..Cardinality(places) |->
        s[CHOOSE k \in places : Cardinality({j \in places : j <= k}) = n]]

\* Where s first has each of its entries.
Firsts(s) == {k \in DOMAIN s : \A j \in 1..(k - 1) : s[j] # s[k]}
=============================================================================
