-------------------------------- MODULE Lists --------------------------------
(***************************************************************************)
(* The loops that filter a slice in place ("kept := list[:0]", then append *)
(* what stays): the elements that are kept, in their order.                *)
(***************************************************************************)
EXTENDS Naturals, Sequences, FiniteSets

\* the members of a set of places, in ascending order
Ascending(places) ==
    CHOOSE f \in [1..Cardinality(places) -> places] : \A m, n \in DOMAIN f : m < n => f[m] < f[n]

\* the subsequence of list with the elements of the set kept
Keep(list, kept) ==
    LET order == Ascending({i \in DOMAIN list : list[i] \in kept})
    IN  [n \in DOMAIN order |-> list[order[n]]]
=============================================================================
