------------------------------ MODULE MCFilters -------------------------------
(***************************************************************************)
(* A small instance of Filters: two categories with a product each.         *)
(***************************************************************************)
EXTENDS Filters

CONSTANTS c1, c2, p1, p2

OneEach == [p \in Products |-> IF p = p1 THEN c1 ELSE c2]
=============================================================================
