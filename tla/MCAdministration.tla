--------------------------- MODULE MCAdministration ---------------------------
(***************************************************************************)
(* A small instance of Administration.  What a part begins with is chosen   *)
(* only in the behaviours that run it.                                      *)
(***************************************************************************)
EXTENDS Administration

CONSTANTS A, B, C, p1, u1, u2, t1, j1, c1, c2, w1, w2, s1, s2, up, d1, d2, d3, d4,
          e1, e2, e3, k1, k2

MCInit ==
  /\ AdministrationInit
  /\ part # "data" => table = "category"
  /\ part # "lists" => /\ book = "ledger" /\ ~reader.admin /\ applied = NoFilter
                       /\ \A k \in DOMAIN listing : listing[k].places = {A}

MCSpec == MCInit /\ [][AdministrationNext]_administrationVars

-----------------------------------------------------------------------------
NoRole  == [l \in Locations |-> "NONE"]
Manager == [l \in Locations |-> "MANAGER"]
AtB     == [l \in Locations |-> IF l = B THEN "OPERATOR" ELSE "NONE"]
MCAssignments == {Manager, AtB}
MCFirst == [u \in Users |-> Manager]
OneWay  == {<<A, B>>}
\* One with the reader, one without.
TwoSpans == {{A, B}, {B, C}}
Elsewhere == {{A}, {B}}

Cells(s, b) == [sku |-> s, ok |-> b]
\* An empty row before two good ones; one SKU twice; a row that names no known vendor.
MCSheets == {<<BlankRow, Cells(s1, TRUE), Cells(s2, TRUE)>>,
             <<Cells(s1, TRUE), Cells(s2, TRUE), Cells(s2, TRUE)>>,
             <<Cells(s1, FALSE), Cells(s2, TRUE)>>}

Sym == Permutations(Calls)
=============================================================================
