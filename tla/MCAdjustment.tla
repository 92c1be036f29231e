----------------------------- MODULE MCAdjustment -----------------------------
(***************************************************************************)
(* Small instances of AdjustmentWorkflow.                                   *)
(***************************************************************************)
EXTENDS AdjustmentWorkflow, TLC

CONSTANTS a1, a2, c1, c2, A, B, p1

OneAtA == [r \in Products \X Locations |-> IF r[2] = A THEN 1 ELSE 0]

AllCalls == AdjustOperations
NoRemoval == AdjustOperations \ {"deleteItem", "deleteRequest"}

Symmetry == Permutations(Callers) \cup Permutations(Adjustments)
=============================================================================
