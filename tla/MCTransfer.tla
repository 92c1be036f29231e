------------------------------ MODULE MCTransfer ------------------------------
(***************************************************************************)
(* Small instances of TransferWorkflow: which row holds stock at the start  *)
(* and which calls the clients make.                                        *)
(***************************************************************************)
EXTENDS TransferWorkflow, TLC

CONSTANTS t1, t2, h1, h2, A, B, p1, p2

\* One unit of every product at A, nothing at B.
OneAtA == [r \in Products \X Locations |-> IF r[2] = A THEN 1 ELSE 0]

AllCalls == Operations
WorkflowCalls == Operations \ {"deleteRequest"}

Symmetry == Permutations(Handlers) \cup Permutations(Transfers)
=============================================================================
