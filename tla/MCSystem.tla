------------------------------- MODULE MCSystem -------------------------------
(***************************************************************************)
(* A small instance of System.                                              *)
(***************************************************************************)
EXTENDS System, TLC

CONSTANTS t1, t2, h1, h2, a1, c1, A, B, p1

OneAtA == [r \in Products \X Locations |-> IF r[2] = A THEN 1 ELSE 0]

AllCalls == Operations
AdjustmentCalls == {"addItem", "submit", "approve", "finalize"}

\* What an adjustment goes through before its approval reads and writes nothing that it
\* shares with transfers, and comes before them.
SubmittedFirst ==
  (\E t \in Transfers : status[t] # "ABSENT") =>
    \A a \in Adjustments : aStatus[a] \in {"ABSENT", "SUBMITTED", "APPROVED", "FINALIZED"}

MCSystemSpec == SystemInit /\ [][SystemNext /\ SubmittedFirst']_systemVars

Symmetry == Permutations(Transfers) \cup Permutations(Handlers)
=============================================================================
