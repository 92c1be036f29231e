-------------------------------- MODULE System --------------------------------
(***************************************************************************)
(* Transfers and adjustments together over the same balance rows and the    *)
(* same ledger: the stock of TransferWorkflow is changed by the real        *)
(* adjustment workflow, and the reservations AdjustmentWorkflow respects    *)
(* are those of the real transfers.                                         *)
(***************************************************************************)
EXTENDS TransferWorkflow, AdjustmentWorkflow

\* Every entry of the ledger is made by a transfer or by an adjustment.
ASSUME SystemAssumption == OtherSources = Adjustments /\ OtherRequests = Transfers

systemVars == <<vars, adjustVars>>

SystemInit == Init /\ AInit

SystemNext ==
  \/ TransferNext /\ UNCHANGED adjustVars
  \/ ANext /\ UNCHANGED <<requestVars, handler>>

SystemSpec == SystemInit /\ [][SystemNext]_systemVars
=============================================================================
