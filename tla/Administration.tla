---------------------------- MODULE Administration ----------------------------
(***************************************************************************)
(* The parts of the administration, and the lists their pages read, beside  *)
(* each other.  They share no variable, so a behaviour of all of them is one*)
(* behaviour of each, and it is enough that a behaviour runs one part ("part")*)
(* and leaves the others as they begin.                                     *)
(***************************************************************************)
EXTENDS Guards, Matrix, RequestNumbers, MasterData, Accounts, Listings

VARIABLE part

administrationVars == <<guardVars, matrixVars, numberVars, dataVars, accountVars, listVars, part>>

AdministrationInit ==
  /\ part \in {"guards", "matrix", "numbers", "data", "accounts", "lists"}
  /\ GuardInit /\ MatrixInit /\ NumbersInit /\ DataInit /\ AccountInit /\ ListInit

AdministrationNext ==
  \/ part = "guards" /\ GuardNext
       /\ UNCHANGED <<matrixVars, numberVars, dataVars, accountVars, listVars, part>>
  \/ part = "matrix" /\ MatrixNext
       /\ UNCHANGED <<guardVars, numberVars, dataVars, accountVars, listVars, part>>
  \/ part = "numbers" /\ NumbersNext
       /\ UNCHANGED <<guardVars, matrixVars, dataVars, accountVars, listVars, part>>
  \/ part = "data" /\ DataNext
       /\ UNCHANGED <<guardVars, matrixVars, numberVars, accountVars, listVars, part>>
  \/ part = "accounts" /\ AccountNext
       /\ UNCHANGED <<guardVars, matrixVars, numberVars, dataVars, listVars, part>>
  \/ part = "lists" /\ ListNext
       /\ UNCHANGED <<guardVars, matrixVars, numberVars, dataVars, accountVars, part>>

AdministrationSpec == AdministrationInit /\ [][AdministrationNext]_administrationVars

-----------------------------------------------------------------------------
\* The shape of every table and call.
AdministrationTypeOK ==
  GuardTypeOK /\ MatrixTypeOK /\ NumbersTypeOK /\ DataTypeOK /\ AccountTypeOK /\ ListTypeOK

\* Two requests never share a number, two products a SKU, two rows of a table the key
\* that identifies them, whoever tests and writes meanwhile; an attempt that loses
\* the race is refused or repeated by the unique index.
IdentifiersAreUnique == NumbersIdentify /\ SkusIdentify /\ KeysIdentify
=============================================================================
