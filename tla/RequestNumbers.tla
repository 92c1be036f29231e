---------------------------- MODULE RequestNumbers ----------------------------
(***************************************************************************)
(* The numbers of new requests: the count of the requests whose number has   *)
(* the day's prefix, plus one, tried again when the unique index refuses it. *)
(* Transfers and adjustments do the same with prefixes of their own; the     *)
(* module is one prefix on one day.                                          *)
(***************************************************************************)
EXTENDS Naturals, FiniteSets

CONSTANTS
  Drafts,    \* ids of the requests ever created under the prefix
  Creators,  \* the creates in flight at one time
  Attempts   \* 5 in the code

ASSUME NumbersAssumption == IsFiniteSet(Drafts) /\ Attempts \in Nat \ {0}

VARIABLES
  number,    \* number of a request; 0: no such request
  creating,  \* the creates: how often they have tried and what they will try
  deleted,   \* history: a request was deleted
  gaveUp     \* history: a create ended in the error of the unique index

numberVars == <<number, creating, deleted, gaveUp>>

Resting == [tried |-> 0, next |-> 0]
InUse   == {r \in Drafts : number[r] # 0}

\* generateRequestNumber
Count(c) ==
  /\ creating[c].next = 0
  /\ creating' = [creating EXCEPT ![c].next = Cardinality(InUse) + 1]
  /\ UNCHANGED <<number, deleted, gaveUp>>

\* Mutant: the first refusal ends the call.
MayRetryNever(tried) == FALSE

\* Mutant: the loop goes once too often.
MayRetryOnceMore(tried) == tried < Attempts

\* The catch block: attempt < 4.
MayRetry(tried) == tried + 1 < Attempts

\* Mutant: the column has no unique index.
FreeAlways(n) == TRUE

Free(n) == \A r \in InUse : number[r] # n

\* The insert, and what the loop makes of the unique index's refusal.
InsertNumbered(c, r) ==
  /\ creating[c].next # 0
  /\ number[r] = 0
  /\ IF Free(creating[c].next)
     THEN /\ number' = [number EXCEPT ![r] = creating[c].next]
          /\ creating' = [creating EXCEPT ![c] = Resting]
          /\ UNCHANGED gaveUp
     ELSE /\ creating' = [creating EXCEPT ![c] =
               IF MayRetry(@.tried) THEN [tried |-> @.tried + 1, next |-> 0] ELSE Resting]
          /\ gaveUp' = (gaveUp \/ ~MayRetry(creating[c].tried))
          /\ UNCHANGED number
  /\ UNCHANGED deleted

\* deleteRequest of a draft.
DeleteNumbered(r) ==
  /\ r \in InUse
  /\ number' = [number EXCEPT ![r] = 0]
  /\ deleted' = TRUE
  /\ UNCHANGED <<creating, gaveUp>>

NumbersInit ==
  /\ number = [r \in Drafts |-> 0]
  /\ creating = [c \in Creators |-> Resting]
  /\ deleted = FALSE
  /\ gaveUp = FALSE

NumbersNext ==
  \/ \E c \in Creators : Count(c) \/ \E r \in Drafts : InsertNumbered(c, r)
  \/ \E r \in Drafts : DeleteNumbered(r)

NumbersSpec == NumbersInit /\ [][NumbersNext]_numberVars

\* The shape of the variables.
NumbersTypeOK ==
  /\ number \in [Drafts -> 0 .. Cardinality(Drafts) + 1]
  /\ creating \in [Creators -> [tried : 0 .. Attempts - 1, next : 0 .. Cardinality(Drafts) + 1]]
  /\ deleted \in BOOLEAN /\ gaveUp \in BOOLEAN

\* Two requests never share a number.
NumbersIdentify == \A q, r \in InUse : number[q] = number[r] => q = r

\* Creates that collide get a number by trying again: as long as nothing was deleted,
\* one ends in an error only when it lost to as many others as it has tries.  (After a
\* deletion the count stays below a number in use, and every try computes the same.)
GivesUpOnlyWhenOutrun == gaveUp => deleted \/ Cardinality(InUse) >= Attempts
=============================================================================
