-------------------------- MODULE AdjustmentWorkflow --------------------------
(***************************************************************************)
(* Stock adjustment requests: stockAdjustment.service.ts and                *)
(* stockAdjustment.repository.ts.  As in TransferWorkflow a call reads the  *)
(* request outside any transaction and writes later; here submit and        *)
(* approve write the status without a condition on the status they replace, *)
(* while reject, cancel and finalize claim it.                              *)
(*                                                                          *)
(* The lines of a request are a sequence: finalize applies them in order,   *)
(* and two of them may name the same balance row.  Roles, active flags and  *)
(* registrations may refuse any call (AbortAdjustment).                     *)
(***************************************************************************)
EXTENDS Stock, SequencesExt

CONSTANTS
  Adjustments,   \* the ids of the requests ever created
  Callers,       \* the calls in flight at one time
  MaxLines,      \* bound: lines on one request
  AdjustCalls,   \* the operations clients call
  OtherRequests, \* the sources of the ledger entries that no adjustment makes
  MaxHeld        \* bound: the most transfers hold of a row in AdjustmentSpec

AdjustOperations == {"addItem", "updateItem", "deleteItem", "deleteRequest",
                     "submit", "approve", "reject", "finalize", "cancel"}

ASSUME AdjustmentAssumption ==
  /\ MaxLines \in Nat
  /\ MaxHeld \in Nat
  /\ OtherRequests \cap Adjustments = {}
  /\ AdjustCalls \subseteq AdjustOperations

VARIABLES
  aStatus,   \* StockAdjustmentRequest.status; ABSENT: not yet created
  aLines,    \* its StockAdjustmentItem rows in order of creation
  caller     \* the calls in flight

adjustVars == <<aStatus, aLines, caller>>
avars == <<onHand, reservedQty, ledger, aStatus, aLines, caller>>

AOpen     == {"DRAFT", "SUBMITTED", "APPROVED"}
ATerminal == {"FINALIZED", "CANCELLED", "REJECTED"}
ALive     == AOpen \cup ATerminal
AStatuses == {"ABSENT", "DELETED"} \cup ALive
Changes   == (-MaxChange..MaxChange) \ {0}
Line      == [row : Rows, change : Changes]
AIdle     == [op |-> "idle"]

\* Mutant: cancel does not look at the status.
ARequiresCancelAny(op) ==
  CASE op \in {"addItem", "updateItem", "deleteItem", "deleteRequest", "submit"} -> {"DRAFT"}
    [] op \in {"approve", "reject"} -> {"SUBMITTED"}
    [] op = "finalize"              -> {"APPROVED"}
    [] op = "cancel"                -> ALive

\* The status an operation requires of the request it read.
ARequires(op) ==
  CASE op \in {"addItem", "updateItem", "deleteItem", "deleteRequest", "submit"} -> {"DRAFT"}
    [] op \in {"approve", "reject"} -> {"SUBMITTED"}
    [] op = "finalize"              -> {"APPROVED"}
    [] op = "cancel"                -> AOpen

AAt(c, op, pc) == caller[c] # AIdle /\ caller[c].op = op /\ caller[c].pc = pc
AReturn(c)     == caller' = [caller EXCEPT ![c] = AIdle]

\* reservationService.getAvailableStock, whose sum of ACTIVE reservations is the
\* cached reservedQty (TransferWorkflow!CacheMatchesReservations).
AAvailable(r) == IF onHand[r] >= reservedQty[r] THEN onHand[r] - reservedQty[r] ELSE 0

-----------------------------------------------------------------------------
AInit ==
  /\ aStatus = [a \in Adjustments |-> "ABSENT"]
  /\ aLines = [a \in Adjustments |-> <<>>]
  /\ caller = [c \in Callers |-> AIdle]

CreateAdjustment(a) ==
  /\ aStatus[a] = "ABSENT"
  /\ aStatus' = [aStatus EXCEPT ![a] = "DRAFT"]
  /\ UNCHANGED <<stockVars, aLines, caller>>

\* findById and the tests on what it read.  finalize on a request without lines
\* finds no eligible user and stops.
BeginAdjustment(c, op, a) ==
  /\ caller[c] = AIdle
  /\ aStatus[a] \in ARequires(op)
  /\ op \in {"submit", "approve", "finalize"} => aLines[a] # <<>>
  /\ caller' = [caller EXCEPT ![c] =
       [op    |-> op,
        pc    |-> "read",
        id    |-> a,
        seen  |-> aStatus[a],
        lines |-> IF op \in {"approve", "finalize"} THEN aLines[a] ELSE <<>>]]
  /\ UNCHANGED <<stockVars, aStatus, aLines>>

\* The call is refused by a test that is not modelled, or is cut short.
AbortAdjustment(c) ==
  /\ caller[c] # AIdle
  /\ AReturn(c)
  /\ UNCHANGED <<stockVars, aStatus, aLines>>

-----------------------------------------------------------------------------
\* The writes of addItem, updateItem and deleteItem, unconditional on the status.

AddLine(c, line) ==
  LET a == caller[c].id IN
  /\ AAt(c, "addItem", "read")
  /\ aStatus[a] \in ALive
  /\ Len(aLines[a]) < MaxLines
  /\ aLines' = [aLines EXCEPT ![a] = Append(@, line)]
  /\ AReturn(c)
  /\ UNCHANGED <<stockVars, aStatus>>

\* updateItem passes on whatever of product, location and quantity it is given.
UpdateLine(c, k, line) ==
  LET a == caller[c].id IN
  /\ AAt(c, "updateItem", "read")
  /\ k \in DOMAIN aLines[a]
  /\ aLines' = [aLines EXCEPT ![a][k] = line]
  /\ AReturn(c)
  /\ UNCHANGED <<stockVars, aStatus>>

DeleteLine(c, k) ==
  LET a == caller[c].id IN
  /\ AAt(c, "deleteItem", "read")
  /\ k \in DOMAIN aLines[a]
  /\ aLines' = [aLines EXCEPT ![a] = RemoveAt(@, k)]
  /\ AReturn(c)
  /\ UNCHANGED <<stockVars, aStatus>>

\* deleteById: the lines, then the request, each committed on its own.
DeleteAllLines(c) ==
  /\ AAt(c, "deleteRequest", "read")
  /\ aLines' = [aLines EXCEPT ![caller[c].id] = <<>>]
  /\ caller' = [caller EXCEPT ![c].pc = "emptied"]
  /\ UNCHANGED <<stockVars, aStatus>>

DeleteAdjustment(c) ==
  LET a == caller[c].id IN
  /\ AAt(c, "deleteRequest", "emptied")
  /\ aStatus[a] \in ALive
  /\ aLines[a] = <<>>
  /\ aStatus' = [aStatus EXCEPT ![a] = "DELETED"]
  /\ AReturn(c)
  /\ UNCHANGED <<stockVars, aLines>>

-----------------------------------------------------------------------------
\* updateStatus: no condition on the status that is replaced.
SetStatus(c, to) ==
  LET a == caller[c].id IN
  /\ aStatus[a] \in ALive
  /\ aStatus' = [aStatus EXCEPT ![a] = to]
  /\ AReturn(c)
  /\ UNCHANGED <<stockVars, aLines>>

\* Mutant: the update has no condition.
ClaimStatusBlind(c, from, to) == SetStatus(c, to)

\* claimRejection and claimCancellation: a conditional update.
ClaimStatus(c, from, to) ==
  /\ aStatus[caller[c].id] \in from
  /\ SetStatus(c, to)

SubmitAdjustment(c) == AAt(c, "submit", "read") /\ SetStatus(c, "SUBMITTED")

\* approve's preflight: every outbound line, alone, fits the available stock.
PassesPreflight(ls) ==
  \A k \in DOMAIN ls : ls[k].change < 0 => AAvailable(ls[k].row) + ls[k].change >= 0

Preflight(c) ==
  /\ AAt(c, "approve", "read")
  /\ PassesPreflight(caller[c].lines)
  /\ caller' = [caller EXCEPT ![c].pc = "checked"]
  /\ UNCHANGED <<stockVars, aStatus, aLines>>

ApproveAdjustment(c) == AAt(c, "approve", "checked") /\ SetStatus(c, "APPROVED")

RejectAdjustment(c) == AAt(c, "reject", "read") /\ ClaimStatus(c, {"SUBMITTED"}, "REJECTED")

CancelAdjustment(c) ==
  AAt(c, "cancel", "read") /\ ClaimStatus(c, {caller[c].seen}, "CANCELLED")

\* The balances after the first n of the lines ls, applied in order.
OnHandAfter(ls) ==
  LET after[n \in 0..Len(ls)] ==
        IF n = 0 THEN onHand ELSE [after[n-1] EXCEPT ![ls[n].row] = @ + ls[n].change]
  IN  after

\* Mutant: every line is tested against the balance before the first one.
CanApplyEachAlone(ls) ==
  \A k \in DOMAIN ls : ls[k].change < 0 =>
    onHand[ls[k].row] - reservedQty[ls[k].row] + ls[k].change >= 0

\* Mutant: stock that is reserved counts as available.
CanApplyReserved(ls) ==
  \A k \in DOMAIN ls : ls[k].change < 0 =>
    OnHandAfter(ls)[k-1][ls[k].row] + ls[k].change >= 0

\* The test applyAdjustmentTx makes for each line in turn.
CanApply(ls) ==
  \A k \in DOMAIN ls : ls[k].change < 0 =>
    OnHandAfter(ls)[k-1][ls[k].row] - reservedQty[ls[k].row] + ls[k].change >= 0

\* The ledger entry of the k-th of the lines ls of request a.
EntryOf(ls, k, a) ==
  [change |-> ls[k].change, after |-> OnHandAfter(ls)[k][ls[k].row],
   kind |-> "ADJUSTMENT", source |-> a]

\* Mutant: an entry carries the balance before its line.
LedgerAfterOnBefore(ls, a) ==
  LET after[n \in 0..Len(ls)] ==
        IF n = 0 THEN ledger
        ELSE [after[n-1] EXCEPT ![ls[n].row] =
                Append(@, [EntryOf(ls, n, a) EXCEPT !.after = @ - ls[n].change])]
  IN  after

\* Mutant: lines that name the same row leave one entry.
LedgerAfterOncePerRow(ls, a) ==
  LET after[n \in 0..Len(ls)] ==
        IF n = 0 THEN ledger
        ELSE IF \E k \in 1..(n-1) : ls[k].row = ls[n].row THEN after[n-1]
        ELSE [after[n-1] EXCEPT ![ls[n].row] = Append(@, EntryOf(ls, n, a))]
  IN  after

\* The ledgers after the first n of the lines ls of request a, applied in order.
LedgerAfter(ls, a) ==
  LET after[n \in 0..Len(ls)] ==
        IF n = 0 THEN ledger
        ELSE [after[n-1] EXCEPT ![ls[n].row] = Append(@, EntryOf(ls, n, a))]
  IN  after

\* The bound MaxLedger, for requests that are finalized again and again.
LedgerHasRoom(ls) == \A k \in DOMAIN ls : Len(ledger[ls[k].row]) < MaxLedger

\* finalize's transaction: the claim APPROVED -> FINALIZED, then
\* applyAdjustmentTx for each line that findById had read.
FinalizeAdjustment(c) ==
  LET a == caller[c].id
      ls == caller[c].lines
  IN
  /\ AAt(c, "finalize", "read")
  /\ aStatus[a] = "APPROVED"
  /\ CanApply(ls)
  /\ LedgerHasRoom(ls)
  /\ aStatus' = [aStatus EXCEPT ![a] = "FINALIZED"]
  /\ onHand' = OnHandAfter(ls)[Len(ls)]
  /\ ledger' = LedgerAfter(ls, a)[Len(ls)]
  /\ AReturn(c)
  /\ UNCHANGED <<reservedQty, aLines>>

\* The tests of the service itself that end a call; the transaction rolls back.
RefuseAdjustment(c) ==
  LET a == caller[c].id IN
  /\ caller[c] # AIdle
  /\ \/ AAt(c, "addItem", "read") \/ AAt(c, "updateItem", "read") \/ AAt(c, "deleteItem", "read")
     \/ AAt(c, "deleteRequest", "emptied") /\ (aStatus[a] \notin ALive \/ aLines[a] # <<>>)
     \/ AAt(c, "submit", "read") /\ aStatus[a] \notin ALive
     \/ AAt(c, "approve", "read") /\ ~PassesPreflight(caller[c].lines)
     \/ AAt(c, "approve", "checked") /\ aStatus[a] \notin ALive
     \/ AAt(c, "reject", "read") /\ aStatus[a] # "SUBMITTED"
     \/ AAt(c, "cancel", "read") /\ aStatus[a] # caller[c].seen
     \/ AAt(c, "finalize", "read") /\ (aStatus[a] # "APPROVED" \/ ~CanApply(caller[c].lines))
  /\ AReturn(c)
  /\ UNCHANGED <<stockVars, aStatus, aLines>>

AProgress(c) ==
  \/ \E line \in Line : AddLine(c, line)
  \/ \E k \in 1..MaxLines, line \in Line : UpdateLine(c, k, line)
  \/ \E k \in 1..MaxLines : DeleteLine(c, k)
  \/ DeleteAllLines(c)
  \/ DeleteAdjustment(c)
  \/ SubmitAdjustment(c)
  \/ Preflight(c)
  \/ ApproveAdjustment(c)
  \/ RejectAdjustment(c)
  \/ CancelAdjustment(c)
  \/ FinalizeAdjustment(c)
  \/ RefuseAdjustment(c)

ANext ==
  \/ \E a \in Adjustments : CreateAdjustment(a)
  \/ \E c \in Callers, op \in AdjustCalls, a \in Adjustments : BeginAdjustment(c, op, a)
  \/ \E c \in Callers : AProgress(c) \/ AbortAdjustment(c)

\* What the reservation service does to the balances meanwhile for the transfers,
\* whose requests and calls are TransferWorkflow.  It reserves q of a row when the
\* locked row has as much on hand beside the reservations of an older read view,
\* which may be none of those there are now; ...
OneRow(r, q) == [x \in Rows |-> IF x = r THEN q ELSE 0]

TransferHolds(r, q) ==
  /\ q <= onHand[r]
  /\ reservedQty[r] + q <= MaxHeld
  /\ Hold(OneRow(r, q))
  /\ UNCHANGED <<onHand, ledger, adjustVars>>

\* ... it releases a reservation, ...
TransferReleases(r, q) ==
  /\ q <= reservedQty[r]
  /\ Hold(OneRow(r, -q))
  /\ UNCHANGED <<onHand, ledger, adjustVars>>

\* ... or consumes it: the goods go to the row of the same product elsewhere.
TransferConsumes(r, to, q, s) ==
  /\ r[1] = to[1] /\ r # to
  /\ q <= reservedQty[r]
  /\ q <= onHand[r]
  /\ Len(ledger[r]) < MaxLedger /\ Len(ledger[to]) < MaxLedger
  /\ Hold(OneRow(r, -q))
  /\ Post([x \in Rows |-> IF x = r THEN -q ELSE IF x = to THEN q ELSE 0],
          [x \in Rows |-> IF x = r THEN "TRANSFER_OUT" ELSE "TRANSFER_IN"], s)
  /\ UNCHANGED adjustVars

TransferElsewhere ==
  \E r \in Rows, q \in 1..MaxHeld :
    \/ TransferHolds(r, q)
    \/ TransferReleases(r, q)
    \/ \E to \in Rows, s \in OtherRequests : TransferConsumes(r, to, q, s)

AdjustmentInit == StockInit /\ AInit

AdjustmentNext == ANext \/ TransferElsewhere

AdjustmentSpec == AdjustmentInit /\ [][AdjustmentNext]_avars

-----------------------------------------------------------------------------
ACall == [op : AdjustOperations, pc : {"read", "emptied", "checked"}, id : Adjustments,
          seen : AOpen, lines : Seq(Line)]

\* The shape of the tables and of the calls in flight.
ATypeOK ==
  /\ onHand \in [Rows -> Int]
  /\ reservedQty \in [Rows -> Int]
  /\ ledger \in [Rows -> Seq(Entry(Adjustments \cup OtherRequests))]
  /\ aStatus \in [Adjustments -> AStatuses]
  /\ aLines \in [Adjustments -> Seq(Line)]
  /\ caller \in [Callers -> {AIdle} \cup ACall]

\* A finalized adjustment never takes stock that is reserved: whatever its lines,
\* and although a row may already be short of what is reserved of it, a row it
\* lowers keeps at least what is reserved.
AdjustmentSparesReserved ==
  [][\A r \in Rows :
       (aStatus' # aStatus /\ onHand'[r] < onHand[r]) => reservedQty'[r] <= onHand'[r]]_avars

Posted(a, r) == {k \in DOMAIN ledger[r] : ledger[r][k].source = a}

\* Although submit and approve overwrite any status, the claims do not: no race
\* cancels, rejects or finalizes a request in a status that does not allow it,
\* so a finalized request, whose stock has moved, never reads CANCELLED.
ClaimsRespectStatus ==
  [][\A a \in Adjustments :
       /\ aStatus'[a] = "CANCELLED" /\ aStatus[a] # "CANCELLED" => aStatus[a] \in AOpen
       /\ aStatus'[a] = "REJECTED" /\ aStatus[a] # "REJECTED" => aStatus[a] = "SUBMITTED"
       /\ aStatus'[a] = "FINALIZED" /\ aStatus[a] # "FINALIZED" => aStatus[a] = "APPROVED"]_aStatus

\* One finalization posts every line of the request or none: entries of a request
\* appear only in the step that makes it FINALIZED, and then on every row as many
\* as the lines the finalizing call had read.
FinalizedAllAtOnce ==
  [][\A a \in Adjustments, r \in Rows :
       Posted(a, r)' # Posted(a, r) =>
         /\ aStatus[a] = "APPROVED" /\ aStatus'[a] = "FINALIZED"
         /\ \E c \in Callers :
              /\ AAt(c, "finalize", "read") /\ caller[c].id = a
              /\ \A x \in Rows : Cardinality(Posted(a, x)' \ Posted(a, x)) =
                   Cardinality({k \in DOMAIN caller[c].lines : caller[c].lines[k].row = x})]_avars

-----------------------------------------------------------------------------
\* What the repository's documents say and the code does not keep.

\* A request is applied to the stock at most once: its entries on a row are no
\* more than its lines.
AppliedAtMostOnce ==
  \A a \in Adjustments : aStatus[a] \in ALive => \A r \in Rows :
    Cardinality(Posted(a, r)) <= Len(aLines[a])
=============================================================================
