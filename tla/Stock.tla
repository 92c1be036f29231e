-------------------------------- MODULE Stock --------------------------------
(***************************************************************************)
(* The stock tables every workflow writes: StockBalance (one row for each   *)
(* product and location, with the quantity on hand and a cached reserved    *)
(* quantity) and StockLedger (an append-only list of movements of a row,    *)
(* each with the balance after it).                                         *)
(*                                                                          *)
(* The row locks the services take (SELECT ... FOR UPDATE, held until the   *)
(* transaction commits) make what a transaction does to a balance row and   *)
(* to the ledger of that row one step, so the operators below are action    *)
(* fragments over whole transactions.  A missing balance row is a row at    *)
(* zero: every writer starts with upsertZero.                               *)
(***************************************************************************)
EXTENDS Integers, Sequences

CONSTANTS
  Products,
  Locations,
  Opening,     \* the quantity on hand of each row when observation starts
  MaxChange,   \* bound: the largest change one adjustment line makes
  MaxLedger    \* bound: an adjustment line is applied only to a row with fewer entries

Rows == Products \X Locations

ASSUME StockAssumption ==
  /\ Opening \in [Rows -> Nat]
  /\ MaxChange \in Nat
  /\ MaxLedger \in Nat

VARIABLES
  onHand,       \* StockBalance.onHandQty
  reservedQty,  \* StockBalance.reservedQty, a cache of the ACTIVE reservations
  ledger        \* StockLedger, per row, in commit order

stockVars == <<onHand, reservedQty, ledger>>

EntryKinds == {"ADJUSTMENT", "TRANSFER_OUT", "TRANSFER_IN"}

StockInit ==
  /\ onHand = Opening
  /\ reservedQty = [r \in Rows |-> 0]
  /\ ledger = [r \in Rows |-> <<>>]

Entry(Sources) ==
  [change : Int, after : Int, kind : EntryKinds, source : Sources]

\* Mutant: the entries carry the balance before the change.
PostBalanceBefore(delta, kind, source) ==
  /\ onHand' = [r \in Rows |-> onHand[r] + delta[r]]
  /\ ledger' = [r \in Rows |->
       IF delta[r] = 0
       THEN ledger[r]
       ELSE Append(ledger[r], [change |-> delta[r], after |-> onHand[r],
                               kind |-> kind[r], source |-> source])]

\* Mutant: only what leaves a row is entered in the ledger.
PostOutOnly(delta, kind, source) ==
  /\ onHand' = [r \in Rows |-> onHand[r] + delta[r]]
  /\ ledger' = [r \in Rows |->
       IF delta[r] >= 0
       THEN ledger[r]
       ELSE Append(ledger[r], [change |-> delta[r], after |-> onHand[r] + delta[r],
                               kind |-> kind[r], source |-> source])]

\* stockBalanceRepository.increment / decrement on every row whose delta is not
\* zero, each followed by stockLedgerRepository.create with the new balance.
Post(delta, kind, source) ==
  /\ onHand' = [r \in Rows |-> onHand[r] + delta[r]]
  /\ ledger' = [r \in Rows |->
       IF delta[r] = 0
       THEN ledger[r]
       ELSE Append(ledger[r], [change |-> delta[r],
                               after  |-> onHand[r] + delta[r],
                               kind   |-> kind[r],
                               source |-> source])]

\* stockBalanceRepository.reserve (hold positive) and release (negative).
Hold(hold) == reservedQty' = [r \in Rows |-> reservedQty[r] + hold[r]]

\* The test applyAdjustmentTx makes on the locked row: a negative change must
\* leave the available quantity, computed from the cache, at zero or above.
CanAdjust(r, change) ==
  change < 0 => onHand[r] - reservedQty[r] + change >= 0

\* stockService.applyAdjustmentTx for one line of a finalized adjustment.
ApplyAdjustment(r, change, source) ==
  /\ CanAdjust(r, change)
  /\ Post([x \in Rows |-> IF x = r THEN change ELSE 0],
          [x \in Rows |-> "ADJUSTMENT"], source)
  /\ UNCHANGED reservedQty

Entries(r, source, kind) ==
  {k \in DOMAIN ledger[r] : ledger[r][k].source = source /\ ledger[r][k].kind = kind}

\* The balance row r had before the k-th of its ledger entries.
BalanceBefore(r, entries, k) == IF k = 1 THEN Opening[r] ELSE entries[k - 1].after

\* The entries of row r start at its opening balance, each at the balance the
\* one before it left, and the last one ends at balance.
Chained(r, entries, balance) ==
  /\ \A k \in DOMAIN entries :
       entries[k].after = BalanceBefore(r, entries, k) + entries[k].change
  /\ balance = BalanceBefore(r, entries, Len(entries) + 1)

-----------------------------------------------------------------------------
\* No sequence of reservations, finalizations and adjustments drives the
\* quantity on hand of a row below zero: no balance column has a CHECK, only
\* the tests the services make on locked rows prevent it.
OnHandNonNegative == \A r \in Rows : onHand[r] >= 0

\* The ledger of a row explains its balance: every entry starts where the
\* entry before it ended, and the last one ends at the balance of the row, so
\* no writer may compute balanceAfter from a value another one has replaced.
LedgerExplainsBalance == \A r \in Rows : Chained(r, ledger[r], onHand[r])
=============================================================================
