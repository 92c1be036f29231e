------------------------------- MODULE Reports --------------------------------
(***************************************************************************)
(* The ledger of one product and the two reports computed from it: the       *)
(* stock overview (stock.service.ts) and the stock opname report              *)
(* (report.service.ts).  A report reads in several queries, none of them in a  *)
(* transaction, while requests are finalized and the clock goes on.  A ledger    *)
(* row has its createdAt when a finalization writes it, under the lock on the   *)
(* balance row, and is seen by others when the transaction commits.            *)
(*                                                                           *)
(* Time is counted in half days of UTC; the server's clock is "zone" half      *)
(* days ahead of UTC.                                                         *)
(***************************************************************************)
EXTENDS Integers, Sequences, Functions

CONSTANTS
  Stores,      \* the locations
  Readers,     \* who asks for the overview: the locations assigned, and whether an administrator
  Asks,        \* the locations that may be asked for, {} for no filter
  Periods,     \* the periods that may be asked for: a first and a last day, or NoDay
  LastHalfDay, \* bound on the clock
  MaxEntries,  \* bound on the ledger
  Zones        \* the offsets the server may run in

NoDay == -9
Days  == 0..(LastHalfDay \div 2)

ASSUME ReportsAssumption ==
  /\ Readers \subseteq [assigned : SUBSET Stores, admin : BOOLEAN]
  /\ Asks \subseteq SUBSET Stores
  /\ Periods \subseteq (Days \cup {NoDay}) \X (Days \cup {NoDay})
  /\ LastHalfDay \in Nat /\ MaxEntries \in Nat /\ Zones \subseteq -1..1

VARIABLES
  clock,    \* the half day it is
  zone,     \* the server's offset
  entries,  \* StockLedger, in the order of the commits
  onHand,   \* StockBalance.onHandQty, as committed
  draft,    \* of each location, the ledger row written by a transaction under way
  report    \* the request for a report

bookVars   == <<entries, onHand, draft>>
reportVars == <<clock, zone, bookVars, report>>

NoReport  == [pc |-> "none"]
NoDraft   == [by |-> "nobody"]
Signed    == {"ADJUSTMENT", "TRANSFER_IN"}
Sources   == Signed \cup {"TRANSFER_OUT"}
Unread    == -99
UnreadRow == [opening |-> Unread, inbound |-> Unread, outbound |-> Unread]

Total(S)  == SumFunctionOnSet([i \in DOMAIN entries |-> entries[i].qty], S)
Entry(l, q, source) ==
  [loc |-> l, at |-> clock, qty |-> q, after |-> onHand[l] + q, source |-> source]

-----------------------------------------------------------------------------
(* The writers: an adjustment finalized, a transfer finalized.  A draft is by the
   location its transaction began at, and locks the balance row until the commit. *)

WriteRow(l, by, row) ==
  /\ draft[l] = NoDraft
  /\ draft' = [draft EXCEPT ![l] = [by |-> by, row |-> row]]
  /\ UNCHANGED <<clock, zone, entries, onHand, report>>

\* Mutant: the stock is not looked at.
WriteAdjustmentUnchecked(l, q) == WriteRow(l, l, Entry(l, q, "ADJUSTMENT"))

\* applyAdjustmentTx: refused when the stock does not reach.
WriteAdjustment(l, q) ==
  /\ onHand[l] + q >= 0
  /\ WriteRow(l, l, Entry(l, q, "ADJUSTMENT"))

\* The source's row first, tested under its lock.
WriteOut(src, q) ==
  /\ onHand[src] >= q
  /\ WriteRow(src, src, Entry(src, -q, "TRANSFER_OUT"))

Writing(l, by, source) ==
  draft[l] # NoDraft /\ draft[l].by = by /\ draft[l].row.source = source

\* Then the destination's, when its lock is free.
WriteIn(src, dst) ==
  /\ Writing(src, src, "TRANSFER_OUT")
  /\ \A l \in Stores : ~Writing(l, src, "TRANSFER_IN")
  /\ WriteRow(dst, src, Entry(dst, -draft[src].row.qty, "TRANSFER_IN"))

Commits(rows, places) ==
  /\ Len(entries) + Len(rows) <= MaxEntries
  /\ entries' = entries \o rows
  /\ onHand' = [l \in Stores |-> IF l \in places THEN draft[l].row.after ELSE onHand[l]]
  /\ draft' = [l \in Stores |-> IF l \in places THEN NoDraft ELSE draft[l]]
  /\ UNCHANGED <<clock, zone, report>>

CommitAdjustment(l) ==
  Writing(l, l, "ADJUSTMENT") /\ Commits(<<draft[l].row>>, {l})

CommitTransfer(src, dst) ==
  /\ Writing(src, src, "TRANSFER_OUT") /\ Writing(dst, src, "TRANSFER_IN")
  /\ Commits(<<draft[src].row, draft[dst].row>>, {src, dst})

\* Another line is refused, or two transfers wait for each other's rows.
Rollback(m) ==
  /\ draft[m] # NoDraft /\ draft[m].by = m
  /\ draft' = [l \in Stores |-> IF draft[l] # NoDraft /\ draft[l].by = m THEN NoDraft ELSE draft[l]]
  /\ UNCHANGED <<clock, zone, entries, onHand, report>>

Tick ==
  /\ clock < LastHalfDay
  /\ clock' = clock + 1
  /\ UNCHANGED <<zone, bookVars, report>>

-----------------------------------------------------------------------------
(* The range of a filter. *)

\* new Date("YYYY-MM-DD") is the day's midnight in UTC; setHours goes to the end of
\* the local day that instant lies in.
DateRange(first, last) ==
  [gte |-> IF first = NoDay THEN 0 ELSE 2 * first,
   lte |-> IF last = NoDay THEN LastHalfDay
           ELSE 2 * ((2 * last + zone) \div 2) + 1 - zone]

InRange(i, r) == r.gte <= entries[i].at /\ entries[i].at <= r.lte
At(l)         == {i \in DOMAIN entries : entries[i].loc = l}
InPeriod(l)   == {i \in At(l) : InRange(i, report.range)}

\* Mutant: entries of the first instant are counted as before it, and in the period.
UpTo(l, from) == {i \in At(l) : entries[i].at <= from}

Before(l, from) == {i \in At(l) : entries[i].at < from}

\* ORDER BY createdAt DESC, the first row: any of the entries of the last instant.
LastBalances(S) ==
  IF S = {} THEN {0}
  ELSE {entries[i].after : i \in {j \in S : \A k \in S : entries[k].at <= entries[j].at}}

-----------------------------------------------------------------------------
(* The overview. *)

\* getVisibleLocationIds: an administrator sees what is asked, or all; "refused" when
\* a user asks for a location without a role.
Visible(assigned, isAdmin, asked) ==
  IF asked = {} THEN (IF isAdmin THEN Stores ELSE assigned)
  ELSE IF isAdmin \/ asked \subseteq assigned THEN asked ELSE {}

BeginOverview(reader, asked, first, last) ==
  /\ report = NoReport
  /\ Visible(reader.assigned, reader.admin, asked) # {}
  /\ report' = [pc |-> "balances", kind |-> "overview", first |-> first, last |-> last,
                range |-> DateRange(first, last), seen |-> Len(entries),
                shown |-> Visible(reader.assigned, reader.admin, asked), rows |-> [l \in {} |-> UnreadRow]]
  /\ UNCHANGED <<clock, zone, bookVars>>

HasPeriod == report.first # NoDay \/ report.last # NoDay

\* The rows of StockBalance; without a period the row itself is the answer.
ReadBalances ==
  /\ report.pc = "balances"
  /\ LET found == {l \in report.shown : At(l) # {}} IN
     report' = [report EXCEPT
       !.pc = IF HasPeriod THEN "rows" ELSE "done",
       !.rows = [l \in found |-> IF HasPeriod THEN UnreadRow
                                 ELSE [opening |-> onHand[l], inbound |-> 0, outbound |-> 0]]]
  /\ UNCHANGED <<clock, zone, bookVars>>

BySource(l, s) == Total({i \in InPeriod(l) : entries[i].source = s})

\* sumBySourceType and the switch: the sum of a signed source goes to one side.
ReadSums(l) ==
  LET gains == {s \in Signed : BySource(l, s) > 0}
      drops == Sources \ gains
      sums  == [s \in Sources |-> BySource(l, s)]
  IN
  /\ report.pc = "rows" /\ report.kind = "overview"
  /\ l \in DOMAIN report.rows /\ report.rows[l].inbound = Unread
  /\ report' = [report EXCEPT !.rows[l] =
       [inbound  |-> SumFunctionOnSet(sums, gains),
        outbound |-> -SumFunctionOnSet(sums, drops),
        opening  |-> IF report.first = NoDay THEN 0 ELSE report.rows[l].opening]]
  /\ UNCHANGED <<clock, zone, bookVars>>

\* getBalanceBeforeDate, awaited after the sums.
ReadOpening(l) ==
  /\ report.pc = "rows" /\ report.kind = "overview"
  /\ l \in DOMAIN report.rows
  /\ report.rows[l].inbound # Unread /\ report.rows[l].opening = Unread
  /\ \E b \in LastBalances(Before(l, report.range.gte)) :
       report' = [report EXCEPT !.rows[l] = [@ EXCEPT !.opening = b]]
  /\ UNCHANGED <<clock, zone, bookVars>>

-----------------------------------------------------------------------------
(* The opname report. *)

\* Without a filter, all locations.
Chosen(asked) == IF asked = {} THEN Stores ELSE asked

\* The controller wants both dates, in order; the service reads the registered pairs
\* of the active locations.
BeginOpname(asked, first, last) ==
  /\ report = NoReport
  /\ first # NoDay /\ last # NoDay /\ first <= last
  /\ report' = [pc |-> "rows", kind |-> "opname", first |-> first, last |-> last,
                range |-> DateRange(first, last), seen |-> Len(entries),
                shown |-> Chosen(asked), rows |-> [l \in Chosen(asked) |-> UnreadRow]]
  /\ UNCHANGED <<clock, zone, bookVars>>

\* The first of the entries before the period, newest first, for every pair at once.
ReadBefore ==
  /\ report.pc = "rows" /\ report.kind = "opname"
  /\ \E l \in report.shown : report.rows[l].opening = Unread
  /\ \E b \in [report.shown -> UNION {LastBalances(Before(l, report.range.gte)) : l \in report.shown}] :
       /\ \A l \in report.shown : b[l] \in LastBalances(Before(l, report.range.gte))
       /\ report' = [report EXCEPT !.rows = [l \in report.shown |->
                                               [report.rows[l] EXCEPT !.opening = b[l]]]]
  /\ UNCHANGED <<clock, zone, bookVars>>

\* The entries of the period, each one to its side.
ReadPeriod ==
  /\ report.pc = "rows" /\ report.kind = "opname"
  /\ \E l \in report.shown : report.rows[l].inbound = Unread
  /\ report' = [report EXCEPT !.rows = [l \in report.shown |->
       [opening  |-> report.rows[l].opening,
        inbound  |-> Total({i \in InPeriod(l) : entries[i].qty > 0}),
        outbound |-> -Total({i \in InPeriod(l) : entries[i].qty < 0})]]]
  /\ UNCHANGED <<clock, zone, bookVars>>

\* The answer is sent when every row is complete.
Answer ==
  /\ report.pc = "rows"
  /\ \A l \in DOMAIN report.rows :
       report.rows[l].opening # Unread /\ report.rows[l].inbound # Unread
  /\ report' = [report EXCEPT !.pc = "done"]
  /\ UNCHANGED <<clock, zone, bookVars>>

-----------------------------------------------------------------------------
ReportsInit ==
  /\ clock = 0 /\ zone \in Zones
  /\ entries = <<>> /\ onHand = [l \in Stores |-> 0]
  /\ draft = [l \in Stores |-> NoDraft]
  /\ report = NoReport

ReportsNext ==
  \/ Tick
  \/ \E l \in Stores, q \in {-1, 2} : WriteAdjustment(l, q)
  \/ \E l \in Stores : WriteOut(l, 1) \/ CommitAdjustment(l) \/ Rollback(l)
  \/ \E src, dst \in Stores : WriteIn(src, dst) \/ CommitTransfer(src, dst)
  \/ \E asked \in Asks, period \in Periods :
       \/ \E reader \in Readers : BeginOverview(reader, asked, period[1], period[2])
       \/ BeginOpname(asked, period[1], period[2])
  \/ report # NoReport /\ (ReadBalances \/ ReadBefore \/ ReadPeriod \/ Answer)
  \/ report # NoReport /\ \E l \in Stores : ReadSums(l) \/ ReadOpening(l)

ReportsSpec == ReportsInit /\ [][ReportsNext]_reportVars

-----------------------------------------------------------------------------
\* The shape of the ledger and of a report; the balance is the ledger's sum, and a
\* location's entries are committed in the order of their createdAt, which is why
\* a later commit cannot come before an earlier one in a report.
ReportsTypeOK ==
  /\ clock \in 0..LastHalfDay /\ zone \in -1..1
  /\ \A i \in DOMAIN entries : entries[i].at <= clock /\ entries[i].source \in Sources
  /\ \A i, j \in DOMAIN entries :
       i <= j /\ entries[i].loc = entries[j].loc => entries[i].at <= entries[j].at
  /\ \A l \in Stores : onHand[l] = Total(At(l)) /\ onHand[l] >= 0
  /\ report # NoReport => report.pc \in {"balances", "rows", "done"}

Closing(r) == r.opening + r.inbound - r.outbound

\* The stock there was at the end of the period, as far as it is written by entry k.
StockAt(l, k) == Total({i \in At(l) : i <= k /\ entries[i].at <= report.range.lte})

\* The order of two entries of one instant is lost: createdAt is all that orders them.
Ordered(l) ==
  \A i, j \in Before(l, report.range.gte) : entries[i].at = entries[j].at => i = j

\* No entry of before the period was committed while the report was computed.
Settled(l) ==
  \A i \in At(l) : i > report.seen => report.range.gte <= entries[i].at

\* A report's closing stock is the stock there was at the end of its period, at some
\* moment while it was computed, although its parts are read at different moments.
\* The overview reads the movements first and the opening after them, so that this
\* holds whatever is committed in between; the opname report sends both queries at
\* once, and needs that no entry of before the period was still to be committed.
ClosingIsReal ==
  report # NoReport /\ report.pc = "done" /\ report.range.gte <= report.range.lte =>
    \A l \in DOMAIN report.rows :
      Ordered(l) /\ (report.kind = "opname" => Settled(l)) =>
        \E k \in report.seen..Len(entries) : Closing(report.rows[l]) = StockAt(l, k)
=============================================================================
