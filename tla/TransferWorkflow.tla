--------------------------- MODULE TransferWorkflow ---------------------------
(***************************************************************************)
(* Stock transfer requests: transfer.service.ts, transfer.repository.ts and *)
(* the reservation service they call.  Handlers are concurrent HTTP calls;  *)
(* a call reads the request outside any transaction, tests what it read,    *)
(* and writes later, so that other calls commit between its steps.          *)
(*                                                                          *)
(* Reservations, quantities and statuses are the committed rows.  A call in *)
(* the middle of approveOrigin's transaction ("claimed") has an uncommitted *)
(* status update: it holds the lock of the request row, readers still see   *)
(* the old status.  All other transactions are one step (see Stock).        *)
(*                                                                          *)
(* Roles, active flags and registrations only ever refuse a call: here they *)
(* may refuse any call (Abort) and never have to.  Lines of one request     *)
(* that name the same product are added up.                                 *)
(***************************************************************************)
EXTENDS Stock, FiniteSets, Functions

CONSTANTS
  Transfers,   \* the ids (UUIDs) of the requests ever created
  Handlers,    \* the calls in flight at one time
  MaxQty,      \* bound: the largest quantity of a line
  OtherSources, \* the sources of the ledger entries that no transfer makes
  Calls        \* the operations clients call

Operations == {"editItems", "deleteRequest", "submit", "approveOrigin",
               "approveDestination", "reject", "finalize", "cancel"}

ASSUME TransferAssumption ==
  /\ IsFiniteSet(Transfers)
  /\ OtherSources \cap Transfers = {}
  /\ MaxQty \in Nat
  /\ Calls \subseteq Operations

VARIABLES
  status,       \* StockTransferRequest.status; ABSENT: not yet created
  route,        \* [src, dst] of the request
  lines,        \* quantity of each product on the request, 0: no line
  reservation,  \* StockReservation rows of the request, per product
  stamp,        \* beforeQtyOrigin / beforeQtyDestination of each line
  handler       \* the calls in flight

requestVars == <<status, route, lines, reservation, stamp>>
vars == <<onHand, reservedQty, ledger, status, route, lines, reservation, stamp, handler>>

Cancellable == {"SUBMITTED", "ORIGIN_MANAGER_APPROVED", "READY_TO_FINALIZE"}
\* Mutant: rejection is possible until the request is finalized.
RejectableUntilFinalized == Cancellable

Rejectable  == {"SUBMITTED", "ORIGIN_MANAGER_APPROVED"}
Reserved    == {"ORIGIN_MANAGER_APPROVED", "READY_TO_FINALIZE"}
Terminal    == {"FINALIZED", "CANCELLED", "REJECTED"}
Live        == {"DRAFT"} \cup Cancellable \cup Terminal
Statuses    == {"ABSENT", "DELETED"} \cup Live

\* Mutant: source and destination are not compared.
RoutesAnywhere == [src : Locations, dst : Locations]

Routes  == {r \in [src : Locations, dst : Locations] : r.src # r.dst}
NoRoute == [src |-> "none", dst |-> "none"]
Lines   == [Products -> 0..MaxQty]
NoLines == [p \in Products |-> 0]
Unread  == -1
NoRead  == [r \in Rows |-> Unread]
NoStamp == [origin |-> -1, dest |-> -1]
NoReservation == [qty |-> 0, st |-> "NONE"]
Idle    == [op |-> "idle"]

\* The status an operation requires of the request it read.
Requires(op) ==
  CASE op \in {"editItems", "deleteRequest", "submit"} -> {"DRAFT"}
    [] op = "approveOrigin"      -> {"SUBMITTED"}
    [] op = "approveDestination" -> {"ORIGIN_MANAGER_APPROVED"}
    [] op = "reject"             -> Rejectable
    [] op = "finalize"           -> {"READY_TO_FINALIZE"}
    [] op = "cancel"             -> Cancellable

SrcRow(t, p) == <<p, route[t].src>>
DstRow(t, p) == <<p, route[t].dst>>

Active(t, p) == reservation[t][p].st = "ACTIVE"

\* Mutant: the reservation is looked up by product alone.
HeldQtyAnywhere(t, r) ==
  IF Active(t, r[1]) THEN reservation[t][r[1]].qty ELSE 0

\* What a request still holds of a row.
HeldQty(t, r) ==
  IF Active(t, r[1]) /\ r[2] = route[t].src THEN reservation[t][r[1]].qty ELSE 0

\* The sum of the ACTIVE reservations of a row over the whole table.
ActiveQty(r) == SumFunctionOnSet([t \in Transfers |-> HeldQty(t, r)], Transfers)

\* reservationService.getAvailableStock
AvailableQty(r) ==
  IF onHand[r] >= ActiveQty(r) THEN onHand[r] - ActiveQty(r) ELSE 0

\* The row lock approveOrigin's transaction holds on its request.
Locked(t) == \E h \in Handlers :
  handler[h] # Idle /\ handler[h].pc = "claimed" /\ handler[h].id = t

At(h, op, pc) == handler[h] # Idle /\ handler[h].op = op /\ handler[h].pc = pc
Goto(h, pc) == handler' = [handler EXCEPT ![h].pc = pc]
Return(h)   == handler' = [handler EXCEPT ![h] = Idle]

-----------------------------------------------------------------------------
Init ==
  /\ StockInit
  /\ status = [t \in Transfers |-> "ABSENT"]
  /\ route = [t \in Transfers |-> NoRoute]
  /\ lines = [t \in Transfers |-> NoLines]
  /\ reservation = [t \in Transfers |-> [p \in Products |-> NoReservation]]
  /\ stamp = [t \in Transfers |-> [p \in Products |-> NoStamp]]
  /\ handler = [h \in Handlers |-> Idle]

\* transferService.create: a DRAFT without lines between two different locations.
Create(t) ==
  /\ status[t] = "ABSENT"
  /\ \E r \in Routes : route' = [route EXCEPT ![t] = r]
  /\ status' = [status EXCEPT ![t] = "DRAFT"]
  /\ UNCHANGED <<stockVars, lines, reservation, stamp, handler>>

\* The start of every other operation: findById, the test of the status that was
\* read and, where the operation has one, of the lines that were read.
Begin(h, op, t) ==
  /\ handler[h] = Idle
  /\ status[t] \in Requires(op)
  /\ op \in {"submit", "approveOrigin", "finalize"} => lines[t] # NoLines
  /\ handler' = [handler EXCEPT ![h] =
       [op    |-> op,
        pc    |-> "read",
        id    |-> t,
        had   |-> op \in {"reject", "cancel"} /\ status[t] \in Reserved,
        lines |-> IF op \in {"submit", "approveOrigin", "finalize"} THEN lines[t] ELSE NoLines,
        read  |-> NoRead]]
  /\ UNCHANGED <<stockVars, requestVars>>

\* The call ends without a further effect, at any point: a test of a role, an
\* active flag or a registration fails, its transaction is a deadlock victim or
\* times out, or the server dies.
Abort(h) ==
  /\ handler[h] # Idle
  /\ Return(h)
  /\ UNCHANGED <<stockVars, requestVars>>

-----------------------------------------------------------------------------
\* addItem, updateItem and deleteItem after their tests: the writes are not
\* conditional on the status.  Inserting a line needs a lock on its parent row.

AddItem(h, p, q) ==
  LET t == handler[h].id IN
  /\ At(h, "editItems", "read")
  /\ status[t] \in Live
  /\ ~Locked(t)
  /\ lines[t][p] + q <= MaxQty
  /\ lines' = [lines EXCEPT ![t][p] = @ + q]
  /\ Return(h)
  /\ UNCHANGED <<stockVars, status, route, reservation, stamp>>

UpdateItem(h, p, q) ==
  LET t == handler[h].id IN
  /\ At(h, "editItems", "read")
  /\ lines[t][p] > 0
  /\ lines' = [lines EXCEPT ![t][p] = q]
  /\ Return(h)
  /\ UNCHANGED <<stockVars, status, route, reservation, stamp>>

DeleteItem(h, p) ==
  LET t == handler[h].id IN
  /\ At(h, "editItems", "read")
  /\ lines[t][p] > 0
  /\ lines' = [lines EXCEPT ![t][p] = 0]
  /\ stamp' = [stamp EXCEPT ![t][p] = NoStamp]
  /\ Return(h)
  /\ UNCHANGED <<stockVars, status, route, reservation>>

\* deleteById is two statements that commit on their own: the lines, then the
\* request, whose deletion the foreign key refuses while it has lines.

DeleteLines(h) ==
  LET t == handler[h].id IN
  /\ At(h, "deleteRequest", "read")
  /\ lines' = [lines EXCEPT ![t] = NoLines]
  /\ stamp' = [stamp EXCEPT ![t] = [p \in Products |-> NoStamp]]
  /\ Goto(h, "emptied")
  /\ UNCHANGED <<stockVars, status, route, reservation>>

DeleteRequest(h) ==
  LET t == handler[h].id IN
  /\ At(h, "deleteRequest", "emptied")
  /\ status[t] \in Live
  /\ ~Locked(t)
  /\ lines[t] = NoLines
  /\ status' = [status EXCEPT ![t] = "DELETED"]
  /\ Return(h)
  /\ UNCHANGED <<stockVars, route, lines, reservation, stamp>>

-----------------------------------------------------------------------------
\* A loop of a call over the lines it read is done with the line of p; after its
\* last line the call is at pc.  handler.lines holds the lines still to come.
LineDone(h, p, pc) ==
  LET left == [handler[h].lines EXCEPT ![p] = 0] IN
  handler' = [handler EXCEPT
    ![h].lines = left,
    ![h].pc    = IF left = NoLines THEN pc ELSE @,
    ![h].read  = [r \in Rows |-> IF r[1] = p THEN Unread ELSE @[r]]]

\* submit: the availability of each line in turn, read outside a transaction, ...
EnoughAvailable(h, p) == handler[h].lines[p] <= AvailableQty(SrcRow(handler[h].id, p))

CheckAvailable(h, p) ==
  /\ At(h, "submit", "read")
  /\ handler[h].lines[p] > 0
  /\ EnoughAvailable(h, p)
  /\ LineDone(h, p, "checked")
  /\ UNCHANGED <<stockVars, requestVars>>

\* ... then the conditional update DRAFT -> SUBMITTED.
ClaimSubmit(h) ==
  LET t == handler[h].id IN
  /\ At(h, "submit", "checked")
  /\ status[t] = "DRAFT"
  /\ ~Locked(t)
  /\ status' = [status EXCEPT ![t] = "SUBMITTED"]
  /\ Return(h)
  /\ UNCHANGED <<stockVars, route, lines, reservation, stamp>>

\* approveOrigin's transaction opens: the conditional update takes the row lock
\* and the first plain SELECT (in upsertZero) fixes the read view of the
\* transaction, before the balance rows are locked.
ClaimOrigin(h) ==
  LET t == handler[h].id IN
  /\ At(h, "approveOrigin", "read")
  /\ status[t] = "SUBMITTED"
  /\ ~Locked(t)
  /\ handler' = [handler EXCEPT ![h].pc = "claimed",
                                ![h].read = [r \in Rows |-> ActiveQty(r)]]
  /\ UNCHANGED <<stockVars, requestVars>>

\* The sum of ACTIVE reservations the aggregate in reserveStockWithinTx returns:
\* a plain read, so at REPEATABLE READ, MySQL's default which nothing here
\* changes, the one of the transaction's view.
AggregateSeen(h, r) == handler[h].read[r]

\* Mutant: the reservations of other requests are not subtracted.
CanReserveOnHand(h) ==
  \A r \in Rows : (r[2] = route[handler[h].id].src /\ handler[h].lines[r[1]] > 0) =>
    handler[h].lines[r[1]] <= onHand[r]

\* The test of every line in reserveStockWithinTx.  The quantity on hand comes
\* from the locked row and is current.
CanReserve(h) ==
  LET t == handler[h].id IN
  \A r \in Rows : (r[2] = route[t].src /\ handler[h].lines[r[1]] > 0) =>
    handler[h].lines[r[1]] <= onHand[r] - AggregateSeen(h, r)

\* reserveStockWithinTx over the lines read by findById, then the commit.
ApproveOrigin(h) ==
  LET t == handler[h].id
      wanted == handler[h].lines
  IN
  /\ At(h, "approveOrigin", "claimed")
  /\ CanReserve(h)
  /\ status' = [status EXCEPT ![t] = "ORIGIN_MANAGER_APPROVED"]
  /\ reservation' = [reservation EXCEPT ![t] = [p \in Products |->
       IF wanted[p] > 0 THEN [qty |-> wanted[p], st |-> "ACTIVE"]
       ELSE NoReservation]]
  /\ Hold([r \in Rows |-> IF r[2] = route[t].src THEN wanted[r[1]] ELSE 0])
  /\ Return(h)
  /\ UNCHANGED <<onHand, ledger, route, lines, stamp>>

ApproveDestination(h) ==
  LET t == handler[h].id IN
  /\ At(h, "approveDestination", "read")
  /\ status[t] = "ORIGIN_MANAGER_APPROVED"
  /\ ~Locked(t)
  /\ status' = [status EXCEPT ![t] = "READY_TO_FINALIZE"]
  /\ Return(h)
  /\ UNCHANGED <<stockVars, route, lines, reservation, stamp>>

-----------------------------------------------------------------------------
\* Mutant: consuming marks the reservations as releasing does.
SettledReleased(t, st) ==
  [reservation EXCEPT ![t] = [p \in Products |->
     IF Active(t, p) THEN [reservation[t][p] EXCEPT !.st = "RELEASED"]
     ELSE reservation[t][p]]]

\* Mutant: the loop over the reservations stops after the first one.
SettledOne(t, st) ==
  LET held == {p \in Products : Active(t, p)}
      one  == CHOOSE p \in Products : p \in held
  IN  IF held = {} THEN reservation ELSE [reservation EXCEPT ![t][one].st = st]

\* Every ACTIVE reservation of the request gets the status st.
Settled(t, st) ==
  [reservation EXCEPT ![t] = [p \in Products |->
     IF Active(t, p) THEN [reservation[t][p] EXCEPT !.st = st] ELSE reservation[t][p]]]

\* Mutant: the cached reserved quantity is not decremented.
ReleaseForgetsCache(t) ==
  /\ reservation' = Settled(t, "RELEASED")
  /\ UNCHANGED reservedQty

\* releaseReservationWithinTx
Release(t) ==
  /\ reservation' = Settled(t, "RELEASED")
  /\ Hold([r \in Rows |-> -HeldQty(t, r)])

\* The transaction of reject and cancel: the claim, then the release when the
\* status that was READ (not the one claimed from) is a reserved one.
EndRequest(h, from, to) ==
  LET t == handler[h].id IN
  /\ status[t] \in from
  /\ ~Locked(t)
  /\ status' = [status EXCEPT ![t] = to]
  /\ IF handler[h].had THEN Release(t) ELSE UNCHANGED <<reservation, reservedQty>>
  /\ Return(h)
  /\ UNCHANGED <<onHand, ledger, route, lines, stamp>>

Reject(h) == At(h, "reject", "read") /\ EndRequest(h, Rejectable, "REJECTED")

Cancel(h) == At(h, "cancel", "read") /\ EndRequest(h, Cancellable, "CANCELLED")

-----------------------------------------------------------------------------
\* finalize reads the balances of each line and writes them on the line, outside
\* the transaction that follows.  The lines are handled at the same time, so one
\* may be written before another is read.
ReadBalances(h, p) ==
  /\ At(h, "finalize", "read")
  /\ handler[h].lines[p] > 0
  /\ handler[h].read[SrcRow(handler[h].id, p)] = Unread
  /\ handler' = [handler EXCEPT ![h].read =
                   [r \in Rows |-> IF r[1] = p THEN onHand[r] ELSE @[r]]]
  /\ UNCHANGED <<stockVars, requestVars>>

\* A line the call read and somebody has deleted.
LineGone(h, p) == handler[h].lines[p] > 0 /\ lines[handler[h].id][p] = 0

StampLine(h, p) ==
  LET t == handler[h].id IN
  /\ At(h, "finalize", "read")
  /\ handler[h].lines[p] > 0
  /\ handler[h].read[SrcRow(t, p)] # Unread
  /\ ~LineGone(h, p)
  /\ stamp' = [stamp EXCEPT ![t][p] =
       [origin |-> handler[h].read[SrcRow(t, p)], dest |-> handler[h].read[DstRow(t, p)]]]
  /\ LineDone(h, p, "stamped")
  /\ UNCHANGED <<stockVars, status, route, lines, reservation>>

\* Mutant: the quantity on hand is not tested again on the locked rows.
CanConsumeUnchecked(t) == \E p \in Products : Active(t, p)

\* What consumeTransferReservationWithinTx requires: something to consume, and
\* on every locked source row no less than the reservation takes.
CanConsume(t) ==
  /\ \E p \in Products : Active(t, p)
  /\ \A r \in Rows : HeldQty(t, r) <= onHand[r]

\* finalize's transaction: the claim READY_TO_FINALIZE -> FINALIZED, then
\* consumeTransferReservationWithinTx.
Finalize(h) ==
  LET t == handler[h].id
      out(r) == HeldQty(t, r)
      in(r)  == IF Active(t, r[1]) /\ r[2] = route[t].dst THEN reservation[t][r[1]].qty ELSE 0
  IN
  /\ At(h, "finalize", "stamped")
  /\ status[t] = "READY_TO_FINALIZE"
  /\ ~Locked(t)
  /\ CanConsume(t)
  /\ status' = [status EXCEPT ![t] = "FINALIZED"]
  /\ reservation' = Settled(t, "CONSUMED")
  /\ Hold([r \in Rows |-> -out(r)])
  /\ Post([r \in Rows |-> in(r) - out(r)],
          [r \in Rows |-> IF r[2] = route[t].src THEN "TRANSFER_OUT" ELSE "TRANSFER_IN"], t)
  /\ Return(h)
  /\ UNCHANGED <<route, lines, stamp>>

\* The adjustment workflow, applying the only line of the adjustment source.
Adjust(r, change, source) ==
  /\ \A x \in Rows : Entries(x, source, "ADJUSTMENT") = {}
  /\ ApplyAdjustment(r, change, source)
  /\ UNCHANGED <<requestVars, handler>>

-----------------------------------------------------------------------------
\* The statuses an operation's conditional update matches, at the step that
\* makes it; the lock of the row is waited for.
ClaimLost(h) ==
  LET t == handler[h].id IN
  /\ handler[h] # Idle
  /\ ~Locked(t)
  /\ \/ At(h, "deleteRequest", "emptied") /\ (status[t] \notin Live \/ lines[t] # NoLines)
     \/ At(h, "submit", "checked") /\ status[t] # "DRAFT"
     \/ At(h, "approveOrigin", "read") /\ status[t] # "SUBMITTED"
     \/ At(h, "approveDestination", "read") /\ status[t] # "ORIGIN_MANAGER_APPROVED"
     \/ At(h, "reject", "read") /\ status[t] \notin Rejectable
     \/ At(h, "cancel", "read") /\ status[t] \notin Cancellable
     \/ At(h, "finalize", "stamped") /\ (status[t] # "READY_TO_FINALIZE" \/ ~CanConsume(t))

\* Mutant: a reservation that fails leaves the transaction open.
RefuseKeepsTransaction(h) ==
  /\ \/ ClaimLost(h)
     \/ At(h, "editItems", "read")
     \/ At(h, "submit", "read") /\ \E p \in Products : ~EnoughAvailable(h, p)
     \/ At(h, "finalize", "read") /\ \E p \in Products : LineGone(h, p)
  /\ Return(h)
  /\ UNCHANGED <<stockVars, requestVars>>

\* The call ends because a test of its own fails; what its transaction has done
\* is rolled back.  An edit may name a line that is not there.
Refuse(h) ==
  /\ \/ ClaimLost(h)
     \/ At(h, "editItems", "read")
     \/ At(h, "submit", "read") /\ \E p \in Products : ~EnoughAvailable(h, p)
     \/ At(h, "approveOrigin", "claimed") /\ ~CanReserve(h)
     \/ At(h, "finalize", "read") /\ \E p \in Products : LineGone(h, p)
  /\ Return(h)
  /\ UNCHANGED <<stockVars, requestVars>>

\* What a call that is not cut short does next.
Progress(h) ==
  \/ \E p \in Products, q \in 1..MaxQty : AddItem(h, p, q)
  \/ \E p \in Products, q \in 1..MaxQty : UpdateItem(h, p, q)
  \/ \E p \in Products : DeleteItem(h, p)
  \/ DeleteLines(h)
  \/ DeleteRequest(h)
  \/ \E p \in Products : CheckAvailable(h, p)
  \/ ClaimSubmit(h)
  \/ ClaimOrigin(h)
  \/ ApproveOrigin(h)
  \/ ApproveDestination(h)
  \/ Reject(h)
  \/ Cancel(h)
  \/ \E p \in Products : ReadBalances(h, p) \/ StampLine(h, p)
  \/ Finalize(h)
  \/ Refuse(h)

\* The steps of the transfer workflow itself.
TransferNext ==
  \/ \E t \in Transfers : Create(t)
  \/ \E h \in Handlers, op \in Calls, t \in Transfers : Begin(h, op, t)
  \/ \E h \in Handlers : Progress(h) \/ Abort(h)

Next ==
  \/ TransferNext
  \/ \E r \in Rows, change \in (-MaxChange..MaxChange) \ {0}, source \in OtherSources :
       Adjust(r, change, source)

Spec == Init /\ [][Next]_vars

\* The event loop resumes every call whose query has returned; the lock of a row
\* is granted in the order of arrival, so a waiting call that finds the row free
\* again and again is served (strong fairness).
FairSpec == Spec /\ \A h \in Handlers : SF_vars(Progress(h))

-----------------------------------------------------------------------------
Call == [op : Operations,
         pc : {"read", "emptied", "checked", "claimed", "stamped"},
         id : Transfers, had : BOOLEAN, lines : Lines, read : [Rows -> Int]]

\* The shape of the tables and of the calls in flight; a request that exists
\* has a route between two different locations.
TypeOK ==
  /\ onHand \in [Rows -> Int]
  /\ reservedQty \in [Rows -> Int]
  /\ ledger \in [Rows -> Seq(Entry(Transfers \cup OtherSources))]
  /\ status \in [Transfers -> Statuses]
  /\ route \in [Transfers -> [src : Locations, dst : Locations] \cup {NoRoute}]
  /\ \A t \in Transfers : status[t] # "ABSENT" =>
       /\ route[t] \in [src : Locations, dst : Locations]
       /\ route[t].src # route[t].dst
  /\ lines \in [Transfers -> Lines]
  /\ reservation \in [Transfers -> [Products ->
       [qty : 0..MaxQty, st : {"NONE", "ACTIVE", "RELEASED", "CONSUMED"}]]]
  /\ stamp \in [Transfers -> [Products -> [origin : Int, dest : Int]]]
  /\ handler \in [Handlers -> {Idle} \cup Call]

\* What the reservations res of a request in status s are.
Agree(s, res) ==
  LET has(st) == \E p \in Products : res[p].st = st IN
  /\ s \in {"ABSENT", "DRAFT", "SUBMITTED"} =>
       ~has("ACTIVE") /\ ~has("RELEASED") /\ ~has("CONSUMED")
  /\ s \in Reserved => has("ACTIVE") /\ ~has("RELEASED") /\ ~has("CONSUMED")
  /\ s = "FINALIZED" => has("CONSUMED") /\ ~has("RELEASED") /\ ~has("ACTIVE")
  /\ s \in {"CANCELLED", "REJECTED"} => ~has("CONSUMED")

\* The reservations of a request agree with its status whatever calls race on
\* it: none before the origin approval, at least one and only ACTIVE ones while
\* it waits to be finalized, none ACTIVE and at least one CONSUMED once it is
\* FINALIZED, and none ever CONSUMED for a request that was cancelled or
\* rejected.
ReservationsMatchStatus == \A t \in Transfers : Agree(status[t], reservation[t])

\* A transfer moves each product it reserved exactly once, out of the source
\* and into the destination by the reserved quantity, exactly when its
\* reservation is CONSUMED: two finalizations of one request, or one racing a
\* cancellation, never post half of a movement or post it twice.
MovedExactlyOnce ==
  \A t \in Transfers : status[t] # "ABSENT" => \A p \in Products :
    LET res == reservation[t][p]
        out == Entries(SrcRow(t, p), t, "TRANSFER_OUT")
        in  == Entries(DstRow(t, p), t, "TRANSFER_IN")
    IN  IF res.st = "CONSUMED"
        THEN /\ \E k \in out : out = {k} /\ ledger[SrcRow(t, p)][k].change = -res.qty
             /\ \E k \in in  : in = {k} /\ ledger[DstRow(t, p)][k].change = res.qty
        ELSE out = {} /\ in = {}

\* The cached StockBalance.reservedQty, which adjustments trust, is the sum of
\* the ACTIVE reservations of the row after every transaction.
CacheMatchesReservations == \A r \in Rows : reservedQty[r] = ActiveQty(r)

\* What is reserved of a row and not on hand.
Shortfall(r) == ActiveQty(r) - onHand[r]

\* More gets reserved of a row than is on hand in one way only: an approval holds
\* a read view older than the row it locked, and then by no more than what
\* others reserved of that row in between.  No finalization, release or
\* adjustment, and no approval whose view is current, starts or widens a
\* shortfall.
NoNewShortfall ==
  \A r \in Rows :
    (Shortfall(r)' > 0 /\ Shortfall(r)' > Shortfall(r)) =>
      \E h \in Handlers :
        /\ At(h, "approveOrigin", "claimed")
        /\ Shortfall(r)' <= ActiveQty(r) - AggregateSeen(h, r)

ShortfallOnlyByOverlap == [][NoNewShortfall]_<<onHand, reservation>>

\* The status changes the documents describe; the deletion of a row counts as one.
Allowed(from, to) ==
  \/ to = "DELETED" /\ from \in {"DRAFT", "SUBMITTED", "ORIGIN_MANAGER_APPROVED",
       "READY_TO_FINALIZE", "FINALIZED", "CANCELLED", "REJECTED"}
  \/ <<from, to>> \in
       {<<"ABSENT", "DRAFT">>, <<"DRAFT", "SUBMITTED">>,
        <<"SUBMITTED", "ORIGIN_MANAGER_APPROVED">>,
        <<"ORIGIN_MANAGER_APPROVED", "READY_TO_FINALIZE">>,
        <<"READY_TO_FINALIZE", "FINALIZED">>}
  \/ from \in {"SUBMITTED", "ORIGIN_MANAGER_APPROVED", "READY_TO_FINALIZE"} /\ to = "CANCELLED"
  \/ from \in {"SUBMITTED", "ORIGIN_MANAGER_APPROVED"} /\ to = "REJECTED"

\* A step moves a request along the documented lifecycle or deletes its row; in
\* particular no late call revives a terminal request or skips an approval.
LifecycleOrder ==
  [][\A t \in Transfers : status'[t] # status[t] => Allowed(status[t], status'[t])]_status

\* Every call returns: no test, lock wait or lost claim leaves a call hanging,
\* so no request row stays locked.
EveryCallReturns == \A h \in Handlers : handler[h] # Idle ~> handler[h] = Idle

\* The transfers that have moved stock.
Moved == {t \in Transfers : \E p \in Products : reservation[t][p].st = "CONSUMED"}

Book == INSTANCE StockBook
  WITH Movements <- Transfers, MaxMove <- MaxQty,
       balance <- onHand, moved <- Moved

\* The workflow implements the book of balances: whatever calls race, a transfer
\* moves its goods once and completely, and nothing else changes a balance.
ImplementsBook == Book!BookSpec

-----------------------------------------------------------------------------
\* What the repository's documents say and the code does not keep.

\* No more is reserved of a row than is on hand, whichever approvals run at the
\* same time.
NoOverReservation == \A r \in Rows : ActiveQty(r) <= onHand[r]

\* A cancelled or rejected request leaves no ACTIVE reservation behind.
NoOrphanReservations ==
  \A t \in Transfers : status[t] \in {"CANCELLED", "REJECTED"} =>
    \A p \in Products : ~Active(t, p)

\* A request is edited and deleted only while it is a DRAFT.
DraftOnly ==
  [][\A t \in Transfers :
       (lines'[t] # lines[t] \/ (status'[t] = "DELETED" /\ status[t] # "DELETED"))
         => status[t] = "DRAFT"]_<<lines, status>>

\* The before-quantities kept on the lines of a finalized request are the
\* balances its ledger entries started from.
StampIsHistory ==
  \A t \in Transfers : status[t] = "FINALIZED" => \A p \in Products :
    (stamp[t][p] # NoStamp /\ reservation[t][p].st = "CONSUMED") =>
      /\ \A k \in Entries(SrcRow(t, p), t, "TRANSFER_OUT") :
           stamp[t][p].origin = BalanceBefore(SrcRow(t, p), ledger[SrcRow(t, p)], k)
      /\ \A k \in Entries(DstRow(t, p), t, "TRANSFER_IN") :
           stamp[t][p].dest = BalanceBefore(DstRow(t, p), ledger[DstRow(t, p)], k)
=============================================================================
