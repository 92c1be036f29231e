---------------------------- MODULE TransferProofs ----------------------------
(***************************************************************************)
(* Theorems about TransferWorkflow for every set of products, locations,    *)
(* requests and calls in flight and every bound.                            *)
(* Each is carried by the invariants proved before it: first the types and  *)
(* the lifecycle of a request, then its reservations, then the balances and *)
(* ledgers, and last the refinement of the book of balances.                *)
(***************************************************************************)
EXTENDS TransferWorkflow, StockProofs

Sources == Transfers \cup OtherSources

Reservations == [Transfers -> [Products ->
  [qty : 0..MaxQty, st : {"NONE", "ACTIVE", "RELEASED", "CONSUMED"}]]]

-----------------------------------------------------------------------------
\* The values the actions write are of the declared types.

LEMMA CallFields ==
  ASSUME TypeOK, NEW h \in Handlers, handler[h] # Idle
  PROVE  /\ handler[h] \in Call
         /\ handler[h].id \in Transfers
         /\ handler[h].lines \in Lines
         /\ handler[h].read \in [Rows -> Int]
         /\ handler[h].op \in Operations
BY DEF TypeOK, Call

LEMMA ReturnType ==
  ASSUME TypeOK, NEW h \in Handlers, Return(h)
  PROVE  handler' \in [Handlers -> {Idle} \cup Call]
BY DEF TypeOK, Return

LEMMA SettledType ==
  ASSUME TypeOK, NEW t \in Transfers, NEW st \in {"RELEASED", "CONSUMED"}
  PROVE  Settled(t, st) \in [Transfers -> [Products ->
           [qty : 0..MaxQty, st : {"NONE", "ACTIVE", "RELEASED", "CONSUMED"}]]]
<1> DEFINE R == [qty : 0..MaxQty, st : {"NONE", "ACTIVE", "RELEASED", "CONSUMED"}]
           new == [p \in Products |->
              IF Active(t, p) THEN [reservation[t][p] EXCEPT !.st = st] ELSE reservation[t][p]]
<1>1. \A p \in Products : reservation[t][p] \in R
  BY DEF TypeOK
<1>2. \A p \in Products : [reservation[t][p] EXCEPT !.st = st] \in R
  BY <1>1
<1>3. new \in [Products -> R]
  BY <1>1, <1>2
<1>4. reservation \in [Transfers -> [Products -> R]]
  BY DEF TypeOK
<1>5. Settled(t, st) = [reservation EXCEPT ![t] = new]
  BY DEF Settled
<1> QED BY <1>3, <1>4, <1>5

LEMMA HeldType ==
  ASSUME TypeOK, NEW t \in Transfers, NEW r \in Rows
  PROVE  HeldQty(t, r) \in Nat
<1>1. r[1] \in Products
  BY DEF Rows
<1>2. reservation[t][r[1]].qty \in 0..MaxQty
  BY <1>1 DEF TypeOK
<1> QED BY <1>2, TransferAssumption DEF HeldQty

LEMMA HoldType ==
  ASSUME TypeOK, NEW d \in [Rows -> Int], Hold(d)
  PROVE  reservedQty' \in [Rows -> Int]
BY DEF TypeOK, Hold
-----------------------------------------------------------------------------

LEMMA TypeInit == Init => TypeOK
<1> SUFFICES ASSUME Init PROVE TypeOK
  OBVIOUS
<1>1. onHand \in [Rows -> Int] /\ reservedQty \in [Rows -> Int]
  BY StockAssumption DEF Init, StockInit
<1>2. ledger \in [Rows -> Seq(Entry(Sources))]
  BY DEF Init, StockInit
<1>3. /\ status \in [Transfers -> Statuses]
      /\ \A t \in Transfers : status[t] # "ABSENT" =>
           /\ route[t] \in [src : Locations, dst : Locations]
           /\ route[t].src # route[t].dst
  BY DEF Init, Statuses
<1>4. route \in [Transfers -> [src : Locations, dst : Locations] \cup {NoRoute}]
  BY DEF Init
<1>5. lines \in [Transfers -> Lines]
  BY TransferAssumption DEF Init, Lines, NoLines
<1>6. reservation \in [Transfers -> [Products ->
        [qty : 0..MaxQty, st : {"NONE", "ACTIVE", "RELEASED", "CONSUMED"}]]]
  BY TransferAssumption DEF Init, NoReservation
<1>7. stamp \in [Transfers -> [Products -> [origin : Int, dest : Int]]]
  BY DEF Init, NoStamp
<1>8. handler \in [Handlers -> {Idle} \cup Call]
  BY DEF Init
<1> QED BY <1>1, <1>2, <1>3, <1>4, <1>5, <1>6, <1>7, <1>8 DEF TypeOK, Sources

\* The quantities finalize posts and the kinds of its entries.
LEMMA PostType ==
  ASSUME TypeOK, NEW delta \in [Rows -> Int], NEW kind \in [Rows -> EntryKinds],
         NEW source \in Sources, Post(delta, kind, source)
  PROVE  /\ onHand' \in [Rows -> Int]
         /\ ledger' \in [Rows -> Seq(Entry(Sources))]
<1> DEFINE new(r) == [change |-> delta[r], after |-> onHand[r] + delta[r],
                      kind |-> kind[r], source |-> source]
<1>1. onHand \in [Rows -> Int] /\ ledger \in [Rows -> Seq(Entry(Sources))]
  BY DEF TypeOK, Sources
<1>2. onHand' \in [Rows -> Int]
  BY <1>1 DEF Post
<1>3. ASSUME NEW r \in Rows
      PROVE  /\ ledger[r] \in Seq(Entry(Sources))
             /\ Append(ledger[r], new(r)) \in Seq(Entry(Sources))
  <2>1. /\ ledger[r] \in Seq(Entry(Sources)) /\ onHand[r] \in Int
        /\ delta[r] \in Int /\ kind[r] \in EntryKinds
    BY <1>1
  <2>2. new(r) \in Entry(Sources)
    BY <2>1 DEF Entry
  <2> HIDE DEF new
  <2> QED BY <2>1, <2>2, AppendEntry
<1>4. ledger' = [r \in Rows |-> IF delta[r] = 0 THEN ledger[r] ELSE Append(ledger[r], new(r))]
  BY DEF Post
<1> HIDE DEF new
<1>5. ledger' \in [Rows -> Seq(Entry(Sources))]
  BY <1>3, <1>4
<1> QED BY <1>2, <1>5

LEMMA CallUpdate ==
  ASSUME TypeOK, NEW h \in Handlers, NEW call \in {Idle} \cup Call,
         handler' = [handler EXCEPT ![h] = call]
  PROVE  handler' \in [Handlers -> {Idle} \cup Call]
BY DEF TypeOK

LEMMA GotoType ==
  ASSUME TypeOK, NEW h \in Handlers, handler[h] # Idle,
         NEW pc \in {"read", "emptied", "checked", "claimed", "stamped"},
         NEW read \in [Rows -> Int],
         \/ handler' = [handler EXCEPT ![h].pc = pc]
         \/ handler' = [handler EXCEPT ![h].pc = pc, ![h].read = read]
  PROVE  handler' \in [Handlers -> {Idle} \cup Call]
<1>1. handler[h] \in Call
  BY CallFields
<1>2. [handler[h] EXCEPT !.pc = pc] \in Call
  BY <1>1 DEF Call
<1>3. [[handler[h] EXCEPT !.pc = pc] EXCEPT !.read = read] \in Call
  BY <1>1 DEF Call
<1>4. CASE handler' = [handler EXCEPT ![h].pc = pc]
  BY <1>2, <1>4 DEF TypeOK
<1>5. CASE handler' = [handler EXCEPT ![h].pc = pc, ![h].read = read]
  <2>1. handler' = [handler EXCEPT ![h] = [[handler[h] EXCEPT !.pc = pc] EXCEPT !.read = read]]
    BY <1>5 DEF TypeOK
  <2> QED BY <1>3, <2>1 DEF TypeOK
<1> QED BY <1>4, <1>5

\* An action that changes neither the tables nor the requests.
LEMMA TypeCallOnly ==
  ASSUME TypeOK, UNCHANGED <<stockVars, requestVars>>,
         handler' \in [Handlers -> {Idle} \cup Call]
  PROVE  TypeOK'
BY DEF TypeOK, stockVars, requestVars

\* A status change that keeps the rest of the request.
LEMMA TypeStatusOnly ==
  ASSUME TypeOK, NEW t \in Transfers, status[t] # "ABSENT",
         NEW to \in Statuses, status' = [status EXCEPT ![t] = to],
         handler' \in [Handlers -> {Idle} \cup Call],
         onHand' \in [Rows -> Int], reservedQty' \in [Rows -> Int],
         ledger' \in [Rows -> Seq(Entry(Sources))],
         reservation' \in Reservations,
         UNCHANGED <<route, lines, stamp>>
  PROVE  TypeOK'
<1>1. status' \in [Transfers -> Statuses]
  BY DEF TypeOK
<1>2. \A u \in Transfers : status'[u] # "ABSENT" =>
        /\ route'[u] \in [src : Locations, dst : Locations]
        /\ route'[u].src # route'[u].dst
  BY DEF TypeOK
<1> QED BY <1>1, <1>2 DEF TypeOK, Sources, Reservations

\* A change of the lines and stamps of a request, and of nothing else.
LEMMA TypeLinesOnly ==
  ASSUME TypeOK, UNCHANGED <<stockVars, status, route, reservation>>,
         handler' \in [Handlers -> {Idle} \cup Call],
         lines' \in [Transfers -> Lines],
         stamp' \in [Transfers -> [Products -> [origin : Int, dest : Int]]]
  PROVE  TypeOK'
BY DEF TypeOK, stockVars

LEMMA TypeCreate == TypeOK /\ (\E t \in Transfers : Create(t)) => TypeOK'
<1> SUFFICES ASSUME TypeOK, NEW t \in Transfers, Create(t) PROVE TypeOK'
  OBVIOUS
<1>1. PICK r \in Routes : route' = [route EXCEPT ![t] = r]
  BY DEF Create
<1>2. r \in [src : Locations, dst : Locations] /\ r.src # r.dst
  BY DEF Routes
<1>3. status' = [status EXCEPT ![t] = "DRAFT"] /\ "DRAFT" \in Statuses
  BY DEF Create, Statuses, Live
<1>4. status' \in [Transfers -> Statuses]
  BY <1>3 DEF TypeOK
<1>5. route' \in [Transfers -> [src : Locations, dst : Locations] \cup {NoRoute}]
  BY <1>1, <1>2 DEF TypeOK
<1>6. \A u \in Transfers : status'[u] # "ABSENT" =>
        /\ route'[u] \in [src : Locations, dst : Locations]
        /\ route'[u].src # route'[u].dst
  BY <1>1, <1>2, <1>3 DEF TypeOK
<1> QED BY <1>4, <1>5, <1>6 DEF Create, TypeOK, stockVars

LEMMA TypeBegin ==
  ASSUME TypeOK, NEW h \in Handlers, NEW op \in Operations, NEW t \in Transfers, Begin(h, op, t)
  PROVE  TypeOK'
<1> DEFINE seen == IF op \in {"submit", "approveOrigin", "finalize"} THEN lines[t] ELSE NoLines
           had  == op \in {"reject", "cancel"} /\ status[t] \in Reserved
           call == [op |-> op, pc |-> "read", id |-> t, had |-> had, lines |-> seen,
                    read |-> NoRead]
<1>1. seen \in Lines
  BY TransferAssumption DEF TypeOK, Lines, NoLines
<1>2. NoRead \in [Rows -> Int]
  BY DEF NoRead, Unread
<1>3. had \in BOOLEAN
  OBVIOUS
<1>4. call \in Call
  <2> HIDE DEF seen, had
  <2> QED BY <1>1, <1>2, <1>3 DEF Call
<1>5. handler' = [handler EXCEPT ![h] = call]
  BY DEF Begin
<1>6. handler' \in [Handlers -> {Idle} \cup Call]
  BY <1>4, <1>5 DEF TypeOK
<1> QED BY <1>6, TypeCallOnly DEF Begin

LEMMA TypeEdit ==
  ASSUME TypeOK, NEW h \in Handlers, NEW p \in Products, NEW q \in 1..MaxQty,
         AddItem(h, p, q) \/ UpdateItem(h, p, q) \/ DeleteItem(h, p)
  PROVE  TypeOK'
<1> DEFINE t == handler[h].id
<1>1. t \in Transfers /\ lines \in [Transfers -> Lines] /\ lines[t] \in [Products -> 0..MaxQty]
  BY CallFields DEF TypeOK, Lines, AddItem, UpdateItem, DeleteItem, At
<1>2. handler' \in [Handlers -> {Idle} \cup Call]
  BY ReturnType DEF AddItem, UpdateItem, DeleteItem
<1>3. UNCHANGED <<stockVars, status, route, reservation>>
  BY DEF AddItem, UpdateItem, DeleteItem
<1>4. stamp \in [Transfers -> [Products -> [origin : Int, dest : Int]]]
  BY DEF TypeOK
<1>5. CASE AddItem(h, p, q)
  <2>1. lines[t][p] + q \in 0..MaxQty
    BY <1>1, <1>5, TransferAssumption DEF AddItem
  <2>2. lines' = [lines EXCEPT ![t] = [lines[t] EXCEPT ![p] = lines[t][p] + q]]
    BY <1>1, <1>5 DEF AddItem
  <2>3. [lines[t] EXCEPT ![p] = lines[t][p] + q] \in Lines
    BY <1>1, <2>1 DEF Lines
  <2>4. lines' \in [Transfers -> Lines]
    BY <1>1, <2>2, <2>3
  <2>5. stamp' = stamp
    BY <1>5 DEF AddItem
  <2> QED BY <1>2, <1>3, <1>4, <2>4, <2>5, TypeLinesOnly
<1>6. CASE UpdateItem(h, p, q)
  <2>1. q \in 0..MaxQty
    BY TransferAssumption
  <2>2. lines' = [lines EXCEPT ![t] = [lines[t] EXCEPT ![p] = q]]
    BY <1>1, <1>6 DEF UpdateItem
  <2>3. [lines[t] EXCEPT ![p] = q] \in Lines
    BY <1>1, <2>1 DEF Lines
  <2>4. lines' \in [Transfers -> Lines]
    BY <1>1, <2>2, <2>3
  <2>5. stamp' = stamp
    BY <1>6 DEF UpdateItem
  <2> QED BY <1>2, <1>3, <1>4, <2>4, <2>5, TypeLinesOnly
<1>7. CASE DeleteItem(h, p)
  <2>1. 0 \in 0..MaxQty /\ NoStamp \in [origin : Int, dest : Int]
    BY TransferAssumption DEF NoStamp
  <2>2. lines' = [lines EXCEPT ![t] = [lines[t] EXCEPT ![p] = 0]]
    BY <1>1, <1>7 DEF DeleteItem
  <2>3. [lines[t] EXCEPT ![p] = 0] \in Lines
    BY <1>1, <2>1 DEF Lines
  <2>4. lines' \in [Transfers -> Lines]
    BY <1>1, <2>2, <2>3
  <2>5. stamp' \in [Transfers -> [Products -> [origin : Int, dest : Int]]]
    BY <1>1, <1>4, <1>7, <2>1 DEF DeleteItem
  <2> QED BY <1>2, <1>3, <2>4, <2>5, TypeLinesOnly
<1> QED BY <1>5, <1>6, <1>7

LEMMA TypeDeleteLines ==
  ASSUME TypeOK, NEW h \in Handlers, DeleteLines(h)
  PROVE  TypeOK'
<1> DEFINE t == handler[h].id
<1>1. t \in Transfers
  BY CallFields DEF DeleteLines, At
<1>2. handler' \in [Handlers -> {Idle} \cup Call]
  BY GotoType DEF DeleteLines, At, Goto, TypeOK, NoRead
<1>3. NoLines \in Lines /\ [p \in Products |-> NoStamp] \in [Products -> [origin : Int, dest : Int]]
  BY TransferAssumption DEF NoLines, Lines, NoStamp
<1>4. /\ lines' \in [Transfers -> Lines]
      /\ stamp' \in [Transfers -> [Products -> [origin : Int, dest : Int]]]
  BY <1>1, <1>3 DEF TypeOK, DeleteLines
<1> QED BY <1>2, <1>4, TypeLinesOnly DEF DeleteLines

\* The statuses that the steps of a call write, none of them from ABSENT.
LEMMA TypeStatusSteps ==
  ASSUME TypeOK, NEW h \in Handlers,
         DeleteRequest(h) \/ ClaimSubmit(h) \/ ApproveDestination(h)
  PROVE  TypeOK'
<1> DEFINE t == handler[h].id
<1>1. handler[h] # Idle /\ t \in Transfers
  BY CallFields DEF DeleteRequest, ClaimSubmit, ApproveDestination, At
<1>2. status[t] # "ABSENT"
  BY DEF DeleteRequest, ClaimSubmit, ApproveDestination, Live, Cancellable, Terminal
<1>3. PICK to \in {"DELETED", "SUBMITTED", "READY_TO_FINALIZE"} :
        status' = [status EXCEPT ![t] = to]
  BY DEF DeleteRequest, ClaimSubmit, ApproveDestination
<1>4. to \in Statuses
  BY DEF Statuses, Live, Cancellable
<1>5. handler' \in [Handlers -> {Idle} \cup Call]
  BY ReturnType DEF DeleteRequest, ClaimSubmit, ApproveDestination
<1>6. UNCHANGED <<onHand, reservedQty, ledger, reservation, route, lines, stamp>>
  BY DEF DeleteRequest, ClaimSubmit, ApproveDestination, stockVars
<1>7. /\ onHand' \in [Rows -> Int] /\ reservedQty' \in [Rows -> Int]
      /\ ledger' \in [Rows -> Seq(Entry(Sources))] /\ reservation' \in Reservations
  BY <1>6 DEF TypeOK, Sources, Reservations
<1> QED BY <1>1, <1>2, <1>3, <1>4, <1>5, <1>6, <1>7, TypeStatusOnly

\* A call that is done with one of its lines is still a call.
LEMMA LineDoneType ==
  ASSUME TypeOK, NEW h \in Handlers, handler[h] # Idle, NEW p \in Products,
         NEW pc \in {"read", "emptied", "checked", "claimed", "stamped"}, LineDone(h, p, pc)
  PROVE  /\ handler' \in [Handlers -> {Idle} \cup Call]
         /\ \A k \in Handlers : k # h => handler'[k] = handler[k]
         /\ handler'[h].id = handler[h].id /\ handler'[h].op = handler[h].op
         /\ handler'[h].pc \in {pc, handler[h].pc}
<1> DEFINE left == [handler[h].lines EXCEPT ![p] = 0]
           next == IF left = NoLines THEN pc ELSE handler[h].pc
           read == [r \in Rows |-> IF r[1] = p THEN Unread ELSE handler[h].read[r]]
           call == [[[handler[h] EXCEPT !.lines = left] EXCEPT !.pc = next] EXCEPT !.read = read]
<1>1. handler[h] \in Call /\ handler \in [Handlers -> {Idle} \cup Call]
  BY CallFields DEF TypeOK
<1>2. left \in Lines /\ 0 \in 0..MaxQty
  BY <1>1, TransferAssumption DEF Call, Lines
<1>3. next \in {"read", "emptied", "checked", "claimed", "stamped"}
  BY <1>1 DEF Call
<1>4. read \in [Rows -> Int]
  BY <1>1 DEF Call, Unread
<1>5. handler' = [handler EXCEPT ![h].lines = left, ![h].pc = next, ![h].read = read]
  BY DEF LineDone
<1>6. next \in {pc, handler[h].pc}
  OBVIOUS
<1> HIDE DEF left, next, read
<1>7. call \in Call /\ call.id = handler[h].id /\ call.op = handler[h].op /\ call.pc = next
  BY <1>1, <1>2, <1>3, <1>4 DEF Call
<1>8. handler' = [handler EXCEPT ![h] = call]
  BY <1>1, <1>5
<1> HIDE DEF call
<1> QED BY <1>1, <1>6, <1>7, <1>8

\* The sums over the reservations table are naturals.
LEMMA ActiveQtyType ==
  ASSUME TypeOK, NEW r \in Rows
  PROVE  ActiveQty(r) \in Nat
<1> DEFINE f == [t \in Transfers |-> HeldQty(t, r)]
<1>1. f \in [Transfers -> Nat]
  BY HeldType
<1>2. SumFunctionOnSet(f, Transfers) \in Nat
  <2> HIDE DEF f
  <2> QED BY <1>1, SumOfNaturals, TransferAssumption
<1> QED BY <1>2 DEF ActiveQty

\* The steps that only move a call on: what it reads is a quantity of each row.
LEMMA TypeReads ==
  ASSUME TypeOK, NEW h \in Handlers,
         (\E p \in Products : CheckAvailable(h, p) \/ ReadBalances(h, p)) \/ ClaimOrigin(h)
  PROVE  TypeOK'
<1>1. [r \in Rows |-> ActiveQty(r)] \in [Rows -> Int]
  BY ActiveQtyType
<1>2. ASSUME NEW p \in Products, CheckAvailable(h, p) PROVE TypeOK'
  <2>1. handler' \in [Handlers -> {Idle} \cup Call]
    BY <1>2, LineDoneType DEF CheckAvailable, At
  <2> QED BY <1>2, <2>1, TypeCallOnly DEF CheckAvailable
<1>3. CASE ClaimOrigin(h)
  <2> DEFINE seen == [r \in Rows |-> ActiveQty(r)]
  <2>1. handler' = [handler EXCEPT ![h].pc = "claimed", ![h].read = seen] /\ handler[h] # Idle
    BY <1>3 DEF ClaimOrigin, At
  <2>2. seen \in [Rows -> Int]
    BY <1>1
  <2> HIDE DEF seen
  <2>3. handler' \in [Handlers -> {Idle} \cup Call]
    BY <2>1, <2>2, GotoType
  <2> QED BY <1>3, <2>3, TypeCallOnly DEF ClaimOrigin
<1>4. ASSUME NEW p \in Products, ReadBalances(h, p) PROVE TypeOK'
  <2> DEFINE read == [r \in Rows |-> IF r[1] = p THEN onHand[r] ELSE handler[h].read[r]]
  <2>1. handler' = [handler EXCEPT ![h].read = read] /\ handler[h] # Idle
    BY <1>4 DEF ReadBalances, At
  <2>2. read \in [Rows -> Int] /\ handler[h] \in Call
    BY <2>1, CallFields DEF TypeOK
  <2> HIDE DEF read
  <2>3. [handler[h] EXCEPT !.read = read] \in Call
    BY <2>2 DEF Call
  <2>4. handler' \in [Handlers -> {Idle} \cup Call]
    BY <2>1, <2>3 DEF TypeOK
  <2> QED BY <1>4, <2>4, TypeCallOnly DEF ReadBalances
<1> QED BY <1>2, <1>3, <1>4

\* Steps that end a call without an effect.
LEMMA TypeReturns ==
  ASSUME TypeOK, NEW h \in Handlers, Abort(h) \/ Refuse(h)
  PROVE  TypeOK'
BY ReturnType, TypeCallOnly DEF Abort, Refuse

LEMMA TypeStampLine ==
  ASSUME TypeOK, NEW h \in Handlers, NEW p \in Products, StampLine(h, p),
         status[handler[h].id] # "ABSENT"
  PROVE  TypeOK'
<1> DEFINE t == handler[h].id
           new == [origin |-> handler[h].read[SrcRow(t, p)], dest |-> handler[h].read[DstRow(t, p)]]
<1>1. handler[h] # Idle /\ t \in Transfers /\ handler[h].read \in [Rows -> Int]
  BY CallFields DEF StampLine, At
<1>2. route[t].src \in Locations /\ route[t].dst \in Locations
  BY <1>1 DEF TypeOK
<1>3. SrcRow(t, p) \in Rows /\ DstRow(t, p) \in Rows
  BY <1>2 DEF SrcRow, DstRow, Rows
<1>4. new \in [origin : Int, dest : Int]
  BY <1>1, <1>3
<1>5. stamp' = [stamp EXCEPT ![t][p] = new]
  BY DEF StampLine
<1> HIDE DEF new
<1>6. stamp' \in [Transfers -> [Products -> [origin : Int, dest : Int]]]
  BY <1>1, <1>4, <1>5 DEF TypeOK
<1>7. handler' \in [Handlers -> {Idle} \cup Call]
  BY <1>1, LineDoneType DEF StampLine
<1>8. lines' \in [Transfers -> Lines]
  BY DEF StampLine, TypeOK
<1> QED BY <1>6, <1>7, <1>8, TypeLinesOnly DEF StampLine

LEMMA TypeEndRequest ==
  ASSUME TypeOK, NEW h \in Handlers, Reject(h) \/ Cancel(h)
  PROVE  TypeOK'
<1> DEFINE t == handler[h].id
<1>1. handler[h] # Idle /\ t \in Transfers
  BY CallFields DEF Reject, Cancel, At
<1>2. PICK from \in {Rejectable, Cancellable}, to \in {"REJECTED", "CANCELLED"} :
        EndRequest(h, from, to)
  BY DEF Reject, Cancel
<1>3. status[t] # "ABSENT" /\ to \in Statuses
  BY <1>2 DEF EndRequest, Rejectable, Cancellable, Statuses, Live, Terminal
<1>4. /\ status' = [status EXCEPT ![t] = to]
      /\ UNCHANGED <<onHand, ledger, route, lines, stamp>>
      /\ handler' \in [Handlers -> {Idle} \cup Call]
  BY <1>2, ReturnType DEF EndRequest
<1>5. reservation' \in Reservations /\ reservedQty' \in [Rows -> Int]
  <2>1. CASE UNCHANGED <<reservation, reservedQty>>
    BY <2>1 DEF TypeOK, Reservations
  <2>2. CASE Release(t)
    <3> DEFINE d == [r \in Rows |-> -HeldQty(t, r)]
    <3>1. d \in [Rows -> Int]
      BY <1>1, HeldType
    <3>2. Hold(d)
      BY <2>2 DEF Release
    <3> HIDE DEF d
    <3>3. reservedQty' \in [Rows -> Int]
      BY <3>1, <3>2, HoldType
    <3>4. reservation' \in Reservations
      BY <1>1, <2>2, SettledType DEF Release, Reservations
    <3> QED BY <3>3, <3>4
  <2> QED BY <1>2, <2>1, <2>2 DEF EndRequest
<1>6. onHand' \in [Rows -> Int] /\ ledger' \in [Rows -> Seq(Entry(Sources))]
  BY <1>4 DEF TypeOK, Sources
<1> QED BY <1>1, <1>3, <1>4, <1>5, <1>6, TypeStatusOnly

LEMMA TypeApproveOrigin ==
  ASSUME TypeOK, NEW h \in Handlers, ApproveOrigin(h), status[handler[h].id] # "ABSENT"
  PROVE  TypeOK'
<1> DEFINE t == handler[h].id
           wanted == handler[h].lines
           d == [r \in Rows |-> IF r[2] = route[t].src THEN wanted[r[1]] ELSE 0]
           R == [qty : 0..MaxQty, st : {"NONE", "ACTIVE", "RELEASED", "CONSUMED"}]
           new == [p \in Products |->
              IF wanted[p] > 0 THEN [qty |-> wanted[p], st |-> "ACTIVE"] ELSE NoReservation]
<1>1. handler[h] # Idle /\ t \in Transfers /\ wanted \in [Products -> 0..MaxQty]
  BY CallFields DEF ApproveOrigin, At, Lines
<1>2. status' = [status EXCEPT ![t] = "ORIGIN_MANAGER_APPROVED"]
      /\ UNCHANGED <<onHand, ledger, route, lines, stamp>>
      /\ handler' \in [Handlers -> {Idle} \cup Call]
  BY ReturnType DEF ApproveOrigin
<1>3. "ORIGIN_MANAGER_APPROVED" \in Statuses
  BY DEF Statuses, Live, Cancellable
<1>4. reservedQty' \in [Rows -> Int]
  <2>1. \A r \in Rows : r[1] \in Products
    BY DEF Rows
  <2>2. d \in [Rows -> Int]
    BY <1>1, <2>1, TransferAssumption
  <2>3. Hold(d)
    BY DEF ApproveOrigin
  <2> HIDE DEF d
  <2> QED BY <2>2, <2>3, HoldType
<1>5. reservation' \in Reservations
  <2>1. \A p \in Products : [qty |-> wanted[p], st |-> "ACTIVE"] \in R
    BY <1>1
  <2>2. NoReservation \in R
    BY TransferAssumption DEF NoReservation
  <2>3. new \in [Products -> R]
    BY <2>1, <2>2
  <2>4. reservation' = [reservation EXCEPT ![t] = new]
    BY DEF ApproveOrigin
  <2> HIDE DEF new
  <2> QED BY <1>1, <2>3, <2>4 DEF TypeOK, Reservations
<1>6. onHand' \in [Rows -> Int] /\ ledger' \in [Rows -> Seq(Entry(Sources))]
  BY <1>2 DEF TypeOK, Sources
<1> QED BY <1>1, <1>2, <1>3, <1>4, <1>5, <1>6, TypeStatusOnly

\* What finalize posts to the balance of each row.
Posting(t) == [r \in Rows |->
  (IF Active(t, r[1]) /\ r[2] = route[t].dst THEN reservation[t][r[1]].qty ELSE 0) - HeldQty(t, r)]

PostingKind(t) == [r \in Rows |-> IF r[2] = route[t].src THEN "TRANSFER_OUT" ELSE "TRANSFER_IN"]

LEMMA PostingType ==
  ASSUME TypeOK, NEW t \in Transfers
  PROVE  Posting(t) \in [Rows -> Int] /\ PostingKind(t) \in [Rows -> EntryKinds]
<1>1. \A r \in Rows : reservation[t][r[1]].qty \in Int
  <2> TAKE r \in Rows
  <2>1. r[1] \in Products
    BY DEF Rows
  <2>2. reservation[t][r[1]].qty \in 0..MaxQty
    BY <2>1 DEF TypeOK
  <2> QED BY <2>2, TransferAssumption
<1>2. \A r \in Rows : HeldQty(t, r) \in Int
  BY HeldType
<1> QED BY <1>1, <1>2 DEF Posting, PostingKind, EntryKinds

LEMMA TypeFinalize ==
  ASSUME TypeOK, NEW h \in Handlers, Finalize(h)
  PROVE  TypeOK'
<1> DEFINE t == handler[h].id
<1>1. handler[h] # Idle /\ t \in Transfers
  BY CallFields DEF Finalize, At
<1>2. /\ status[t] # "ABSENT"
      /\ status' = [status EXCEPT ![t] = "FINALIZED"]
      /\ UNCHANGED <<route, lines, stamp>>
      /\ handler' \in [Handlers -> {Idle} \cup Call]
  BY ReturnType DEF Finalize
<1>3. "FINALIZED" \in Statuses
  BY DEF Statuses, Live, Terminal
<1>4. reservedQty' \in [Rows -> Int]
  <2> DEFINE d == [r \in Rows |-> -HeldQty(t, r)]
  <2>1. d \in [Rows -> Int]
    BY <1>1, HeldType
  <2>2. Hold(d)
    BY DEF Finalize
  <2> HIDE DEF d
  <2> QED BY <2>1, <2>2, HoldType
<1>5. reservation' \in Reservations
  BY <1>1, SettledType DEF Finalize, Reservations
<1>6. Post(Posting(t), PostingKind(t), t)
  BY DEF Finalize, Posting, PostingKind
<1>7. onHand' \in [Rows -> Int] /\ ledger' \in [Rows -> Seq(Entry(Sources))]
  BY <1>1, <1>6, PostingType, PostType DEF Sources
<1> QED BY <1>1, <1>2, <1>3, <1>4, <1>5, <1>7, TypeStatusOnly

\* What an adjustment posts.
AdjustPosting(r, change) == [x \in Rows |-> IF x = r THEN change ELSE 0]

LEMMA TypeAdjust ==
  ASSUME TypeOK, NEW r \in Rows, NEW change \in Int, NEW source \in OtherSources,
         Adjust(r, change, source)
  PROVE  TypeOK'
<1>1. Post(AdjustPosting(r, change), [x \in Rows |-> "ADJUSTMENT"], source)
  BY DEF Adjust, ApplyAdjustment, AdjustPosting
<1>2. AdjustPosting(r, change) \in [Rows -> Int] /\ source \in Sources
  BY DEF AdjustPosting, Sources
<1>3. [x \in Rows |-> "ADJUSTMENT"] \in [Rows -> EntryKinds]
  BY DEF EntryKinds
<1>4. onHand' \in [Rows -> Int] /\ ledger' \in [Rows -> Seq(Entry(Sources))]
  BY <1>1, <1>2, <1>3, PostType
<1> QED BY <1>4 DEF Adjust, ApplyAdjustment, TypeOK, Sources, requestVars

-----------------------------------------------------------------------------
\* What is known of the calls in flight.  An open origin approval is alone on its
\* request and keeps it SUBMITTED, and it has lines to reserve.

Claimed(h) == handler[h] # Idle /\ handler[h].pc = "claimed"

CallInv ==
  /\ \A h \in Handlers : handler[h] # Idle =>
       /\ status[handler[h].id] # "ABSENT"
       /\ handler[h].op = "approveOrigin" => handler[h].lines # NoLines
  /\ \A h \in Handlers : Claimed(h) =>
       handler[h].op = "approveOrigin" /\ status[handler[h].id] = "SUBMITTED"
  /\ \A h, k \in Handlers :
       Claimed(h) /\ Claimed(k) /\ handler[h].id = handler[k].id => h = k

\* A step of a call keeps the other calls, and of its own what it is about.
LEMMA CallContinues ==
  ASSUME TypeOK, NEW h \in Handlers, Progress(h) \/ Abort(h)
  PROVE  /\ handler[h] # Idle /\ handler[h].id \in Transfers
         /\ \A k \in Handlers : k # h => handler'[k] = handler[k]
         /\ handler'[h] # Idle =>
              /\ handler'[h].id = handler[h].id
              /\ handler'[h].op = handler[h].op
              /\ handler[h].op = "approveOrigin" => handler'[h].lines = handler[h].lines
              /\ handler'[h].pc = "claimed" => ClaimOrigin(h)
<1>1. handler[h] # Idle
  BY DEF Progress, Abort, At, AddItem, UpdateItem, DeleteItem, DeleteLines, DeleteRequest,
         CheckAvailable, ClaimSubmit, ClaimOrigin, ApproveOrigin, ApproveDestination,
         Reject, Cancel, ReadBalances, StampLine, Finalize, Refuse, ClaimLost
<1>2. handler[h].id \in Transfers /\ handler[h] \in Call /\ handler \in [Handlers -> {Idle} \cup Call]
  BY <1>1, CallFields DEF TypeOK
<1>3. CASE Return(h)
  BY <1>1, <1>2, <1>3 DEF Return
<1>4. CASE Goto(h, "emptied")
  BY <1>1, <1>2, <1>4 DEF Goto, Call
<1>5. CASE ClaimOrigin(h)
  BY <1>1, <1>2, <1>5 DEF ClaimOrigin, Call
<1>6. ASSUME NEW p \in Products, ReadBalances(h, p)
      PROVE  /\ \A k \in Handlers : k # h => handler'[k] = handler[k]
             /\ handler'[h].id = handler[h].id /\ handler'[h].op = handler[h].op
             /\ handler'[h].lines = handler[h].lines /\ handler'[h].pc = "read"
  BY <1>1, <1>2, <1>6 DEF ReadBalances, At, Call
<1>7. ASSUME NEW p \in Products, CheckAvailable(h, p) \/ StampLine(h, p)
      PROVE  /\ \A k \in Handlers : k # h => handler'[k] = handler[k]
             /\ handler'[h].id = handler[h].id /\ handler'[h].op = handler[h].op
             /\ handler[h].op # "approveOrigin" /\ handler'[h].pc # "claimed"
  <2>1. \E pc \in {"checked", "stamped"} : LineDone(h, p, pc)
    BY <1>7 DEF CheckAvailable, StampLine
  <2>2. handler[h].op \in {"submit", "finalize"} /\ handler[h].pc = "read"
    BY <1>7 DEF CheckAvailable, StampLine, At
  <2> QED BY <1>1, <2>1, <2>2, LineDoneType
<1>8. \/ Return(h) \/ Goto(h, "emptied") \/ ClaimOrigin(h)
      \/ \E p \in Products : ReadBalances(h, p) \/ CheckAvailable(h, p) \/ StampLine(h, p)
  BY DEF Progress, Abort, AddItem, UpdateItem, DeleteItem, DeleteLines, DeleteRequest,
         ClaimSubmit, ApproveOrigin, ApproveDestination,
         Reject, Cancel, EndRequest, Finalize, Refuse
<1>9. CASE \E p \in Products : ReadBalances(h, p) \/ CheckAvailable(h, p) \/ StampLine(h, p)
  BY <1>1, <1>2, <1>6, <1>7, <1>9
<1> QED BY <1>3, <1>4, <1>5, <1>8, <1>9

\* A step of a call changes the status of its own request or of none; it finds
\* the row unlocked or holds the lock itself.
LEMMA StatusStep ==
  ASSUME TypeOK, NEW h \in Handlers, Progress(h) \/ Abort(h)
  PROVE  \/ status' = status
         \/ /\ ~Locked(handler[h].id) \/ (Claimed(h) /\ handler'[h] = Idle)
            /\ \E to \in Live \cup {"DELETED"} : status' = [status EXCEPT ![handler[h].id] = to]
<1> USE DEF Live, Cancellable, Terminal
<1>1. CASE DeleteRequest(h)
  BY <1>1 DEF DeleteRequest
<1>2. CASE ClaimSubmit(h)
  BY <1>2 DEF ClaimSubmit
<1>3. CASE ApproveOrigin(h)
  BY <1>3 DEF ApproveOrigin, At, Claimed, Return, TypeOK
<1>4. CASE ApproveDestination(h)
  BY <1>4 DEF ApproveDestination
<1>5. CASE Reject(h)
  BY <1>5 DEF Reject, EndRequest
<1>6. CASE Cancel(h)
  BY <1>6 DEF Cancel, EndRequest
<1>7. CASE Finalize(h)
  BY <1>7 DEF Finalize
<1>8. CASE UNCHANGED status
  BY <1>8
<1> QED
  BY <1>1, <1>2, <1>3, <1>4, <1>5, <1>6, <1>7, <1>8
  DEF Progress, Abort, AddItem, UpdateItem, DeleteItem, DeleteLines, CheckAvailable,
      ClaimOrigin, ReadBalances, StampLine, Refuse, requestVars

LEMMA CallInvProgress ==
  ASSUME TypeOK, CallInv, NEW h \in Handlers, Progress(h) \/ Abort(h)
  PROVE  CallInv'
<1> DEFINE t == handler[h].id
<1>1. /\ handler[h] # Idle /\ t \in Transfers
      /\ \A k \in Handlers : k # h => handler'[k] = handler[k]
      /\ handler'[h] # Idle =>
           /\ handler'[h].id = handler[h].id
           /\ handler'[h].op = handler[h].op
           /\ handler[h].op = "approveOrigin" => handler'[h].lines = handler[h].lines
           /\ handler'[h].pc = "claimed" => ClaimOrigin(h)
  BY CallContinues
<1>2. \A u \in Transfers : status[u] # "ABSENT" => status'[u] # "ABSENT"
  BY StatusStep DEF TypeOK, Live, Cancellable, Terminal
<1>3. \A k \in Handlers : handler[k] # Idle => handler[k].id \in Transfers
  BY CallFields
<1>4. ASSUME NEW k \in Handlers, handler'[k] # Idle
      PROVE  status'[handler'[k].id] # "ABSENT"
             /\ (handler'[k].op = "approveOrigin" => handler'[k].lines # NoLines)
  BY <1>1, <1>2, <1>3, <1>4 DEF CallInv
<1>5. ASSUME NEW k \in Handlers, Claimed(k)', k # h
      PROVE  /\ Claimed(k) /\ handler'[k] = handler[k]
             /\ handler[k].op = "approveOrigin" /\ status'[handler[k].id] = "SUBMITTED"
  <2>1. Claimed(k) /\ handler'[k] = handler[k]
    BY <1>1, <1>5 DEF Claimed
  <2>2. handler[k].op = "approveOrigin" /\ status[handler[k].id] = "SUBMITTED"
    BY <2>1 DEF CallInv
  <2>3. Locked(handler[k].id)
    BY <2>1 DEF Locked, Claimed
  <2>4. CASE status' = status
    BY <2>1, <2>2, <2>4
  <2>5. CASE ~Locked(t) /\ \E to \in Live \cup {"DELETED"} : status' = [status EXCEPT ![t] = to]
    <3>1. handler[k].id # t
      BY <2>3, <2>5
    <3> QED BY <1>3, <2>1, <2>2, <2>5, <3>1 DEF Claimed, TypeOK
  <2>6. CASE Claimed(h) /\ \E to \in Live \cup {"DELETED"} : status' = [status EXCEPT ![t] = to]
    <3>1. handler[k].id # t
      BY <1>5, <2>1, <2>6 DEF CallInv
    <3> QED BY <1>3, <2>1, <2>2, <2>6, <3>1 DEF Claimed, TypeOK
  <2> QED BY <2>4, <2>5, <2>6, StatusStep
<1>6. ASSUME Claimed(h)'
      PROVE  /\ handler'[h].id = t /\ ~Locked(t)
             /\ handler'[h].op = "approveOrigin" /\ status'[t] = "SUBMITTED"
  <2>1. handler'[h].id = t /\ handler'[h].op = handler[h].op /\ ClaimOrigin(h)
    BY <1>1, <1>6 DEF Claimed
  <2> QED BY <2>1 DEF ClaimOrigin, At, requestVars
<1>7. ASSUME NEW k \in Handlers, Claimed(k)'
      PROVE  handler'[k].op = "approveOrigin" /\ status'[handler'[k].id] = "SUBMITTED"
  BY <1>5, <1>6, <1>7
<1>8. ASSUME NEW k \in Handlers, NEW j \in Handlers, Claimed(k)', Claimed(j)',
             handler'[k].id = handler'[j].id
      PROVE  k = j
  <2>1. CASE k # h /\ j # h
    BY <1>5, <1>8, <2>1 DEF CallInv
  <2>2. ASSUME NEW i \in Handlers, i # h, Claimed(i)', Claimed(h)', handler'[i].id = handler'[h].id
        PROVE  FALSE
    <3>1. Claimed(i) /\ handler[i].id = t
      BY <1>5, <1>6, <2>2
    <3> QED BY <1>6, <2>2, <3>1 DEF Locked, Claimed
  <2> QED BY <1>8, <2>1, <2>2
<1> QED BY <1>4, <1>7, <1>8 DEF CallInv

\* Creating a request concerns no call, and a new call has not claimed anything.
LEMMA CallInvEnter ==
  ASSUME TypeOK, CallInv,
         \/ \E t \in Transfers : Create(t)
         \/ \E h \in Handlers, op \in Operations, t \in Transfers : Begin(h, op, t)
  PROVE  CallInv'
<1>1. ASSUME NEW t \in Transfers, Create(t) PROVE CallInv'
  <2>1. /\ handler' = handler /\ status[t] = "ABSENT"
        /\ status' = [status EXCEPT ![t] = "DRAFT"]
    BY <1>1 DEF Create
  <2>2. \A u \in Transfers : status[u] # "ABSENT" => status'[u] = status[u]
    BY <2>1 DEF TypeOK
  <2>3. \A h \in Handlers : handler[h] # Idle =>
          handler[h].id \in Transfers /\ status[handler[h].id] # "ABSENT"
    BY CallFields DEF CallInv
  <2>4. \A h \in Handlers : handler[h] # Idle => status'[handler[h].id] = status[handler[h].id]
    BY <2>2, <2>3
  <2> QED BY <2>1, <2>4 DEF CallInv, Claimed
<1>2. ASSUME NEW h \in Handlers, NEW op \in Operations, NEW t \in Transfers, Begin(h, op, t)
      PROVE  CallInv'
  <2>1. /\ status' = status /\ status[t] # "ABSENT"
        /\ op = "approveOrigin" => lines[t] # NoLines
    BY <1>2 DEF Begin, requestVars, Requires, Operations, Cancellable, Rejectable
  <2>2. /\ handler'[h].id = t /\ handler'[h].op = op /\ handler'[h].pc = "read"
        /\ op = "approveOrigin" => handler'[h].lines = lines[t]
        /\ \A k \in Handlers : k # h => handler'[k] = handler[k]
    BY <1>2 DEF Begin, TypeOK
  <2>3. ~Claimed(h)'
    BY <2>2 DEF Claimed
  <2> QED BY <2>1, <2>2, <2>3 DEF CallInv, Claimed
<1> QED BY <1>1, <1>2

LEMMA TypeProgress ==
  ASSUME TypeOK, CallInv, NEW h \in Handlers, Progress(h) \/ Abort(h)
  PROVE  TypeOK'
<1>1. handler[h] # Idle /\ status[handler[h].id] # "ABSENT"
  BY CallContinues DEF CallInv
<1>2. CASE \E p \in Products, q \in 1..MaxQty :
             AddItem(h, p, q) \/ UpdateItem(h, p, q)
  BY <1>2, TypeEdit
<1>3. CASE \E p \in Products : DeleteItem(h, p)
  <2>1. PICK p \in Products : DeleteItem(h, p)
    BY <1>3
  <2>2. MaxQty >= 1
    <3>1. lines[handler[h].id][p] \in 0..MaxQty
      BY <1>1, CallFields DEF TypeOK, Lines
    <3> QED BY <2>1, <3>1, TransferAssumption DEF DeleteItem
  <2>3. 1 \in 1..MaxQty
    BY <2>2, TransferAssumption
  <2> QED BY <2>1, <2>3, TypeEdit
<1>4. CASE DeleteLines(h)
  BY <1>4, TypeDeleteLines
<1>5. CASE DeleteRequest(h) \/ ClaimSubmit(h) \/ ApproveDestination(h)
  BY <1>5, TypeStatusSteps
<1>6. CASE (\E p \in Products : CheckAvailable(h, p) \/ ReadBalances(h, p)) \/ ClaimOrigin(h)
  BY <1>6, TypeReads
<1>7. CASE ApproveOrigin(h)
  BY <1>1, <1>7, TypeApproveOrigin
<1>8. CASE Reject(h) \/ Cancel(h)
  BY <1>8, TypeEndRequest
<1>9. CASE \E p \in Products : StampLine(h, p)
  BY <1>1, <1>9, TypeStampLine
<1>10. CASE Finalize(h)
  BY <1>10, TypeFinalize
<1>11. CASE Refuse(h) \/ Abort(h)
  BY <1>11, TypeReturns
<1> QED
  BY <1>2, <1>3, <1>4, <1>5, <1>6, <1>7, <1>8, <1>9, <1>10, <1>11 DEF Progress

\* The steps of Next, for the proofs that go through them.
LEMMA NextSteps ==
  ASSUME Next
  PROVE  \/ \E t \in Transfers : Create(t)
         \/ \E h \in Handlers, op \in Operations, t \in Transfers : Begin(h, op, t)
         \/ \E h \in Handlers : Progress(h) \/ Abort(h)
         \/ \E r \in Rows, change \in Int, source \in OtherSources :
              Adjust(r, change, source) /\ -MaxChange <= change /\ change <= MaxChange
BY StockAssumption, TransferAssumption DEF Next, TransferNext

LEMMA TypeStep == TypeOK /\ CallInv /\ [Next]_vars => TypeOK' /\ CallInv'
<1> SUFFICES ASSUME TypeOK, CallInv, [Next]_vars PROVE TypeOK' /\ CallInv'
  OBVIOUS
<1>1. CASE \E t \in Transfers : Create(t)
  BY <1>1, TypeCreate, CallInvEnter
<1>2. CASE \E h \in Handlers, op \in Operations, t \in Transfers : Begin(h, op, t)
  BY <1>2, TypeBegin, CallInvEnter
<1>3. CASE \E h \in Handlers : Progress(h) \/ Abort(h)
  BY <1>3, TypeProgress, CallInvProgress
<1>4. ASSUME NEW r \in Rows, NEW change \in Int, NEW source \in OtherSources,
             Adjust(r, change, source)
      PROVE  TypeOK' /\ CallInv'
  <2>1. CallInv'
    BY <1>4 DEF Adjust, requestVars, CallInv, Claimed
  <2> QED BY <1>4, <2>1, TypeAdjust
<1>5. CASE UNCHANGED vars
  BY <1>5 DEF vars, TypeOK, CallInv, Claimed
<1> QED BY <1>1, <1>2, <1>3, <1>4, <1>5, NextSteps

\* Type correctness: every table and every call in flight keeps its shape, and a
\* request that exists keeps a route between two different locations.
THEOREM TypeCorrect == Spec => []TypeOK
<1>1. Init => TypeOK /\ CallInv
  BY TypeInit DEF Init, CallInv, Claimed
<1> QED BY <1>1, TypeStep, PTL DEF Spec

\* An origin approval whose transaction is open is the only one on its request,
\* and no other call moves the request from SUBMITTED meanwhile.
THEOREM ClaimsExclude == Spec => []CallInv
<1>1. Init => TypeOK /\ CallInv
  BY TypeInit DEF Init, CallInv, Claimed
<1> QED BY <1>1, TypeStep, PTL DEF Spec

-----------------------------------------------------------------------------
(* The lifecycle. *)

\* What a step of a call may do to the tables, apart from the lines and stamps.
Quiet == UNCHANGED <<onHand, reservedQty, ledger, status, route, reservation>>

LEMMA CallEffects ==
  ASSUME NEW h \in Handlers, Progress(h) \/ Abort(h)
  PROVE  \/ Quiet
         \/ DeleteRequest(h) \/ ClaimSubmit(h) \/ ApproveDestination(h)
         \/ ApproveOrigin(h)
         \/ Reject(h) \/ Cancel(h)
         \/ Finalize(h)
BY DEF Progress, Abort, Quiet, AddItem, UpdateItem, DeleteItem, DeleteLines, CheckAvailable,
       ClaimOrigin, ReadBalances, StampLine, Refuse, requestVars, stockVars

-----------------------------------------------------------------------------
\* The lifecycle.

\* Every step changes the status of at most one request, and as allowed.
LEMMA StatusMoves ==
  ASSUME TypeOK, CallInv, [Next]_vars
  PROVE  \/ status' = status
         \/ \E t \in Transfers, to \in Statuses :
              Allowed(status[t], to) /\ status' = [status EXCEPT ![t] = to]
<1> USE DEF Allowed, Statuses, Live, Cancellable, Rejectable, Terminal
<1>1. CASE \E t \in Transfers : Create(t)
  BY <1>1 DEF Create
<1>2. CASE \E h \in Handlers, op \in Operations, t \in Transfers : Begin(h, op, t)
  BY <1>2 DEF Begin, requestVars
<1>3. ASSUME NEW h \in Handlers, Progress(h) \/ Abort(h)
      PROVE  \/ status' = status
             \/ \E t \in Transfers, to \in Statuses :
                  Allowed(status[t], to) /\ status' = [status EXCEPT ![t] = to]
  <2> DEFINE t == handler[h].id
  <2>1. handler[h] # Idle /\ t \in Transfers
    BY <1>3, CallContinues
  <2>2. CASE Quiet
    BY <2>2 DEF Quiet
  <2>3. CASE DeleteRequest(h)
    BY <2>1, <2>3 DEF DeleteRequest
  <2>4. CASE ClaimSubmit(h)
    BY <2>1, <2>4 DEF ClaimSubmit
  <2>5. CASE ApproveDestination(h)
    BY <2>1, <2>5 DEF ApproveDestination
  <2>6. CASE ApproveOrigin(h)
    <3>1. status[t] = "SUBMITTED"
      BY <2>6 DEF ApproveOrigin, At, CallInv, Claimed
    <3> QED BY <2>1, <2>6, <3>1 DEF ApproveOrigin
  <2>7. CASE Reject(h)
    BY <2>1, <2>7 DEF Reject, EndRequest
  <2>8. CASE Cancel(h)
    BY <2>1, <2>8 DEF Cancel, EndRequest
  <2>9. CASE Finalize(h)
    BY <2>1, <2>9 DEF Finalize
  <2> QED BY <1>3, <2>2, <2>3, <2>4, <2>5, <2>6, <2>7, <2>8, <2>9, CallEffects
<1>4. CASE \E r \in Rows, change \in Int, source \in OtherSources : Adjust(r, change, source)
  BY <1>4 DEF Adjust, requestVars
<1>5. CASE UNCHANGED vars
  BY <1>5 DEF vars
<1> QED BY <1>1, <1>2, <1>3, <1>4, <1>5, NextSteps

\* No interleaving of calls takes a request off the documented lifecycle: no late
\* submit, approval, rejection, cancellation or finalization revives it or skips
\* a step.
THEOREM LifecycleKept == Spec => LifecycleOrder
<1>1. TypeOK /\ CallInv /\ [Next]_vars =>
        [\A t \in Transfers : status'[t] # status[t] => Allowed(status[t], status'[t])]_status
  <2> SUFFICES ASSUME TypeOK, CallInv, [Next]_vars, NEW t \in Transfers, status'[t] # status[t]
               PROVE  Allowed(status[t], status'[t])
    OBVIOUS
  <2>1. PICK u \in Transfers, to \in Statuses :
          Allowed(status[u], to) /\ status' = [status EXCEPT ![u] = to]
    BY StatusMoves
  <2> QED BY <2>1 DEF TypeOK
<1>2. Spec => [][\A t \in Transfers : status'[t] # status[t] => Allowed(status[t], status'[t])]_status
  BY <1>1, TypeCorrect, ClaimsExclude, PTL DEF Spec
<1> QED BY <1>2 DEF LifecycleOrder

-----------------------------------------------------------------------------
\* The reservations of a request.

\* Settling changes the ACTIVE reservations of one request, and only their status.
LEMMA SettledIs ==
  ASSUME TypeOK, NEW t \in Transfers, NEW st \in {"RELEASED", "CONSUMED"}
  PROVE  /\ \A u \in Transfers : u # t => Settled(t, st)[u] = reservation[u]
         /\ \A p \in Products :
              /\ Settled(t, st)[t][p].st = (IF Active(t, p) THEN st ELSE reservation[t][p].st)
              /\ Settled(t, st)[t][p].qty = reservation[t][p].qty
<1> DEFINE R == [qty : 0..MaxQty, st : {"NONE", "ACTIVE", "RELEASED", "CONSUMED"}]
           new == [p \in Products |->
              IF Active(t, p) THEN [reservation[t][p] EXCEPT !.st = st] ELSE reservation[t][p]]
<1>1. reservation \in [Transfers -> [Products -> R]]
  BY DEF TypeOK
<1>2. \A p \in Products : reservation[t][p] \in R
  BY <1>1
<1>3. Settled(t, st) = [reservation EXCEPT ![t] = new]
  BY DEF Settled
<1>4. \A p \in Products :
        /\ new[p].st = (IF Active(t, p) THEN st ELSE reservation[t][p].st)
        /\ new[p].qty = reservation[t][p].qty
  BY <1>2
<1> HIDE DEF new
<1>5. Settled(t, st)[t] = new /\ \A u \in Transfers : u # t => Settled(t, st)[u] = reservation[u]
  BY <1>1, <1>3
<1> QED BY <1>4, <1>5

\* What an origin approval reserves.
LEMMA ApprovalIs ==
  ASSUME TypeOK, CallInv, NEW h \in Handlers, ApproveOrigin(h)
  PROVE  /\ handler[h].id \in Transfers /\ status[handler[h].id] = "SUBMITTED"
         /\ handler[h].lines \in [Products -> 0..MaxQty]
         /\ \E p \in Products : handler[h].lines[p] > 0
         /\ \A u \in Transfers : u # handler[h].id => reservation'[u] = reservation[u]
         /\ \A p \in Products :
              /\ reservation'[handler[h].id][p].qty = handler[h].lines[p]
              /\ reservation'[handler[h].id][p].st =
                   IF handler[h].lines[p] > 0 THEN "ACTIVE" ELSE "NONE"
<1>1. /\ handler[h] # Idle /\ handler[h].id \in Transfers
      /\ handler[h].lines \in [Products -> 0..MaxQty]
  BY CallFields DEF ApproveOrigin, At, Lines
<1>2. status[handler[h].id] = "SUBMITTED" /\ handler[h].lines # NoLines
  BY DEF ApproveOrigin, At, CallInv, Claimed
<1>3. \E p \in Products : handler[h].lines[p] > 0
  <2> SUFFICES ASSUME \A p \in Products : ~(handler[h].lines[p] > 0) PROVE FALSE
    OBVIOUS
  <2>1. \A p \in Products : handler[h].lines[p] = 0
    <3> TAKE p \in Products
    <3>1. handler[h].lines[p] \in 0..MaxQty /\ ~(handler[h].lines[p] > 0)
      BY <1>1
    <3> QED BY <3>1, TransferAssumption
  <2>2. handler[h].lines = NoLines
    BY <1>1, <2>1 DEF NoLines
  <2> QED BY <1>2, <2>2
<1> DEFINE new == [p \in Products |->
         IF handler[h].lines[p] > 0 THEN [qty |-> handler[h].lines[p], st |-> "ACTIVE"]
         ELSE NoReservation]
<1>4. \A p \in Products :
        /\ new[p].qty = handler[h].lines[p]
        /\ new[p].st = IF handler[h].lines[p] > 0 THEN "ACTIVE" ELSE "NONE"
  <2> TAKE p \in Products
  <2>1. CASE handler[h].lines[p] > 0
    BY <2>1
  <2>2. CASE ~(handler[h].lines[p] > 0)
    <3>1. handler[h].lines[p] \in 0..MaxQty
      BY <1>1
    <3>2. handler[h].lines[p] = 0
      BY <2>2, <3>1, TransferAssumption
    <3>3. new[p] = NoReservation
      BY <2>2
    <3> QED BY <2>2, <3>2, <3>3 DEF NoReservation
  <2> QED BY <2>1, <2>2
<1>5. reservation' = [reservation EXCEPT ![handler[h].id] = new]
  BY DEF ApproveOrigin
<1> HIDE DEF new
<1>6. /\ reservation'[handler[h].id] = new
      /\ \A u \in Transfers : u # handler[h].id => reservation'[u] = reservation[u]
  BY <1>1, <1>5 DEF TypeOK
<1> QED BY <1>1, <1>2, <1>3, <1>4, <1>6

\* Reservations hold something as long as they are ACTIVE.
HeldPositive == \A t \in Transfers, p \in Products : Active(t, p) => reservation[t][p].qty > 0

ReservationInv == ReservationsMatchStatus /\ HeldPositive

\* What ReservationInv says of one request whose status is s.
Sound(s, res) == Agree(s, res) /\ \A p \in Products : res[p].st = "ACTIVE" => res[p].qty > 0

LEMMA ReservationInvIs ==
  /\ ReservationInv = \A t \in Transfers : Sound(status[t], reservation[t])
  /\ ReservationInv' = \A t \in Transfers : Sound(status'[t], reservation'[t])
BY DEF ReservationInv, ReservationsMatchStatus, HeldPositive, Sound, Agree, Active

LEMMA ReservationProgress ==
  ASSUME TypeOK, CallInv, ReservationInv, NEW h \in Handlers, Progress(h) \/ Abort(h)
  PROVE  ReservationInv'
<1> DEFINE t == handler[h].id
<1>1. handler[h] # Idle /\ t \in Transfers
  BY CallContinues
<1>2. \A u \in Transfers : Sound(status[u], reservation[u])
  BY ReservationInvIs
<1> SUFFICES ASSUME NEW u \in Transfers PROVE Sound(status'[u], reservation'[u])
  BY ReservationInvIs
<1>3. CASE Quiet
  BY <1>2, <1>3 DEF Quiet
<1>4. CASE DeleteRequest(h) \/ ClaimSubmit(h) \/ ApproveDestination(h)
  <2>1. reservation' = reservation
    BY <1>4 DEF DeleteRequest, ClaimSubmit, ApproveDestination
  <2>2. CASE u # t
    BY <1>2, <1>4, <2>1, <2>2 DEF DeleteRequest, ClaimSubmit, ApproveDestination, TypeOK
  <2>3. CASE u = t
    <3>1. \/ status'[u] = "DELETED"
          \/ status[u] = "DRAFT" /\ status'[u] = "SUBMITTED"
          \/ status[u] = "ORIGIN_MANAGER_APPROVED" /\ status'[u] = "READY_TO_FINALIZE"
      BY <1>4, <2>3 DEF DeleteRequest, ClaimSubmit, ApproveDestination, TypeOK
    <3> QED BY <1>2, <2>1, <3>1 DEF Sound, Agree, Reserved
  <2> QED BY <2>2, <2>3
<1>5. CASE ApproveOrigin(h)
  <2>1. CASE u # t
    <3>1. status'[u] = status[u] /\ reservation'[u] = reservation[u]
      BY <1>5, <2>1, ApprovalIs DEF ApproveOrigin, TypeOK
    <3> QED BY <1>2, <3>1
  <2>2. CASE u = t
    <3>1. status'[u] = "ORIGIN_MANAGER_APPROVED"
      BY <1>5, <2>2 DEF ApproveOrigin, TypeOK
    <3>2. PICK q \in Products : handler[h].lines[q] > 0
      BY <1>5, ApprovalIs
    <3>3. \A p \in Products :
            /\ reservation'[u][p].qty = handler[h].lines[p]
            /\ reservation'[u][p].st = IF handler[h].lines[p] > 0 THEN "ACTIVE" ELSE "NONE"
      BY <1>5, <2>2, ApprovalIs
    <3>4. \A p \in Products :
            \/ reservation'[u][p].st = "ACTIVE" /\ reservation'[u][p].qty > 0
            \/ reservation'[u][p].st = "NONE"
      BY <3>3
    <3>5. reservation'[u][q].st = "ACTIVE"
      BY <3>2, <3>3
    <3> QED BY <3>1, <3>4, <3>5 DEF Sound, Agree, Reserved
  <2> QED BY <2>1, <2>2
<1>6. CASE Reject(h) \/ Cancel(h)
  <2>1. PICK to \in {"REJECTED", "CANCELLED"} : status' = [status EXCEPT ![t] = to]
    BY <1>6 DEF Reject, Cancel, EndRequest
  <2>2. reservation' = reservation \/ reservation' = Settled(t, "RELEASED")
    BY <1>6 DEF Reject, Cancel, EndRequest, Release
  <2>3. CASE u # t
    <3>1. status'[u] = status[u] /\ reservation'[u] = reservation[u]
      <4>1. status'[u] = status[u]
        BY <2>1, <2>3 DEF TypeOK
      <4>2. Settled(t, "RELEASED")[u] = reservation[u]
        BY <1>1, <2>3, SettledIs
      <4>3. reservation'[u] = reservation[u]
        BY <2>2, <4>2
      <4> QED BY <4>1, <4>3
    <3> QED BY <1>2, <3>1
  <2>4. CASE u = t
    <3>1. status'[u] = to
      BY <2>1, <2>4 DEF TypeOK
    <3>2. status[u] \in {"SUBMITTED"} \cup Reserved
      BY <1>6, <2>4 DEF Reject, Cancel, EndRequest, Rejectable, Cancellable, Reserved
    <3>3. \A p \in Products : reservation[u][p].st # "CONSUMED"
      BY <1>2, <3>2 DEF Sound, Agree
    <3>4. \A p \in Products : reservation'[u][p].st # "CONSUMED"
      BY <2>2, <2>4, <3>3, SettledIs
    <3>5. \A p \in Products : reservation'[u][p].st = "ACTIVE" => reservation'[u][p].qty > 0
      BY <1>2, <2>2, <2>4, SettledIs DEF Sound, Active
    <3> QED BY <3>1, <3>4, <3>5 DEF Sound, Agree, Reserved
  <2> QED BY <2>3, <2>4
<1>7. CASE Finalize(h)
  <2>1. /\ status[t] = "READY_TO_FINALIZE" /\ status' = [status EXCEPT ![t] = "FINALIZED"]
        /\ reservation' = Settled(t, "CONSUMED")
        /\ \E p \in Products : Active(t, p)
    BY <1>7 DEF Finalize, CanConsume
  <2>2. CASE u # t
    <3>1. status'[u] = status[u] /\ reservation'[u] = reservation[u]
      BY <1>1, <2>1, <2>2, SettledIs DEF TypeOK
    <3> QED BY <1>2, <3>1
  <2>3. CASE u = t
    <3>1. status'[u] = "FINALIZED"
      BY <2>1, <2>3 DEF TypeOK
    <3>2. \A p \in Products : reservation[u][p].st \notin {"RELEASED", "CONSUMED"}
      BY <1>2, <2>1, <2>3 DEF Sound, Agree, Reserved
    <3>3. \A p \in Products :
            reservation'[u][p].st = IF Active(u, p) THEN "CONSUMED" ELSE reservation[u][p].st
      BY <2>1, <2>3, SettledIs
    <3>4. \E p \in Products : reservation'[u][p].st = "CONSUMED"
      BY <2>1, <2>3, <3>3
    <3>5. \A p \in Products : reservation'[u][p].st \notin {"RELEASED", "ACTIVE"}
      BY <3>2, <3>3 DEF Active
    <3> QED BY <3>1, <3>4, <3>5 DEF Sound, Agree, Reserved
  <2> QED BY <2>2, <2>3
<1> QED BY <1>3, <1>4, <1>5, <1>6, <1>7, CallEffects

LEMMA ReservationStep ==
  TypeOK /\ CallInv /\ ReservationInv /\ [Next]_vars => ReservationInv'
<1> SUFFICES ASSUME TypeOK, CallInv, ReservationInv, [Next]_vars PROVE ReservationInv'
  OBVIOUS
<1>1. ASSUME NEW t \in Transfers, Create(t) PROVE ReservationInv'
  <2> SUFFICES ASSUME NEW u \in Transfers PROVE Sound(status'[u], reservation'[u])
    BY ReservationInvIs
  <2>1. Sound(status[u], reservation[u]) /\ reservation' = reservation
    BY <1>1, ReservationInvIs DEF Create
  <2>2. status'[u] = status[u] \/ (status[u] = "ABSENT" /\ status'[u] = "DRAFT")
    BY <1>1 DEF Create, TypeOK
  <2> QED BY <2>1, <2>2 DEF Sound, Agree, Reserved
<1>2. CASE \E h \in Handlers, op \in Operations, t \in Transfers : Begin(h, op, t)
  BY <1>2, ReservationInvIs DEF Begin, requestVars
<1>3. CASE \E h \in Handlers : Progress(h) \/ Abort(h)
  BY <1>3, ReservationProgress
<1>4. CASE \E r \in Rows, change \in Int, source \in OtherSources : Adjust(r, change, source)
  BY <1>4, ReservationInvIs DEF Adjust, requestVars
<1>5. CASE UNCHANGED vars
  BY <1>5, ReservationInvIs DEF vars
<1> QED BY <1>1, <1>2, <1>3, <1>4, <1>5, NextSteps

LEMMA ReservationInit == Init => ReservationInv
<1> SUFFICES ASSUME Init, NEW t \in Transfers PROVE Sound(status[t], reservation[t])
  BY ReservationInvIs
<1>1. status[t] = "ABSENT" /\ \A p \in Products : reservation[t][p].st = "NONE"
  BY DEF Init, NoReservation
<1> QED BY <1>1 DEF Sound, Agree, Reserved

\* The reservations of every request agree with its status, whatever calls race.
THEOREM ReservationsCorrect == Spec => []ReservationsMatchStatus
<1>1. Init => TypeOK /\ CallInv /\ ReservationInv
  BY TypeInit, ReservationInit DEF Init, CallInv, Claimed
<1>2. ReservationInv => ReservationsMatchStatus
  BY DEF ReservationInv
<1> QED BY <1>1, <1>2, TypeStep, ReservationStep, PTL DEF Spec

-----------------------------------------------------------------------------
\* The cached reserved quantity.

\* What a request with reservations res and the route rt holds of a row.
HeldOf(res, rt, r) ==
  IF res[r[1]].st = "ACTIVE" /\ r[2] = rt.src THEN res[r[1]].qty ELSE 0

LEMMA HeldIs ==
  \A t \in Transfers, r \in Rows : HeldQty(t, r) = HeldOf(reservation[t], route[t], r)
BY DEF HeldQty, HeldOf, Active

LEMMA ActiveIs ==
  ASSUME NEW r \in Rows
  PROVE  /\ ActiveQty(r) = SumFunctionOnSet(
              [t \in Transfers |-> HeldOf(reservation[t], route[t], r)], Transfers)
         /\ ActiveQty(r)' = SumFunctionOnSet(
              [t \in Transfers |-> HeldOf(reservation'[t], route'[t], r)], Transfers)
BY DEF ActiveQty, HeldQty, HeldOf, Active

LEMMA HeldOfNat ==
  ASSUME NEW all \in Reservations, NEW t \in Transfers, NEW rt, NEW r \in Rows
  PROVE  HeldOf(all[t], rt, r) \in Nat
<1>1. r[1] \in Products
  BY DEF Rows
<1>2. all[t][r[1]].qty \in 0..MaxQty
  BY <1>1 DEF Reservations
<1> QED BY <1>2, TransferAssumption DEF HeldOf

\* A step that changes the reservations or the route of one request keeps the
\* cache right when it adds to it what the request holds more.
LEMMA CacheChange ==
  ASSUME TypeOK, TypeOK', CacheMatchesReservations, NEW t \in Transfers,
         \A u \in Transfers : u # t => reservation'[u] = reservation[u] /\ route'[u] = route[u],
         \A r \in Rows : reservedQty'[r] = reservedQty[r] +
           (HeldOf(reservation'[t], route'[t], r) - HeldOf(reservation[t], route[t], r))
  PROVE  CacheMatchesReservations'
<1> SUFFICES ASSUME NEW r \in Rows PROVE reservedQty'[r] = ActiveQty(r)'
  BY DEF CacheMatchesReservations
<1> DEFINE f == [u \in Transfers |-> HeldOf(reservation[u], route[u], r)]
           g == [u \in Transfers |-> HeldOf(reservation'[u], route'[u], r)]
<1>1. reservation \in Reservations /\ reservation' \in Reservations
  BY DEF TypeOK, Reservations
<1>2. f \in [Transfers -> Int] /\ g \in [Transfers -> Int]
  BY <1>1, HeldOfNat
<1>3. \A u \in Transfers : u # t => g[u] = f[u]
  OBVIOUS
<1>4. reservedQty[r] = SumFunctionOnSet(f, Transfers)
  BY ActiveIs DEF CacheMatchesReservations
<1>5. ActiveQty(r)' = SumFunctionOnSet(g, Transfers)
  BY ActiveIs
<1>6. reservedQty'[r] = reservedQty[r] + (g[t] - f[t])
  OBVIOUS
<1> HIDE DEF f, g
<1>7. SumFunctionOnSet(g, Transfers) = SumFunctionOnSet(f, Transfers) + (g[t] - f[t])
  BY <1>2, <1>3, SumChange, TransferAssumption
<1> QED BY <1>4, <1>5, <1>6, <1>7

\* A step that keeps the cache, the reservations and the routes.
LEMMA CacheKept ==
  ASSUME CacheMatchesReservations, UNCHANGED <<reservedQty, reservation, route>>
  PROVE  CacheMatchesReservations'
<1> SUFFICES ASSUME NEW r \in Rows PROVE reservedQty'[r] = ActiveQty(r)'
  BY DEF CacheMatchesReservations
<1> QED BY ActiveIs DEF CacheMatchesReservations

\* The changes of the cache that settling a request makes.
LEMMA CacheSettled ==
  ASSUME TypeOK, TypeOK', CacheMatchesReservations, NEW t \in Transfers,
         NEW st \in {"RELEASED", "CONSUMED"},
         reservation' = Settled(t, st), Hold([r \in Rows |-> -HeldQty(t, r)]), route' = route
  PROVE  CacheMatchesReservations'
<1>1. \A u \in Transfers : u # t => reservation'[u] = reservation[u]
  BY SettledIs
<1>2. ASSUME NEW r \in Rows
      PROVE  reservedQty'[r] = reservedQty[r] +
               (HeldOf(reservation'[t], route'[t], r) - HeldOf(reservation[t], route[t], r))
  <2>1. r[1] \in Products
    BY DEF Rows
  <2>2. reservation'[t][r[1]].st # "ACTIVE"
    BY <2>1, SettledIs DEF Active
  <2>3. HeldOf(reservation'[t], route'[t], r) = 0
    BY <2>2 DEF HeldOf
  <2>4. HeldQty(t, r) \in Nat /\ HeldQty(t, r) = HeldOf(reservation[t], route[t], r)
    BY HeldType, HeldIs
  <2>5. reservedQty'[r] = reservedQty[r] + (-HeldQty(t, r)) /\ reservedQty[r] \in Int
    BY DEF Hold, TypeOK
  <2> QED BY <2>3, <2>4, <2>5
<1> QED BY <1>1, <1>2, CacheChange

LEMMA CacheApproved ==
  ASSUME TypeOK, TypeOK', CallInv, ReservationInv, CacheMatchesReservations,
         NEW h \in Handlers, ApproveOrigin(h)
  PROVE  CacheMatchesReservations'
<1> DEFINE t == handler[h].id
           wanted == handler[h].lines
<1>1. /\ t \in Transfers /\ status[t] = "SUBMITTED" /\ wanted \in [Products -> 0..MaxQty]
      /\ route' = route
      /\ \A u \in Transfers : u # t => reservation'[u] = reservation[u]
      /\ \A p \in Products : /\ reservation'[t][p].qty = wanted[p]
                             /\ reservation'[t][p].st = IF wanted[p] > 0 THEN "ACTIVE" ELSE "NONE"
  BY ApprovalIs DEF ApproveOrigin
<1>2. \A p \in Products : reservation[t][p].st # "ACTIVE"
  BY <1>1 DEF ReservationInv, ReservationsMatchStatus, Agree
<1>3. ASSUME NEW r \in Rows
      PROVE  reservedQty'[r] = reservedQty[r] +
               (HeldOf(reservation'[t], route'[t], r) - HeldOf(reservation[t], route[t], r))
  <2>1. r[1] \in Products
    BY DEF Rows
  <2>2. wanted[r[1]] \in 0..MaxQty
    BY <1>1, <2>1
  <2>3. HeldOf(reservation[t], route[t], r) = 0
    BY <1>2, <2>1 DEF HeldOf
  <2>4. reservedQty'[r] = reservedQty[r] + (IF r[2] = route[t].src THEN wanted[r[1]] ELSE 0)
        /\ reservedQty[r] \in Int
    BY DEF ApproveOrigin, Hold, TypeOK
  <2>5. CASE wanted[r[1]] > 0
    <3>1. HeldOf(reservation'[t], route'[t], r) = IF r[2] = route[t].src THEN wanted[r[1]] ELSE 0
      BY <1>1, <2>1, <2>5 DEF HeldOf
    <3> QED BY <2>2, <2>3, <2>4, <3>1, TransferAssumption
  <2>6. CASE ~(wanted[r[1]] > 0)
    <3>1. wanted[r[1]] = 0
      BY <2>2, <2>6, TransferAssumption
    <3>2. HeldOf(reservation'[t], route'[t], r) = 0
      BY <1>1, <2>1, <2>6 DEF HeldOf
    <3> QED BY <2>3, <2>4, <3>1, <3>2
  <2> QED BY <2>5, <2>6
<1> QED BY <1>1, <1>3, CacheChange

LEMMA CacheStep ==
  TypeOK /\ TypeOK' /\ CallInv /\ ReservationInv /\ CacheMatchesReservations /\ [Next]_vars
    => CacheMatchesReservations'
<1> SUFFICES ASSUME TypeOK, TypeOK', CallInv, ReservationInv, CacheMatchesReservations, [Next]_vars
             PROVE  CacheMatchesReservations'
  OBVIOUS
<1>1. ASSUME NEW t \in Transfers, Create(t) PROVE CacheMatchesReservations'
  <2>1. \A p \in Products : reservation[t][p].st # "ACTIVE"
    BY <1>1 DEF Create, ReservationInv, ReservationsMatchStatus, Agree
  <2>2. /\ reservation' = reservation /\ reservedQty' = reservedQty
        /\ \A u \in Transfers : u # t => route'[u] = route[u]
    BY <1>1 DEF Create, stockVars, TypeOK
  <2>3. ASSUME NEW r \in Rows
        PROVE  reservedQty'[r] = reservedQty[r] +
                 (HeldOf(reservation'[t], route'[t], r) - HeldOf(reservation[t], route[t], r))
    <3>1. r[1] \in Products
      BY DEF Rows
    <3>2. HeldOf(reservation'[t], route'[t], r) = 0 /\ HeldOf(reservation[t], route[t], r) = 0
      BY <2>1, <2>2, <3>1 DEF HeldOf
    <3>3. reservedQty[r] \in Int
      BY DEF TypeOK
    <3> QED BY <2>2, <3>2, <3>3
  <2> QED BY <2>2, <2>3, CacheChange
<1>2. CASE \E h \in Handlers, op \in Operations, t \in Transfers : Begin(h, op, t)
  BY <1>2, CacheKept DEF Begin, requestVars, stockVars
<1>3. ASSUME NEW h \in Handlers, Progress(h) \/ Abort(h) PROVE CacheMatchesReservations'
  <2> DEFINE t == handler[h].id
  <2>1. t \in Transfers
    BY <1>3, CallContinues
  <2>2. route' = route
    BY <1>3 DEF Progress, Abort, AddItem, UpdateItem, DeleteItem, DeleteLines, DeleteRequest,
         CheckAvailable, ClaimSubmit, ClaimOrigin, ApproveOrigin, ApproveDestination, Reject,
         Cancel, EndRequest, ReadBalances, StampLine, Finalize, Refuse, requestVars
  <2>3. CASE Quiet
    BY <2>2, <2>3, CacheKept DEF Quiet
  <2>4. CASE DeleteRequest(h) \/ ClaimSubmit(h) \/ ApproveDestination(h)
    BY <2>4, CacheKept DEF DeleteRequest, ClaimSubmit, ApproveDestination, stockVars
  <2>5. CASE ApproveOrigin(h)
    BY <2>5, CacheApproved
  <2>6. CASE Reject(h) \/ Cancel(h)
    <3>1. CASE UNCHANGED <<reservation, reservedQty>>
      BY <2>2, <3>1, CacheKept
    <3>2. CASE Release(t)
      BY <2>1, <2>2, <3>2, CacheSettled DEF Release
    <3> QED BY <2>6, <3>1, <3>2 DEF Reject, Cancel, EndRequest
  <2>7. CASE Finalize(h)
    BY <2>1, <2>2, <2>7, CacheSettled DEF Finalize
  <2> QED BY <1>3, <2>3, <2>4, <2>5, <2>6, <2>7, CallEffects
<1>4. CASE \E r \in Rows, change \in Int, source \in OtherSources : Adjust(r, change, source)
  BY <1>4, CacheKept DEF Adjust, ApplyAdjustment, requestVars
<1>5. CASE UNCHANGED vars
  BY <1>5, CacheKept DEF vars
<1> QED BY <1>1, <1>2, <1>3, <1>4, <1>5, NextSteps

LEMMA CacheInit == Init => CacheMatchesReservations
<1> SUFFICES ASSUME Init, NEW r \in Rows PROVE reservedQty[r] = ActiveQty(r)
  BY DEF CacheMatchesReservations
<1> DEFINE f == [t \in Transfers |-> HeldQty(t, r)]
<1>1. r[1] \in Products
  BY DEF Rows
<1>2. \A t \in Transfers : HeldQty(t, r) = 0
  BY <1>1 DEF Init, HeldQty, Active, NoReservation
<1>3. f \in [Transfers -> Int] /\ \A t \in Transfers : f[t] = 0
  BY <1>2
<1>4. SumFunctionOnSet(f, Transfers) = 0
  <2> HIDE DEF f
  <2> QED BY <1>3, SumOfZeros, TransferAssumption
<1>5. reservedQty[r] = 0
  BY DEF Init, StockInit
<1> QED BY <1>4, <1>5 DEF ActiveQty

\* The reserved quantity on the balance row is the sum of the ACTIVE reservations
\* of the row after every transaction, for any number of requests and rows.
THEOREM CacheCorrect == Spec => []CacheMatchesReservations
<1>1. Init => TypeOK /\ CallInv /\ ReservationInv /\ CacheMatchesReservations
  BY TypeInit, ReservationInit, CacheInit DEF Init, CallInv, Claimed
<1> QED BY <1>1, TypeStep, ReservationStep, CacheStep, PTL DEF Spec

-----------------------------------------------------------------------------
\* The balances and the ledger.

\* The steps that change a balance or the ledger: finalizing a transfer and
\* finalizing an adjustment line.
LEMMA BalanceSteps ==
  ASSUME [Next]_vars
  PROVE  \/ UNCHANGED <<onHand, ledger>>
         \/ \E h \in Handlers : Finalize(h)
         \/ \E r \in Rows, change \in Int, source \in OtherSources :
              Adjust(r, change, source) /\ -MaxChange <= change /\ change <= MaxChange
<1>1. CASE \E t \in Transfers : Create(t)
  BY <1>1 DEF Create, stockVars
<1>2. CASE \E h \in Handlers, op \in Operations, t \in Transfers : Begin(h, op, t)
  BY <1>2 DEF Begin, stockVars
<1>3. CASE \E h \in Handlers : Progress(h) \/ Abort(h)
  BY <1>3, CallEffects
  DEF Quiet, DeleteRequest, ClaimSubmit, ApproveDestination, ApproveOrigin, Reject, Cancel,
      EndRequest, stockVars
<1>4. CASE UNCHANGED vars
  BY <1>4 DEF vars
<1> QED BY <1>1, <1>2, <1>3, <1>4, NextSteps

\* What finalizing a transfer posts, and that it fits.
LEMMA FinalizeIs ==
  ASSUME TypeOK, NEW h \in Handlers, Finalize(h)
  PROVE  /\ handler[h].id \in Transfers /\ status[handler[h].id] = "READY_TO_FINALIZE"
         /\ route[handler[h].id] \in [src : Locations, dst : Locations]
         /\ route[handler[h].id].src # route[handler[h].id].dst
         /\ Post(Posting(handler[h].id), PostingKind(handler[h].id), handler[h].id)
         /\ reservation' = Settled(handler[h].id, "CONSUMED")
         /\ \A r \in Rows : HeldQty(handler[h].id, r) <= onHand[r]
         /\ route' = route
         /\ status' = [status EXCEPT ![handler[h].id] = "FINALIZED"]
<1>1. handler[h] # Idle
  BY DEF Finalize, At
<1>2. handler[h].id \in Transfers /\ status[handler[h].id] = "READY_TO_FINALIZE"
  BY <1>1, CallFields DEF Finalize
<1>3. Post(Posting(handler[h].id), PostingKind(handler[h].id), handler[h].id)
  BY DEF Finalize, Posting, PostingKind
<1>4. \A r \in Rows : HeldQty(handler[h].id, r) <= onHand[r]
  BY DEF Finalize, CanConsume
<1> QED BY <1>2, <1>3, <1>4 DEF Finalize, TypeOK

LEMMA AdjustIs ==
  ASSUME NEW r \in Rows, NEW change \in Int, NEW source \in OtherSources,
         Adjust(r, change, source)
  PROVE  /\ Post(AdjustPosting(r, change), [x \in Rows |-> "ADJUSTMENT"], source)
         /\ change < 0 => onHand[r] - reservedQty[r] + change >= 0
         /\ AdjustPosting(r, change) \in [Rows -> Int]
         /\ [x \in Rows |-> "ADJUSTMENT"] \in [Rows -> EntryKinds]
BY DEF Adjust, ApplyAdjustment, CanAdjust, AdjustPosting, EntryKinds

LEMMA OnHandStep ==
  TypeOK /\ CacheMatchesReservations /\ OnHandNonNegative /\ [Next]_vars => OnHandNonNegative'
<1> SUFFICES ASSUME TypeOK, CacheMatchesReservations, OnHandNonNegative, [Next]_vars,
                    NEW r \in Rows
             PROVE  onHand'[r] >= 0
  BY DEF OnHandNonNegative
<1>1. onHand[r] >= 0 /\ onHand[r] \in Int
  BY DEF OnHandNonNegative, TypeOK
<1>2. CASE UNCHANGED <<onHand, ledger>>
  BY <1>1, <1>2
<1>3. ASSUME NEW h \in Handlers, Finalize(h) PROVE onHand'[r] >= 0
  <2> DEFINE t == handler[h].id
             in == IF Active(t, r[1]) /\ r[2] = route[t].dst THEN reservation[t][r[1]].qty ELSE 0
  <2>1. /\ t \in Transfers /\ HeldQty(t, r) <= onHand[r]
        /\ onHand'[r] = onHand[r] + (in - HeldQty(t, r))
    BY <1>3, FinalizeIs DEF Post, Posting
  <2>2. in \in Nat
    <3>1. r[1] \in Products
      BY DEF Rows
    <3>2. reservation[t][r[1]].qty \in 0..MaxQty
      BY <2>1, <3>1 DEF TypeOK
    <3> QED BY <3>2, TransferAssumption
  <2>3. HeldQty(t, r) \in Nat
    BY <2>1, HeldType
  <2> HIDE DEF in
  <2> QED BY <1>1, <2>1, <2>2, <2>3
<1>4. ASSUME NEW x \in Rows, NEW change \in Int, NEW source \in OtherSources,
             Adjust(x, change, source)
      PROVE  onHand'[r] >= 0
  <2>1. /\ onHand'[r] = onHand[r] + (IF r = x THEN change ELSE 0)
        /\ change < 0 => onHand[x] - reservedQty[x] + change >= 0
    BY <1>4, AdjustIs DEF Post, AdjustPosting
  <2>2. reservedQty[x] \in Nat
    BY ActiveQtyType DEF CacheMatchesReservations
  <2> QED BY <1>1, <2>1, <2>2
<1> QED BY <1>2, <1>3, <1>4, BalanceSteps

\* No race of reservations, finalizations and adjustments drives a balance below
\* zero.  NoOverReservation is not needed for it, and does not hold at REPEATABLE
\* READ: the test on the locked source row is what keeps the balance.
THEOREM OnHandCorrect == Spec => []OnHandNonNegative
<1>1. Init => TypeOK /\ CallInv /\ ReservationInv /\ CacheMatchesReservations /\ OnHandNonNegative
  BY TypeInit, ReservationInit, CacheInit, StockAssumption
  DEF Init, StockInit, CallInv, Claimed, OnHandNonNegative
<1> QED BY <1>1, TypeStep, ReservationStep, CacheStep, OnHandStep, PTL DEF Spec

LEMMA LedgerStep ==
  TypeOK /\ LedgerExplainsBalance /\ [Next]_vars => LedgerExplainsBalance'
<1> SUFFICES ASSUME TypeOK, LedgerExplainsBalance, [Next]_vars PROVE LedgerExplainsBalance'
  OBVIOUS
<1>1. onHand \in [Rows -> Int] /\ ledger \in [Rows -> Seq(Entry(Sources))]
  BY DEF TypeOK, Sources
<1>2. CASE UNCHANGED <<onHand, ledger>>
  BY <1>2 DEF LedgerExplainsBalance, Chained, BalanceBefore
<1>3. ASSUME NEW h \in Handlers, Finalize(h) PROVE LedgerExplainsBalance'
  <2>1. /\ handler[h].id \in Sources
        /\ Post(Posting(handler[h].id), PostingKind(handler[h].id), handler[h].id)
        /\ Posting(handler[h].id) \in [Rows -> Int]
        /\ PostingKind(handler[h].id) \in [Rows -> EntryKinds]
    BY <1>3, FinalizeIs, PostingType DEF Sources
  <2> QED BY <1>1, <2>1, PostKeepsLedger
<1>4. ASSUME NEW x \in Rows, NEW change \in Int, NEW source \in OtherSources,
             Adjust(x, change, source)
      PROVE  LedgerExplainsBalance'
  <2> DEFINE delta == AdjustPosting(x, change)
             kind == [y \in Rows |-> "ADJUSTMENT"]
  <2>1. source \in Sources
    BY DEF Sources
  <2>2. /\ Post(delta, kind, source)
        /\ delta \in [Rows -> Int] /\ kind \in [Rows -> EntryKinds]
    BY <1>4, AdjustIs
  <2> HIDE DEF delta, kind
  <2> QED BY <1>1, <2>1, <2>2, PostKeepsLedger
<1> QED BY <1>2, <1>3, <1>4, BalanceSteps

LEMMA LedgerInit == Init => LedgerExplainsBalance
BY DEF Init, StockInit, LedgerExplainsBalance, Chained, BalanceBefore

\* Every balance is the end of an unbroken chain of ledger entries, whichever
\* transactions wrote them.
THEOREM LedgerCorrect == Spec => []LedgerExplainsBalance
<1>1. Init => TypeOK /\ CallInv /\ LedgerExplainsBalance
  BY TypeInit, LedgerInit DEF Init, CallInv, Claimed
<1> QED BY <1>1, TypeStep, LedgerStep, PTL DEF Spec

-----------------------------------------------------------------------------
\* How more gets reserved of a row than is on hand.

\* With the cache right, the shortfall of a row is read off its balance row.
LEMMA ShortfallIs ==
  ASSUME CacheMatchesReservations, CacheMatchesReservations', NEW r \in Rows
  PROVE  /\ Shortfall(r) = reservedQty[r] - onHand[r]
         /\ Shortfall(r)' = reservedQty'[r] - onHand'[r]
BY DEF Shortfall, CacheMatchesReservations

\* An origin approval reserves no more than it finds available beside the
\* reservations it sees.
LEMMA ShortfallApproved ==
  ASSUME TypeOK, CacheMatchesReservations, CacheMatchesReservations', NEW r \in Rows,
         NEW h \in Handlers, ApproveOrigin(h), Shortfall(r)' > Shortfall(r)
  PROVE  /\ At(h, "approveOrigin", "claimed")
         /\ Shortfall(r)' <= ActiveQty(r) - AggregateSeen(h, r)
<1> DEFINE t == handler[h].id
           wanted == handler[h].lines
           seen == handler[h].read[r]
<1>1. handler[h] # Idle /\ At(h, "approveOrigin", "claimed")
  BY DEF ApproveOrigin, At
<1>2. wanted \in [Products -> 0..MaxQty] /\ r[1] \in Products /\ seen \in Int
  BY <1>1, CallFields DEF Lines, Rows
<1>3. wanted[r[1]] \in Nat
  BY <1>2, TransferAssumption
<1>4. /\ onHand' = onHand /\ onHand[r] \in Int /\ reservedQty[r] \in Int
      /\ reservedQty'[r] = reservedQty[r] + (IF r[2] = route[t].src THEN wanted[r[1]] ELSE 0)
  BY DEF ApproveOrigin, Hold, TypeOK
<1>5. r[2] = route[t].src /\ wanted[r[1]] > 0 => wanted[r[1]] <= onHand[r] - seen
  BY DEF ApproveOrigin, CanReserve, AggregateSeen
<1>6. ActiveQty(r) = reservedQty[r] /\ AggregateSeen(h, r) = seen
  BY DEF CacheMatchesReservations, AggregateSeen
<1> HIDE DEF wanted, t, seen
<1> QED BY <1>1, <1>2, <1>3, <1>4, <1>5, <1>6, ShortfallIs

\* What finalizing a transfer leaves short of a row was short before it.
LEMMA ShortfallFinalized ==
  ASSUME TypeOK, NEW h \in Handlers, Finalize(h), NEW r \in Rows
  PROVE  reservedQty'[r] - onHand'[r] <= reservedQty[r] - onHand[r]
<1> DEFINE t == handler[h].id
           in == IF Active(t, r[1]) /\ r[2] = route[t].dst THEN reservation[t][r[1]].qty ELSE 0
<1>1. t \in Transfers /\ onHand'[r] = onHand[r] + (in - HeldQty(t, r))
  BY FinalizeIs DEF Post, Posting
<1>2. in \in Nat
  <2>1. r[1] \in Products
    BY DEF Rows
  <2>2. reservation[t][r[1]].qty \in 0..MaxQty
    BY <1>1, <2>1 DEF TypeOK
  <2> QED BY <2>2, TransferAssumption
<1>3. reservedQty'[r] = reservedQty[r] + (-HeldQty(t, r))
  BY DEF Finalize, Hold
<1>4. HeldQty(t, r) \in Nat
  BY <1>1, HeldType
<1>5. reservedQty[r] \in Int /\ onHand[r] \in Int
  BY DEF TypeOK
<1> HIDE DEF in, t
<1> QED BY <1>1, <1>2, <1>3, <1>4, <1>5

\* A rejection or a cancellation takes nothing from a row and reserves nothing.
LEMMA ShortfallEnded ==
  ASSUME TypeOK, NEW h \in Handlers, Reject(h) \/ Cancel(h), NEW r \in Rows
  PROVE  reservedQty'[r] - onHand'[r] <= reservedQty[r] - onHand[r]
<1> DEFINE t == handler[h].id
<1>1. onHand' = onHand /\ onHand[r] \in Int /\ reservedQty[r] \in Int
  BY DEF Reject, Cancel, EndRequest, TypeOK
<1>2. CASE UNCHANGED <<reservation, reservedQty>>
  BY <1>1, <1>2
<1>3. CASE Release(t)
  <2>1. t \in Transfers
    BY CallFields DEF Reject, Cancel, At
  <2>2. HeldQty(t, r) \in Nat
    BY <2>1, HeldType
  <2>3. reservedQty'[r] = reservedQty[r] + (-HeldQty(t, r))
    BY <1>3 DEF Release, Hold
  <2> QED BY <1>1, <2>2, <2>3
<1> QED BY <1>2, <1>3 DEF Reject, Cancel, EndRequest

LEMMA ShortfallStep ==
  TypeOK /\ CacheMatchesReservations /\ CacheMatchesReservations' /\ [Next]_vars => NoNewShortfall
<1> SUFFICES ASSUME TypeOK, CacheMatchesReservations, CacheMatchesReservations', [Next]_vars,
                    NEW r \in Rows, Shortfall(r)' > 0, Shortfall(r)' > Shortfall(r)
             PROVE  \E h \in Handlers : /\ At(h, "approveOrigin", "claimed")
                                        /\ Shortfall(r)' <= ActiveQty(r) - AggregateSeen(h, r)
  BY DEF NoNewShortfall
<1>1. reservedQty[r] \in Int /\ onHand[r] \in Int
  BY DEF TypeOK
<1>2. UNCHANGED <<onHand, reservedQty>> => FALSE
  BY <1>1, ShortfallIs
<1>3. ASSUME NEW h \in Handlers, Progress(h) \/ Abort(h)
      PROVE  ApproveOrigin(h)
  <2>1. CASE Quiet \/ DeleteRequest(h) \/ ClaimSubmit(h) \/ ApproveDestination(h)
    BY <1>2, <2>1 DEF Quiet, DeleteRequest, ClaimSubmit, ApproveDestination, stockVars
  <2>2. CASE Reject(h) \/ Cancel(h)
    <3>1. reservedQty'[r] - onHand'[r] <= reservedQty[r] - onHand[r]
      BY <2>2, ShortfallEnded
    <3>2. onHand' = onHand /\ reservedQty'[r] \in Int
      <4>1. /\ onHand' = onHand
            /\ reservedQty' = reservedQty \/ Hold([x \in Rows |-> -HeldQty(handler[h].id, x)])
        BY <2>2 DEF Reject, Cancel, EndRequest, Release
      <4>2. handler[h].id \in Transfers
        BY <2>2, CallFields DEF Reject, Cancel, At
      <4> QED BY <1>1, <4>1, <4>2, HeldType DEF Hold
    <3> QED BY <1>1, <3>1, <3>2, ShortfallIs
  <2>3. CASE Finalize(h)
    <3>1. reservedQty'[r] - onHand'[r] <= reservedQty[r] - onHand[r]
      BY <2>3, ShortfallFinalized
    <3>2. onHand'[r] \in Int /\ reservedQty'[r] \in Int
      <4>1. handler[h].id \in Transfers /\ Post(Posting(handler[h].id), PostingKind(handler[h].id), handler[h].id)
        BY <2>3, FinalizeIs
      <4>2. Posting(handler[h].id) \in [Rows -> Int]
        BY <2>3, <4>1, FinalizeIs, PostingType
      <4>3. onHand'[r] \in Int
        BY <1>1, <4>1, <4>2 DEF Post
      <4>4. reservedQty'[r] = reservedQty[r] + (-HeldQty(handler[h].id, r))
        BY <2>3 DEF Finalize, Hold
      <4> QED BY <1>1, <4>1, <4>3, <4>4, HeldType
    <3> QED BY <1>1, <3>1, <3>2, ShortfallIs
  <2> QED BY <1>3, <2>1, <2>2, <2>3, CallEffects
<1>4. ASSUME NEW x \in Rows, NEW change \in Int, NEW source \in OtherSources,
             Adjust(x, change, source)
      PROVE  FALSE
  <2>1. /\ onHand'[r] = onHand[r] + (IF r = x THEN change ELSE 0)
        /\ change < 0 => onHand[x] - reservedQty[x] + change >= 0
    BY <1>4, AdjustIs DEF Post, AdjustPosting
  <2>2. reservedQty' = reservedQty
    BY <1>4 DEF Adjust, ApplyAdjustment
  <2> QED BY <1>1, <2>1, <2>2, ShortfallIs
<1>5. CASE (\E t \in Transfers : Create(t))
        \/ (\E h \in Handlers, op \in Operations, t \in Transfers : Begin(h, op, t))
        \/ UNCHANGED vars
  BY <1>2, <1>5 DEF Create, Begin, stockVars, vars
<1>6. ASSUME NEW h \in Handlers, ApproveOrigin(h)
      PROVE  /\ At(h, "approveOrigin", "claimed")
             /\ Shortfall(r)' <= ActiveQty(r) - AggregateSeen(h, r)
  BY <1>6, ShortfallApproved
<1> QED BY <1>3, <1>4, <1>5, <1>6, NextSteps

\* More gets reserved of a row than is on hand only by an approval whose read view
\* is older than its row lock, and by no more than others reserved in between:
\* no finalization, release, adjustment or approval on its own does it.
THEOREM OverReservedOnlyByOverlap == Spec => ShortfallOnlyByOverlap
<1>1. Init => TypeOK /\ CallInv /\ ReservationInv /\ CacheMatchesReservations
  BY TypeInit, ReservationInit, CacheInit DEF Init, CallInv, Claimed
<1>2. Spec => [][NoNewShortfall]_<<onHand, reservation>>
  <2>1. /\ TypeOK /\ CacheMatchesReservations /\ CacheMatchesReservations' /\ [Next]_vars
        => [NoNewShortfall]_<<onHand, reservation>>
    BY ShortfallStep
  <2> QED BY <1>1, <2>1, TypeStep, ReservationStep, CacheStep, PTL DEF Spec
<1> QED BY <1>2 DEF ShortfallOnlyByOverlap

-----------------------------------------------------------------------------
(* A transfer moves its goods exactly once and completely, and with that       *)
(* TransferWorkflow implements StockBook.                                      *)

\* The entries of a source and a kind in the ledger of one row.
EntriesOf(entries, source, kind) ==
  {k \in DOMAIN entries : entries[k].source = source /\ entries[k].kind = kind}

LEMMA EntriesIs ==
  ASSUME NEW r, NEW source, NEW kind
  PROVE  Entries(r, source, kind) = EntriesOf(ledger[r], source, kind)
BY DEF Entries, EntriesOf

\* What posting does to the ledger of a row.
LEMMA PostedEntries ==
  ASSUME TypeOK, NEW delta \in [Rows -> Int], NEW kind \in [Rows -> EntryKinds],
         NEW source \in Sources, Post(delta, kind, source), NEW r \in Rows
  PROVE  /\ Len(ledger[r]) \in Nat
         /\ DOMAIN ledger[r] = 1..Len(ledger[r])
         /\ \A k \in 1..Len(ledger[r]) : ledger'[r][k] = ledger[r][k]
         /\ delta[r] = 0 => DOMAIN ledger'[r] = 1..Len(ledger[r])
         /\ delta[r] # 0 =>
              /\ DOMAIN ledger'[r] = 1..(Len(ledger[r]) + 1)
              /\ ledger'[r][Len(ledger[r]) + 1].source = source
              /\ ledger'[r][Len(ledger[r]) + 1].kind = kind[r]
              /\ ledger'[r][Len(ledger[r]) + 1].change = delta[r]
<1> DEFINE new == [change |-> delta[r], after |-> onHand[r] + delta[r],
                   kind |-> kind[r], source |-> source]
<1>1. ledger[r] \in Seq(Entry(Sources)) /\ onHand[r] \in Int
  BY DEF TypeOK, Sources
<1>2. new \in Entry(Sources)
  BY <1>1 DEF Entry
<1>3. ledger'[r] = IF delta[r] = 0 THEN ledger[r] ELSE Append(ledger[r], new)
  BY DEF Post
<1>4. new.source = source /\ new.kind = kind[r] /\ new.change = delta[r]
  OBVIOUS
<1> HIDE DEF new
<1>5. /\ Len(ledger[r]) \in Nat
      /\ DOMAIN ledger[r] = 1..Len(ledger[r])
      /\ DOMAIN Append(ledger[r], new) = 1..(Len(ledger[r]) + 1)
      /\ \A k \in 1..Len(ledger[r]) : Append(ledger[r], new)[k] = ledger[r][k]
      /\ Append(ledger[r], new)[Len(ledger[r]) + 1] = new
  BY <1>1, <1>2, AppendEntry
<1> QED BY <1>3, <1>4, <1>5

\* The entries of other sources stay what they are.
LEMMA OthersKept ==
  ASSUME TypeOK, NEW delta \in [Rows -> Int], NEW kind \in [Rows -> EntryKinds],
         NEW source \in Sources, Post(delta, kind, source), NEW r \in Rows,
         NEW s, s # source, NEW kd
  PROVE  /\ EntriesOf(ledger'[r], s, kd) = EntriesOf(ledger[r], s, kd)
         /\ \A k \in EntriesOf(ledger[r], s, kd) : ledger'[r][k] = ledger[r][k]
<1>1. /\ Len(ledger[r]) \in Nat
      /\ DOMAIN ledger[r] = 1..Len(ledger[r])
      /\ \A k \in 1..Len(ledger[r]) : ledger'[r][k] = ledger[r][k]
      /\ delta[r] = 0 => DOMAIN ledger'[r] = 1..Len(ledger[r])
      /\ delta[r] # 0 =>
           /\ DOMAIN ledger'[r] = 1..(Len(ledger[r]) + 1)
           /\ ledger'[r][Len(ledger[r]) + 1].source = source
  BY PostedEntries
<1>2. \A k : k \in DOMAIN ledger'[r] /\ ledger'[r][k].source = s => k \in DOMAIN ledger[r]
  BY <1>1
<1>3. \A k \in DOMAIN ledger[r] : k \in DOMAIN ledger'[r] /\ ledger'[r][k] = ledger[r][k]
  BY <1>1
<1> QED BY <1>2, <1>3 DEF EntriesOf

\* An entry of another source was there before.
LEMMA OldEntry ==
  ASSUME TypeOK, NEW delta \in [Rows -> Int], NEW kind \in [Rows -> EntryKinds],
         NEW source \in Sources, Post(delta, kind, source), NEW r \in Rows,
         NEW k \in DOMAIN ledger'[r], ledger'[r][k].source # source
  PROVE  k \in DOMAIN ledger[r] /\ ledger[r][k] = ledger'[r][k]
<1>1. /\ Len(ledger[r]) \in Nat
      /\ DOMAIN ledger[r] = 1..Len(ledger[r])
      /\ \A j \in 1..Len(ledger[r]) : ledger'[r][j] = ledger[r][j]
      /\ delta[r] = 0 => DOMAIN ledger'[r] = 1..Len(ledger[r])
      /\ delta[r] # 0 =>
           /\ DOMAIN ledger'[r] = 1..(Len(ledger[r]) + 1)
           /\ ledger'[r][Len(ledger[r]) + 1].source = source
  BY PostedEntries
<1> QED BY <1>1

\* The entries of a source that had none.
LEMMA FirstEntry ==
  ASSUME TypeOK, NEW delta \in [Rows -> Int], NEW kind \in [Rows -> EntryKinds],
         NEW source \in Sources, Post(delta, kind, source), NEW r \in Rows,
         \A k \in DOMAIN ledger[r] : ledger[r][k].source # source, delta[r] # 0
  PROVE  \E k \in EntriesOf(ledger'[r], source, kind[r]) :
           EntriesOf(ledger'[r], source, kind[r]) = {k} /\ ledger'[r][k].change = delta[r]
<1> DEFINE n == Len(ledger[r]) + 1
<1>1. /\ Len(ledger[r]) \in Nat
      /\ DOMAIN ledger[r] = 1..Len(ledger[r])
      /\ \A k \in 1..Len(ledger[r]) : ledger'[r][k] = ledger[r][k]
      /\ DOMAIN ledger'[r] = 1..n
      /\ ledger'[r][n].source = source
      /\ ledger'[r][n].kind = kind[r]
      /\ ledger'[r][n].change = delta[r]
  BY PostedEntries
<1>2. \A k \in 1..n : k = n \/ k \in 1..Len(ledger[r])
  BY <1>1
<1>3. \A k \in 1..Len(ledger[r]) : ledger'[r][k].source # source
  BY <1>1
<1>4. n \in 1..n
  BY <1>1
<1>5. EntriesOf(ledger'[r], source, kind[r]) = {n}
  BY <1>1, <1>2, <1>3, <1>4 DEF EntriesOf
<1> QED BY <1>1, <1>5

-----------------------------------------------------------------------------
\* Which reservations are CONSUMED, and by which steps they become it.

\* Only a finalization consumes, and what was consumed stays as it is.
LEMMA ConsumedKept ==
  ASSUME TypeOK, CallInv, ReservationInv, [Next]_vars, ~ \E h \in Handlers : Finalize(h),
         NEW u \in Transfers, NEW p \in Products
  PROVE  /\ reservation'[u][p].st = "CONSUMED" <=> reservation[u][p].st = "CONSUMED"
         /\ reservation[u][p].st = "CONSUMED" => reservation'[u][p].qty = reservation[u][p].qty
<1>1. CASE UNCHANGED reservation
  BY <1>1
<1>2. CASE \E h \in Handlers : Progress(h) \/ Abort(h)
  <2>1. PICK h \in Handlers : Progress(h) \/ Abort(h)
    BY <1>2
  <2> DEFINE t == handler[h].id
  <2>2. t \in Transfers
    BY <2>1, CallContinues
  <2>3. CASE ApproveOrigin(h)
    <3>1. status[t] = "SUBMITTED"
      BY <2>3, ApprovalIs
    <3>2. \A q \in Products : reservation[t][q].st # "CONSUMED" /\ reservation'[t][q].st # "CONSUMED"
      BY <2>2, <2>3, <3>1, ApprovalIs DEF ReservationInv, ReservationsMatchStatus, Agree
    <3>3. u # t => reservation'[u] = reservation[u]
      BY <2>3, ApprovalIs
    <3> QED BY <3>2, <3>3
  <2>4. CASE reservation' = Settled(t, "RELEASED")
    <3>1. u # t => reservation'[u] = reservation[u]
      BY <2>2, <2>4, SettledIs
    <3>2. u = t => /\ reservation'[u][p].st = (IF Active(u, p) THEN "RELEASED" ELSE reservation[u][p].st)
                   /\ reservation'[u][p].qty = reservation[u][p].qty
      BY <2>2, <2>4, SettledIs
    <3> QED BY <3>1, <3>2 DEF Active
  <2> QED
    BY <1>1, <2>1, <2>3, <2>4, CallEffects
    DEF Quiet, DeleteRequest, ClaimSubmit, ApproveDestination, Reject, Cancel, EndRequest, Release
<1> QED BY <1>1, <1>2, NextSteps DEF Create, Begin, Adjust, requestVars, vars

\* A finalization consumes what its request holds, and nothing else.
LEMMA ConsumedByFinalize ==
  ASSUME TypeOK, ReservationInv, NEW h \in Handlers, Finalize(h), NEW p \in Products
  PROVE  LET t == handler[h].id IN
         /\ \A u \in Transfers : u # t => reservation'[u] = reservation[u]
         /\ reservation[t][p].st # "CONSUMED"
         /\ reservation'[t][p].st = "CONSUMED" <=> Active(t, p)
         /\ reservation'[t][p].qty = reservation[t][p].qty
         /\ Active(t, p) => reservation[t][p].qty \in 1..MaxQty
<1> DEFINE t == handler[h].id
<1>1. t \in Transfers /\ status[t] = "READY_TO_FINALIZE" /\ reservation' = Settled(t, "CONSUMED")
  BY FinalizeIs
<1>2. reservation[t][p].st # "CONSUMED"
  BY <1>1 DEF ReservationInv, ReservationsMatchStatus, Agree, Reserved
<1>3. reservation[t][p].qty \in 0..MaxQty /\ (Active(t, p) => reservation[t][p].qty > 0)
  BY <1>1 DEF TypeOK, ReservationInv, HeldPositive
<1>4. Active(t, p) => reservation[t][p].qty \in 1..MaxQty
  BY <1>3, TransferAssumption
<1> QED BY <1>1, <1>2, <1>4, SettledIs

-----------------------------------------------------------------------------
\* The entries of a transfer exist only for what it has consumed.
PostedWhenConsumed ==
  \A t \in Transfers, r \in Rows : \A k \in DOMAIN ledger[r] :
    ledger[r][k].source = t => reservation[t][r[1]].st = "CONSUMED"

LEMMA PostedInit == Init => PostedWhenConsumed
BY DEF Init, StockInit, PostedWhenConsumed

LEMMA PostedStep ==
  TypeOK /\ CallInv /\ ReservationInv /\ PostedWhenConsumed /\ [Next]_vars => PostedWhenConsumed'
<1> SUFFICES ASSUME TypeOK, CallInv, ReservationInv, PostedWhenConsumed, [Next]_vars,
                    NEW u \in Transfers, NEW r \in Rows, NEW k \in DOMAIN ledger'[r],
                    ledger'[r][k].source = u
             PROVE  reservation'[u][r[1]].st = "CONSUMED"
  BY DEF PostedWhenConsumed
<1> DEFINE p == r[1]
<1>1. p \in Products
  BY DEF Rows
<1>2. k \in DOMAIN ledger[r] /\ ledger[r][k].source = u => reservation[u][p].st = "CONSUMED"
  BY DEF PostedWhenConsumed
<1>3. ASSUME NEW h \in Handlers, Finalize(h) PROVE reservation'[u][p].st = "CONSUMED"
  <2> DEFINE t == handler[h].id
             delta == Posting(t)
  <2>1. /\ t \in Transfers /\ t \in Sources /\ Post(delta, PostingKind(t), t)
        /\ delta \in [Rows -> Int] /\ PostingKind(t) \in [Rows -> EntryKinds]
    BY <1>3, FinalizeIs, PostingType DEF Sources
  <2>2. CASE u # t
    <3>1. k \in DOMAIN ledger[r] /\ ledger[r][k] = ledger'[r][k]
      BY <2>1, <2>2, OldEntry
    <3>3. reservation[u][p].st = "CONSUMED"
      BY <1>2, <3>1
    <3> QED BY <1>1, <1>3, <2>2, <3>3, ConsumedByFinalize
  <2>3. CASE u = t
    <3>1. reservation[t][p].st # "CONSUMED"
      BY <1>1, <1>3, ConsumedByFinalize
    <3>2. \A j \in DOMAIN ledger[r] : ledger[r][j].source # t
      BY <2>1, <3>1 DEF PostedWhenConsumed
    <3>3. delta[r] # 0
      BY <2>1, <2>3, <3>2, PostedEntries
    <3>4. Active(t, p)
      BY <3>3 DEF Posting, HeldQty
    <3> QED BY <1>1, <1>3, <2>3, <3>4, ConsumedByFinalize
  <2> QED BY <2>2, <2>3
<1>4. ASSUME ~ \E h \in Handlers : Finalize(h) PROVE reservation'[u][p].st = "CONSUMED"
  <2>1. k \in DOMAIN ledger[r] /\ ledger[r][k].source = u
    <3>1. CASE UNCHANGED <<onHand, ledger>>
      BY <3>1
    <3>2. ASSUME NEW x \in Rows, NEW change \in Int, NEW source \in OtherSources,
                 Adjust(x, change, source)
          PROVE  k \in DOMAIN ledger[r] /\ ledger[r][k].source = u
      <4> DEFINE delta == AdjustPosting(x, change)
                 kind == [y \in Rows |-> "ADJUSTMENT"]
      <4>1. source \in Sources /\ u # source
        BY TransferAssumption DEF Sources
      <4>2. /\ Post(delta, kind, source)
            /\ delta \in [Rows -> Int] /\ kind \in [Rows -> EntryKinds]
        BY <3>2, AdjustIs
      <4>3. k \in DOMAIN ledger[r] /\ ledger[r][k] = ledger'[r][k]
        <5> HIDE DEF delta, kind
        <5> QED BY <4>1, <4>2, OldEntry
      <4> QED BY <4>3
    <3> QED BY <1>4, <3>1, <3>2, BalanceSteps
  <2> QED BY <1>1, <1>2, <1>4, <2>1, ConsumedKept
<1> QED BY <1>3, <1>4

\* What MovedExactlyOnce says of the product p that request t holds as res, with
\* the entries out of and into its rows.
Complete(t, res, src, dst) ==
  /\ \E k \in EntriesOf(src, t, "TRANSFER_OUT") :
       EntriesOf(src, t, "TRANSFER_OUT") = {k} /\ src[k].change = -res.qty
  /\ \E k \in EntriesOf(dst, t, "TRANSFER_IN") :
       EntriesOf(dst, t, "TRANSFER_IN") = {k} /\ dst[k].change = res.qty

ConsumedIsMoved ==
  \A t \in Transfers, p \in Products : reservation[t][p].st = "CONSUMED" =>
    Complete(t, reservation[t][p], ledger[<<p, route[t].src>>], ledger[<<p, route[t].dst>>])

LEMMA RouteRows ==
  ASSUME TypeOK, ReservationInv, NEW t \in Transfers, NEW p \in Products,
         reservation[t][p].st = "CONSUMED" \/ status[t] # "ABSENT"
  PROVE  /\ status[t] # "ABSENT"
         /\ <<p, route[t].src>> \in Rows /\ <<p, route[t].dst>> \in Rows
         /\ route[t].src # route[t].dst
<1>1. status[t] # "ABSENT"
  BY DEF ReservationInv, ReservationsMatchStatus, Agree
<1>2. route[t] \in [src : Locations, dst : Locations] /\ route[t].src # route[t].dst
  BY <1>1 DEF TypeOK
<1>3. route[t].src \in Locations /\ route[t].dst \in Locations
  BY <1>2
<1> QED BY <1>1, <1>2, <1>3 DEF Rows

\* A complete movement stays complete when others post.
LEMMA CompleteKept ==
  ASSUME TypeOK, NEW delta \in [Rows -> Int], NEW kind \in [Rows -> EntryKinds],
         NEW source \in Sources, Post(delta, kind, source),
         NEW src \in Rows, NEW dst \in Rows, NEW t, t # source, NEW res,
         Complete(t, res, ledger[src], ledger[dst])
  PROVE  Complete(t, res, ledger'[src], ledger'[dst])
<1>1. /\ EntriesOf(ledger'[src], t, "TRANSFER_OUT") = EntriesOf(ledger[src], t, "TRANSFER_OUT")
      /\ \A k \in EntriesOf(ledger[src], t, "TRANSFER_OUT") : ledger'[src][k] = ledger[src][k]
  BY OthersKept
<1>2. /\ EntriesOf(ledger'[dst], t, "TRANSFER_IN") = EntriesOf(ledger[dst], t, "TRANSFER_IN")
      /\ \A k \in EntriesOf(ledger[dst], t, "TRANSFER_IN") : ledger'[dst][k] = ledger[dst][k]
  BY OthersKept
<1> QED BY <1>1, <1>2 DEF Complete

\* Routes are fixed once the request exists.
LEMMA RouteKept ==
  ASSUME TypeOK, [Next]_vars, NEW t \in Transfers, status[t] # "ABSENT"
  PROVE  route'[t] = route[t]
<1>1. CASE \E u \in Transfers : Create(u)
  BY <1>1 DEF Create, TypeOK
<1>2. CASE \E h \in Handlers : Progress(h) \/ Abort(h)
  BY <1>2, CallEffects
  DEF Quiet, DeleteRequest, ClaimSubmit, ApproveDestination, ApproveOrigin, Reject, Cancel,
      EndRequest, Finalize
<1> QED BY <1>1, <1>2, NextSteps DEF Begin, Adjust, requestVars, vars

LEMMA MovedStep ==
  TypeOK /\ CallInv /\ ReservationInv /\ PostedWhenConsumed /\ ConsumedIsMoved /\ [Next]_vars
    => ConsumedIsMoved'
<1> SUFFICES ASSUME TypeOK, CallInv, ReservationInv, PostedWhenConsumed, ConsumedIsMoved,
                    [Next]_vars, NEW u \in Transfers, NEW p \in Products,
                    reservation'[u][p].st = "CONSUMED"
             PROVE  Complete(u, reservation'[u][p],
                      ledger'[<<p, route'[u].src>>], ledger'[<<p, route'[u].dst>>])
  BY DEF ConsumedIsMoved
<1> DEFINE src == <<p, route[u].src>>
           dst == <<p, route[u].dst>>
<1>1. ASSUME reservation[u][p].st = "CONSUMED"
      PROVE  /\ Complete(u, reservation[u][p], ledger[src], ledger[dst])
             /\ src \in Rows /\ dst \in Rows /\ route'[u] = route[u]
  BY <1>1, RouteRows, RouteKept DEF ConsumedIsMoved
<1>2. ASSUME NEW h \in Handlers, Finalize(h)
      PROVE  Complete(u, reservation'[u][p],
               ledger'[<<p, route'[u].src>>], ledger'[<<p, route'[u].dst>>])
  <2> DEFINE t == handler[h].id
             delta == Posting(t)
             kind == PostingKind(t)
  <2>1. /\ t \in Transfers /\ t \in Sources /\ Post(delta, kind, t)
        /\ delta \in [Rows -> Int] /\ kind \in [Rows -> EntryKinds]
        /\ route' = route /\ status[t] # "ABSENT"
    BY <1>2, FinalizeIs, PostingType DEF Sources
  <2> HIDE DEF delta, kind
  <2>2. CASE u # t
    <3>1. reservation'[u] = reservation[u]
      BY <1>2, <2>2, ConsumedByFinalize
    <3> QED BY <1>1, <2>1, <2>2, <3>1, CompleteKept
  <2>3. CASE u = t
    <3>1. /\ Active(t, p) /\ reservation[t][p].st # "CONSUMED"
          /\ reservation'[t][p].qty = reservation[t][p].qty
          /\ reservation[t][p].qty \in 1..MaxQty
      BY <1>2, <2>3, ConsumedByFinalize
    <3>2. src \in Rows /\ dst \in Rows /\ route[t].src # route[t].dst
      BY <2>1, <2>3, RouteRows
    <3>3. /\ \A k \in DOMAIN ledger[src] : ledger[src][k].source # t
          /\ \A k \in DOMAIN ledger[dst] : ledger[dst][k].source # t
      BY <2>1, <3>1, <3>2 DEF PostedWhenConsumed
    <3>4. /\ delta[src] = -reservation[t][p].qty /\ delta[src] # 0
          /\ delta[dst] = reservation[t][p].qty /\ delta[dst] # 0
      <4>1. /\ delta[src] = 0 - reservation[t][p].qty
            /\ delta[dst] = reservation[t][p].qty - 0
        BY <2>3, <3>1, <3>2 DEF delta, Posting, HeldQty
      <4> QED BY <3>1, <4>1, TransferAssumption
    <3>5. kind[src] = "TRANSFER_OUT" /\ kind[dst] = "TRANSFER_IN"
      BY <2>3, <3>2 DEF kind, PostingKind
    <3>6. \E k \in EntriesOf(ledger'[src], t, "TRANSFER_OUT") :
            EntriesOf(ledger'[src], t, "TRANSFER_OUT") = {k} /\ ledger'[src][k].change = delta[src]
      <4>1. \E k \in EntriesOf(ledger'[src], t, kind[src]) :
              EntriesOf(ledger'[src], t, kind[src]) = {k} /\ ledger'[src][k].change = delta[src]
        <5> HIDE DEF t, src
        <5> QED BY <2>1, <3>2, <3>3, <3>4, FirstEntry
      <4> QED BY <3>5, <4>1
    <3>7. \E k \in EntriesOf(ledger'[dst], t, "TRANSFER_IN") :
            EntriesOf(ledger'[dst], t, "TRANSFER_IN") = {k} /\ ledger'[dst][k].change = delta[dst]
      <4>1. \E k \in EntriesOf(ledger'[dst], t, kind[dst]) :
              EntriesOf(ledger'[dst], t, kind[dst]) = {k} /\ ledger'[dst][k].change = delta[dst]
        <5> HIDE DEF t, dst
        <5> QED BY <2>1, <3>2, <3>3, <3>4, FirstEntry
      <4> QED BY <3>5, <4>1
    <3>8. Complete(t, reservation'[t][p], ledger'[src], ledger'[dst])
      BY <3>1, <3>4, <3>6, <3>7 DEF Complete
    <3> QED BY <2>1, <2>3, <3>8
  <2> QED BY <2>2, <2>3
<1>3. ASSUME ~ \E h \in Handlers : Finalize(h)
      PROVE  Complete(u, reservation'[u][p],
               ledger'[<<p, route'[u].src>>], ledger'[<<p, route'[u].dst>>])
  <2>1. reservation[u][p].st = "CONSUMED" /\ reservation'[u][p].qty = reservation[u][p].qty
    BY <1>3, ConsumedKept
  <2>2. Complete(u, reservation'[u][p], ledger[src], ledger[dst])
    BY <1>1, <2>1 DEF Complete
  <2>3. CASE UNCHANGED <<onHand, ledger>>
    BY <1>1, <2>1, <2>2, <2>3
  <2>4. ASSUME NEW x \in Rows, NEW change \in Int, NEW source \in OtherSources,
                 Adjust(x, change, source)
        PROVE  Complete(u, reservation'[u][p], ledger'[src], ledger'[dst])
    <3> DEFINE delta == AdjustPosting(x, change)
               kind == [y \in Rows |-> "ADJUSTMENT"]
    <3>1. source \in Sources /\ u # source
      BY TransferAssumption DEF Sources
    <3>2. /\ Post(delta, kind, source)
          /\ delta \in [Rows -> Int] /\ kind \in [Rows -> EntryKinds]
      BY <2>4, AdjustIs
    <3> HIDE DEF delta, kind
    <3> QED BY <1>1, <2>1, <2>2, <3>1, <3>2, CompleteKept
  <2> QED BY <1>1, <1>3, <2>1, <2>3, <2>4, BalanceSteps
<1> QED BY <1>2, <1>3

LEMMA MovedFollows ==
  TypeOK /\ ReservationInv /\ PostedWhenConsumed /\ ConsumedIsMoved => MovedExactlyOnce
<1> SUFFICES ASSUME TypeOK, ReservationInv, PostedWhenConsumed, ConsumedIsMoved,
                    NEW t \in Transfers, status[t] # "ABSENT", NEW p \in Products
             PROVE  LET res == reservation[t][p]
                        out == Entries(SrcRow(t, p), t, "TRANSFER_OUT")
                        in  == Entries(DstRow(t, p), t, "TRANSFER_IN")
                    IN  IF res.st = "CONSUMED"
                        THEN /\ \E k \in out : out = {k} /\ ledger[SrcRow(t, p)][k].change = -res.qty
                             /\ \E k \in in  : in = {k} /\ ledger[DstRow(t, p)][k].change = res.qty
                        ELSE out = {} /\ in = {}
  BY DEF MovedExactlyOnce
<1>1. SrcRow(t, p) \in Rows /\ DstRow(t, p) \in Rows
  BY RouteRows DEF SrcRow, DstRow
<1>2. CASE reservation[t][p].st = "CONSUMED"
  BY <1>2, EntriesIs DEF ConsumedIsMoved, Complete, SrcRow, DstRow
<1>3. CASE reservation[t][p].st # "CONSUMED"
  <2>1. /\ \A k \in DOMAIN ledger[SrcRow(t, p)] : ledger[SrcRow(t, p)][k].source # t
        /\ \A k \in DOMAIN ledger[DstRow(t, p)] : ledger[DstRow(t, p)][k].source # t
    BY <1>1, <1>3 DEF PostedWhenConsumed, SrcRow, DstRow
  <2> QED BY <1>3, <2>1 DEF Entries
<1> QED BY <1>2, <1>3

\* A transfer is moved exactly once and completely, whatever calls race on it.
THEOREM MovedCorrect == Spec => []MovedExactlyOnce
<1>1. Init => TypeOK /\ CallInv /\ ReservationInv /\ PostedWhenConsumed /\ ConsumedIsMoved
  <2>1. Init => ConsumedIsMoved
    BY DEF Init, NoReservation, ConsumedIsMoved
  <2> QED BY <2>1, TypeInit, ReservationInit, PostedInit DEF Init, CallInv, Claimed
<1> QED BY <1>1, TypeStep, ReservationStep, PostedStep, MovedStep, MovedFollows, PTL DEF Spec

-----------------------------------------------------------------------------
\* The refinement of the book of balances.

LEMMA MovedChanges ==
  ASSUME TypeOK, CallInv, ReservationInv, [Next]_vars, ~ \E h \in Handlers : Finalize(h)
  PROVE  Moved' = Moved
BY ConsumedKept DEF Moved

\* A finalization is a Move of its request.
LEMMA FinalizeMoves ==
  ASSUME TypeOK, ReservationInv, NEW h \in Handlers, Finalize(h)
  PROVE  Book!Move(handler[h].id)
<1> DEFINE t == handler[h].id
           qty == [p \in Products |-> IF Active(t, p) THEN reservation[t][p].qty ELSE 0]
<1>1. /\ t \in Transfers
      /\ route[t] \in [src : Locations, dst : Locations] /\ route[t].src # route[t].dst
      /\ Post(Posting(t), PostingKind(t), t)
      /\ \A r \in Rows : HeldQty(t, r) <= onHand[r]
  BY FinalizeIs
<1>2. /\ \A u \in Transfers : u # t => reservation'[u] = reservation[u]
      /\ \A p \in Products :
           /\ reservation[t][p].st # "CONSUMED"
           /\ reservation'[t][p].st = "CONSUMED" <=> Active(t, p)
  <2>1. reservation' = Settled(t, "CONSUMED")
    BY FinalizeIs
  <2>2. \A u \in Transfers : u # t => reservation'[u] = reservation[u]
    BY <1>1, <2>1, SettledIs
  <2>3. \A p \in Products :
          /\ reservation[t][p].st # "CONSUMED"
          /\ reservation'[t][p].st = "CONSUMED" <=> Active(t, p)
    BY ConsumedByFinalize
  <2> QED BY <2>2, <2>3
<1>3. t \notin Moved
  BY <1>2 DEF Moved
<1>4. \E p \in Products : Active(t, p)
  BY DEF Finalize, CanConsume
<1>5. Moved' = Moved \cup {t}
  <2>1. t \in Moved'
    BY <1>1, <1>2, <1>4 DEF Moved
  <2>2. \A u \in Transfers : u # t => (u \in Moved' <=> u \in Moved)
    BY <1>2 DEF Moved
  <2>3. Moved \in SUBSET Transfers /\ Moved' \in SUBSET Transfers
    BY DEF Moved
  <2> QED BY <1>1, <2>1, <2>2, <2>3
<1>6. \A p \in Products : reservation[t][p].qty \in 0..MaxQty
  BY <1>1 DEF TypeOK
<1>7. 0 \in 0..MaxQty
  BY TransferAssumption
<1>8. qty \in [Products -> 0..MaxQty]
  BY <1>6, <1>7
<1>9. route[t].src \in Locations /\ route[t].dst \in Locations
  BY <1>1
<1>10. \A r \in Rows : r[2] = route[t].src => qty[r[1]] <= onHand[r]
  <2> SUFFICES ASSUME NEW r \in Rows, r[2] = route[t].src PROVE qty[r[1]] <= onHand[r]
    OBVIOUS
  <2>1. qty[r[1]] = HeldQty(t, r)
    BY DEF HeldQty, Rows
  <2> QED BY <1>1, <2>1
<1>11. onHand' = [r \in Rows |->
         IF r[2] = route[t].src THEN onHand[r] - qty[r[1]]
         ELSE IF r[2] = route[t].dst THEN onHand[r] + qty[r[1]]
         ELSE onHand[r]]
  <2>1. ASSUME NEW r \in Rows
        PROVE  onHand[r] + Posting(t)[r] =
                 IF r[2] = route[t].src THEN onHand[r] - qty[r[1]]
                 ELSE IF r[2] = route[t].dst THEN onHand[r] + qty[r[1]]
                 ELSE onHand[r]
    <3>1. r[1] \in Products
      BY DEF Rows
    <3>2. onHand[r] \in Int /\ reservation[t][r[1]].qty \in 0..MaxQty
      BY <1>6, <3>1 DEF TypeOK
    <3>3. Posting(t)[r] =
            (IF Active(t, r[1]) /\ r[2] = route[t].dst THEN reservation[t][r[1]].qty ELSE 0)
            - (IF Active(t, r[1]) /\ r[2] = route[t].src THEN reservation[t][r[1]].qty ELSE 0)
      BY DEF Posting, HeldQty
    <3>4. qty[r[1]] = IF Active(t, r[1]) THEN reservation[t][r[1]].qty ELSE 0
      BY <3>1
    <3> HIDE DEF qty, t
    <3> QED BY <1>1, <3>2, <3>3, <3>4, TransferAssumption
  <2>2. onHand' = [r \in Rows |-> onHand[r] + Posting(t)[r]]
    BY <1>1 DEF Post
  <2> HIDE DEF qty, t
  <2> QED BY <2>1, <2>2
<1> HIDE DEF qty
<1> QED BY <1>1, <1>3, <1>5, <1>8, <1>9, <1>10, <1>11 DEF Book!Move, Book!BookRows, Rows

\* An adjustment is a correction.
LEMMA AdjustCorrects ==
  ASSUME TypeOK, TypeOK', OnHandNonNegative', Moved' = Moved
  PROVE  Book!Correct
<1>1. \A x \in Rows : onHand'[x] \in Nat
  BY DEF TypeOK, OnHandNonNegative
<1>2. onHand' \in [Rows -> Int]
  BY DEF TypeOK
<1>3. onHand' \in [Rows -> Nat]
  BY <1>1, <1>2
<1> QED BY <1>3 DEF Book!Correct, Book!BookRows, Rows

LEMMA BookStep ==
  TypeOK /\ TypeOK' /\ CallInv /\ ReservationInv /\ OnHandNonNegative' /\ [Next]_vars
    => [Book!BookNext]_(Book!bookVars)
<1> SUFFICES ASSUME TypeOK, TypeOK', CallInv, ReservationInv, OnHandNonNegative', [Next]_vars
             PROVE  Book!BookNext \/ UNCHANGED <<onHand, Moved>>
  BY DEF Book!bookVars
<1>1. ASSUME NEW h \in Handlers, Finalize(h) PROVE Book!BookNext
  BY <1>1, FinalizeIs, FinalizeMoves DEF Book!BookNext
<1>2. CASE ~ \E h \in Handlers : Finalize(h)
  <2>1. Moved' = Moved
    BY <1>2, MovedChanges
  <2> QED BY <2>1, AdjustCorrects DEF Book!BookNext
<1> QED BY <1>1, <1>2

\* The workflow implements the book: each request moves its goods at most once and
\* completely, every other change of a balance is a correction, and no step
\* overdraws a row.
THEOREM BookImplemented == Spec => ImplementsBook
<1>1. Init => TypeOK /\ CallInv /\ ReservationInv /\ CacheMatchesReservations /\ OnHandNonNegative
  BY TypeInit, ReservationInit, CacheInit, StockAssumption
  DEF Init, StockInit, CallInv, Claimed, OnHandNonNegative
<1>2. Init => Book!BookInit
  BY DEF Init, StockInit, NoReservation, Moved, Book!BookInit
<1>3. Spec => Book!BookInit /\ [][Book!BookNext]_(Book!bookVars)
  BY <1>1, <1>2, TypeStep, ReservationStep, CacheStep, OnHandStep, BookStep, PTL DEF Spec
<1> QED BY <1>3 DEF ImplementsBook, Book!BookSpec
=============================================================================
