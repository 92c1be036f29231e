----------------------------- MODULE SystemProofs -----------------------------
(***************************************************************************)
(* Proofs about transfers and adjustments over the same rows.  A step of     *)
(* the transfers is a step of TransferWorkflow, so its lemmas apply; a step  *)
(* of the adjustments leaves the requests, reservations and calls of the     *)
(* transfers alone, and what it does to stock and ledger is known from       *)
(* AdjustmentProofs.                                                         *)
(***************************************************************************)
EXTENDS System, TransferProofs, AdjustmentProofs

\* The entries of the ledger are those of transfers and of adjustments.
LEMMA SystemSources == Sources = Transfers \cup Adjustments /\ Adjustments \subseteq Sources
BY SystemAssumption DEF Sources

\* The stock of TypeOK has the shape that AdjustmentProofs speaks of.
LEMMA StockShapeIs ==
  /\ TypeOK => StockShape(Sources)
  /\ TypeOK /\ StockShape(Sources)' /\ UNCHANGED <<requestVars, handler>> => TypeOK'
BY DEF TypeOK, StockShape, Balances, Ledgers, Sources, requestVars

\* The invariant of the system: that of each workflow.
SystemInv ==
  /\ TypeOK /\ CallInv /\ ReservationInv /\ CacheMatchesReservations
  /\ OnHandNonNegative /\ LedgerExplainsBalance
  /\ PostedWhenConsumed /\ ConsumedIsMoved
  /\ CallsShape

\* Both workflows start from the same empty tables.
LEMMA SystemInvInit == SystemInit => SystemInv
<1> SUFFICES ASSUME Init, AInit PROVE SystemInv
  BY DEF SystemInit
<1>1. TypeOK /\ ReservationInv /\ CacheMatchesReservations /\ LedgerExplainsBalance
      /\ PostedWhenConsumed
  BY TypeInit, ReservationInit, CacheInit, LedgerInit, PostedInit
<1>2. CallInv
  BY DEF Init, CallInv, Claimed
<1>3. OnHandNonNegative
  BY StockAssumption DEF Init, StockInit, OnHandNonNegative
<1>4. ConsumedIsMoved
  BY DEF Init, NoReservation, ConsumedIsMoved
<1>5. CallsShape
  BY DEF AInit, CallsShape, AStatuses
<1> QED BY <1>1, <1>2, <1>3, <1>4, <1>5 DEF SystemInv

\* A step of the system is a step of one workflow, and leaves the other's own
\* variables alone.
LEMMA SystemSteps ==
  ASSUME [SystemNext]_systemVars
  PROVE  \/ [Next]_vars /\ UNCHANGED adjustVars
         \/ [ANext]_avars /\ UNCHANGED <<requestVars, handler>>
BY DEF SystemNext, systemVars, Next, vars, adjustVars

\* A step of the transfers keeps the invariant.
LEMMA TransferStepKeeps ==
  ASSUME SystemInv, [Next]_vars, UNCHANGED adjustVars
  PROVE  SystemInv'
<1>1. TypeOK' /\ CallInv'
  BY TypeStep DEF SystemInv
<1>2. ReservationInv'
  BY ReservationStep DEF SystemInv
<1>3. CacheMatchesReservations'
  BY <1>1, CacheStep DEF SystemInv
<1>4. OnHandNonNegative' /\ LedgerExplainsBalance'
  BY OnHandStep, LedgerStep DEF SystemInv
<1>5. PostedWhenConsumed' /\ ConsumedIsMoved'
  BY PostedStep, MovedStep DEF SystemInv
<1>6. CallsShape'
  BY DEF SystemInv, CallsShape, adjustVars
<1> QED BY <1>1, <1>2, <1>3, <1>4, <1>5, <1>6 DEF SystemInv

\* A step of the adjustments adds entries of adjustments only: those of another
\* source stay, and no new one appears.
LEMMA OthersEntriesStay ==
  ASSUME NEW S, Adjustments \subseteq S, StockShape(S), CallsShape, [ANext]_avars, NEW r \in Rows
  PROVE  /\ \A k \in DOMAIN ledger[r] : k \in DOMAIN ledger'[r] /\ ledger'[r][k] = ledger[r][k]
         /\ \A k \in DOMAIN ledger'[r] :
              ledger'[r][k].source \notin Adjustments => k \in DOMAIN ledger[r]
<1>1. CASE UNCHANGED stockVars
  BY <1>1 DEF stockVars
<1>2. ASSUME NEW c \in Callers, FinalizeAdjustment(c)
      PROVE  /\ \A k \in DOMAIN ledger[r] : k \in DOMAIN ledger'[r] /\ ledger'[r][k] = ledger[r][k]
             /\ \A k \in DOMAIN ledger'[r] :
                  ledger'[r][k].source \notin Adjustments => k \in DOMAIN ledger[r]
  <2> DEFINE ls == caller[c].lines
             a == caller[c].id
             old == ledger[r]
             new == ledger'[r]
  <2>1. a \in Adjustments /\ ls \in Seq(Line) /\ ledger' = LedgerAfter(ls, a)[Len(ls)]
    BY <1>2, FinalizeApplies
  <2> HIDE DEF ls, a
  <2>2. Extends(new, old, a)
    BY <2>1, LinesAddEntries DEF StockShape
  <2> HIDE DEF old, new
  <2>3. /\ \A k \in DOMAIN old : k \in DOMAIN new /\ new[k] = old[k]
        /\ \A k \in DOMAIN new : new[k].source # a => k \in DOMAIN old
    BY <2>2 DEF Extends
  <2> QED BY <2>1, <2>3 DEF old, new
<1> QED BY <1>1, <1>2, OnlyFinalizeMoves

\* So the movements of transfers stay what they are.
LEMMA MovementsStay ==
  ASSUME SystemInv, [ANext]_avars, UNCHANGED <<requestVars, handler>>
  PROVE  PostedWhenConsumed' /\ ConsumedIsMoved'
<1>1. StockShape(Sources) /\ CallsShape /\ Adjustments \subseteq Sources
  BY StockShapeIs, SystemSources DEF SystemInv
<1>2. \A t \in Transfers : t \notin Adjustments
  BY TransferAssumption, SystemAssumption
<1>3. ASSUME NEW r \in Rows, NEW t \in Transfers
      PROVE  /\ \A k \in DOMAIN ledger'[r] : ledger'[r][k].source = t =>
                  k \in DOMAIN ledger[r] /\ ledger[r][k].source = t
             /\ \A kd : EntriesOf(ledger'[r], t, kd) = EntriesOf(ledger[r], t, kd)
             /\ \A kd : \A k \in EntriesOf(ledger[r], t, kd) : ledger'[r][k] = ledger[r][k]
  <2>1. /\ \A k \in DOMAIN ledger[r] : k \in DOMAIN ledger'[r] /\ ledger'[r][k] = ledger[r][k]
        /\ \A k \in DOMAIN ledger'[r] :
             ledger'[r][k].source \notin Adjustments => k \in DOMAIN ledger[r]
    BY <1>1, OthersEntriesStay
  <2> QED BY <1>2, <2>1 DEF EntriesOf
<1>4. reservation' = reservation /\ route' = route /\ status' = status
  BY DEF requestVars
<1>5. PostedWhenConsumed'
  BY <1>3, <1>4 DEF SystemInv, PostedWhenConsumed
<1>6. ConsumedIsMoved'
  <2> SUFFICES ASSUME NEW t \in Transfers, NEW p \in Products, reservation[t][p].st = "CONSUMED"
               PROVE  Complete(t, reservation[t][p],
                        ledger'[<<p, route[t].src>>], ledger'[<<p, route[t].dst>>])
    BY <1>4 DEF ConsumedIsMoved
  <2>1. Complete(t, reservation[t][p], ledger[<<p, route[t].src>>], ledger[<<p, route[t].dst>>])
    BY DEF SystemInv, ConsumedIsMoved
  <2>2. <<p, route[t].src>> \in Rows /\ <<p, route[t].dst>> \in Rows
    BY RouteRows DEF SystemInv
  <2> DEFINE src == <<p, route[t].src>>
             dst == <<p, route[t].dst>>
  <2> HIDE DEF src, dst
  <2>3. Complete(t, reservation[t][p], ledger[src], ledger[dst]) /\ src \in Rows /\ dst \in Rows
    BY <2>1, <2>2 DEF src, dst
  <2>4. /\ EntriesOf(ledger'[src], t, "TRANSFER_OUT") = EntriesOf(ledger[src], t, "TRANSFER_OUT")
        /\ \A k \in EntriesOf(ledger[src], t, "TRANSFER_OUT") : ledger'[src][k] = ledger[src][k]
    BY <1>3, <2>3
  <2>5. /\ EntriesOf(ledger'[dst], t, "TRANSFER_IN") = EntriesOf(ledger[dst], t, "TRANSFER_IN")
        /\ \A k \in EntriesOf(ledger[dst], t, "TRANSFER_IN") : ledger'[dst][k] = ledger[dst][k]
    BY <1>3, <2>3
  <2>6. Complete(t, reservation[t][p], ledger'[src], ledger'[dst])
    BY <2>3, <2>4, <2>5 DEF Complete
  <2> QED BY <2>6 DEF src, dst
<1> QED BY <1>5, <1>6

\* A step of the adjustments keeps the invariant.
LEMMA AdjustmentStepKeeps ==
  ASSUME SystemInv, [ANext]_avars, UNCHANGED <<requestVars, handler>>
  PROVE  SystemInv'
<1>1. StockShape(Sources) /\ CallsShape /\ LedgerExplainsBalance /\ Adjustments \subseteq Sources
  BY StockShapeIs, SystemSources DEF SystemInv
<1>2. /\ StockShape(Sources)' /\ LedgerExplainsBalance' /\ reservedQty' = reservedQty
  BY <1>1, StockStep
<1>3. TypeOK'
  BY <1>2, StockShapeIs DEF SystemInv
<1>4. CallInv' /\ ReservationInv'
  BY ReservationInvIs DEF SystemInv, requestVars, CallInv, Claimed
<1>5. CacheMatchesReservations'
  BY <1>2, CacheKept DEF SystemInv, requestVars
<1>6. OnHandNonNegative'
  <2>1. \A r \in Rows : reservedQty[r] >= 0
    BY ActiveQtyType DEF SystemInv, CacheMatchesReservations
  <2> QED BY <1>1, <2>1, NonNegativeStep DEF SystemInv
<1>7. PostedWhenConsumed' /\ ConsumedIsMoved'
  BY MovementsStay
<1>8. CallsShape'
  BY <1>1, CallsShapeStep
<1> QED BY <1>2, <1>3, <1>4, <1>5, <1>6, <1>7, <1>8 DEF SystemInv

\* Every step keeps the invariant.
LEMMA SystemInvNext == SystemInv /\ [SystemNext]_systemVars => SystemInv'
BY SystemSteps, TransferStepKeeps, AdjustmentStepKeeps

\* The invariant holds of every state of the system.
LEMMA SystemInvariant == SystemSpec => []SystemInv
<1>1. SystemInit => SystemInv
  BY SystemInvInit
<1> QED BY <1>1, SystemInvNext, PTL DEF SystemSpec

\* With real adjustments in between, the reserved quantity that they test remains
\* the sum of the ACTIVE reservations.
THEOREM SystemCache == SystemSpec => []CacheMatchesReservations
<1>1. SystemInv => CacheMatchesReservations
  BY DEF SystemInv
<1> QED BY <1>1, SystemInvariant, PTL

\* The ledger that both workflows write accounts for every balance, in whatever
\* order their transactions commit.
THEOREM SystemLedger == SystemSpec => []LedgerExplainsBalance
<1>1. SystemInv => LedgerExplainsBalance
  BY DEF SystemInv
<1> QED BY <1>1, SystemInvariant, PTL

\* No balance is ever negative, although more may be reserved of a row than is on
\* hand (OnHandNonNegative).
THEOREM SystemNonNegative == SystemSpec => []OnHandNonNegative
<1>1. SystemInv => OnHandNonNegative
  BY DEF SystemInv
<1> QED BY <1>1, SystemInvariant, PTL

\* A transfer is still moved exactly once when adjustments of several lines post
\* to its rows.
THEOREM SystemMoves == SystemSpec => []MovedExactlyOnce
<1>1. SystemInv => MovedExactlyOnce
  BY MovedFollows DEF SystemInv
<1> QED BY <1>1, SystemInvariant, PTL


\* The tables and the calls of the transfers keep their shape (TypeOK), with the
\* entries of adjustments in the ledger.
THEOREM SystemTyped == SystemSpec => []TypeOK
<1>1. SystemInv => TypeOK
  BY DEF SystemInv
<1> QED BY <1>1, SystemInvariant, PTL

\* No adjustment disturbs the agreement of a transfer's reservations with its
\* status (ReservationsMatchStatus).
THEOREM SystemReservations == SystemSpec => []ReservationsMatchStatus
<1>1. SystemInv => ReservationsMatchStatus
  BY DEF SystemInv, ReservationInv
<1> QED BY <1>1, SystemInvariant, PTL

-----------------------------------------------------------------------------
(* Action properties, and the refinement of the book of balances.              *)

\* Transfers keep to their lifecycle (LifecycleOrder) beside adjustments.
THEOREM SystemLifecycle == SystemSpec => LifecycleOrder
<1> DEFINE Step == \A t \in Transfers : status'[t] # status[t] => Allowed(status[t], status'[t])
<1>1. SystemInv /\ [SystemNext]_systemVars => [Step]_status
  <2> SUFFICES ASSUME SystemInv, [SystemNext]_systemVars, status' # status PROVE Step
    OBVIOUS
  <2>1. [Next]_vars
    BY SystemSteps DEF requestVars
  <2>2. PICK u \in Transfers, to \in Statuses :
          Allowed(status[u], to) /\ status' = [status EXCEPT ![u] = to]
    BY <2>1, StatusMoves DEF SystemInv
  <2> QED BY <2>2 DEF SystemInv, TypeOK
<1> QED BY <1>1, SystemInvariant, PTL DEF SystemSpec, LifecycleOrder

\* A finalized adjustment spares what is reserved of a row it lowers.
LEMMA AdjustmentSpares ==
  ASSUME SystemInv, [ANext]_avars, NEW r \in Rows, onHand'[r] < onHand[r]
  PROVE  reservedQty'[r] <= onHand'[r]
BY StockShapeIs, SystemSources, LoweredKeepsReserved DEF SystemInv

\* With real transfers in between, which may reserve more than there is, a row
\* that an adjustment lowers keeps what is reserved of it
\* (AdjustmentSparesReserved).
THEOREM SystemSparesReserved == SystemSpec => AdjustmentSparesReserved
<1> DEFINE Step == \A r \in Rows :
             (aStatus' # aStatus /\ onHand'[r] < onHand[r]) => reservedQty'[r] <= onHand'[r]
<1>1. SystemInv /\ [SystemNext]_systemVars => [Step]_avars
  <2> SUFFICES ASSUME SystemInv, [SystemNext]_systemVars, aStatus' # aStatus,
                      NEW r \in Rows, onHand'[r] < onHand[r]
               PROVE  reservedQty'[r] <= onHand'[r]
    OBVIOUS
  <2>1. [ANext]_avars
    BY SystemSteps DEF adjustVars
  <2> QED BY <2>1, AdjustmentSpares
<1> QED BY <1>1, SystemInvariant, PTL DEF SystemSpec, AdjustmentSparesReserved

\* Only an approval that overlaps another starts or widens a shortfall
\* (ShortfallOnlyByOverlap): an adjustment does not, whatever its lines.
THEOREM SystemShortfall == SystemSpec => ShortfallOnlyByOverlap
<1>1. ASSUME SystemInv, SystemInv', [SystemNext]_systemVars PROVE NoNewShortfall
  <2>1. CacheMatchesReservations /\ CacheMatchesReservations' /\ TypeOK /\ TypeOK'
    BY <1>1 DEF SystemInv
  <2>2. CASE [Next]_vars
    BY <2>1, <2>2, ShortfallStep
  <2>3. CASE [ANext]_avars
    <3> SUFFICES ASSUME NEW r \in Rows, Shortfall(r)' > 0, Shortfall(r)' > Shortfall(r)
                 PROVE  FALSE
      BY DEF NoNewShortfall
    <3>1. /\ Shortfall(r) = reservedQty[r] - onHand[r]
          /\ Shortfall(r)' = reservedQty'[r] - onHand'[r]
      BY <2>1, ShortfallIs
    <3>2. reservedQty' = reservedQty
      BY <1>1, <2>3, StockShapeIs, SystemSources, StockStep DEF SystemInv
    <3>3. /\ reservedQty[r] \in Int /\ onHand[r] \in Int
          /\ reservedQty'[r] \in Int /\ onHand'[r] \in Int
      BY <2>1 DEF TypeOK
    <3>4. onHand'[r] < onHand[r]
      BY <3>1, <3>2, <3>3
    <3>5. reservedQty'[r] <= onHand'[r]
      BY <1>1, <2>3, <3>4, AdjustmentSpares
    <3> QED BY <3>1, <3>3, <3>5
  <2> QED BY <1>1, <2>2, <2>3, SystemSteps
<1>2. SystemInv /\ SystemInv' /\ [SystemNext]_systemVars => [NoNewShortfall]_<<onHand, reservation>>
  BY <1>1
<1>3. SystemSpec => [][NoNewShortfall]_<<onHand, reservation>>
  BY <1>2, SystemInvariant, PTL DEF SystemSpec
<1> QED BY <1>3 DEF ShortfallOnlyByOverlap

\* To the book of balances an adjustment is a correction, so that transfers and
\* adjustments together implement it (ImplementsBook): every transfer moves its
\* goods at most once and completely, and no step overdraws a row.
THEOREM SystemBook == SystemSpec => ImplementsBook
<1>1. SystemInit => Book!BookInit
  BY DEF SystemInit, Init, StockInit, NoReservation, Moved, Book!BookInit
<1>2. ASSUME SystemInv, SystemInv', [SystemNext]_systemVars
      PROVE  [Book!BookNext]_(Book!bookVars)
  <2>1. CASE [Next]_vars
    BY <1>2, <2>1, BookStep DEF SystemInv
  <2>2. CASE [ANext]_avars /\ UNCHANGED <<requestVars, handler>>
    <3>1. Moved' = Moved
      BY <2>2 DEF Moved, requestVars
    <3>2. onHand' \in [Rows -> Nat]
      BY <1>2 DEF SystemInv, TypeOK, OnHandNonNegative
    <3>3. Book!Correct
      BY <3>1, <3>2 DEF Book!Correct, Book!BookRows, Rows
    <3> QED BY <3>3 DEF Book!BookNext
  <2> QED BY <1>2, <2>1, <2>2, SystemSteps
<1>3. SystemSpec => Book!BookInit /\ [][Book!BookNext]_(Book!bookVars)
  BY <1>1, <1>2, SystemInvariant, PTL DEF SystemSpec
<1> QED BY <1>3 DEF ImplementsBook, Book!BookSpec
=============================================================================
