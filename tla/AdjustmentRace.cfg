\* One request, two calls in flight, a transfer reserving the same row.
CONSTANTS
  a1 = a1
  a2 = a2
  c1 = c1
  c2 = c2
  A = A
  B = B
  p1 = p1
  Products = {p1}
  Locations = {A, B}
  Adjustments = {a1}
  Callers = {c1, c2}
  MaxLines = 2
  MaxChange = 1
  MaxLedger = 2
  MaxHeld = 2
  OtherRequests = {"transfer"}
  Opening <- OneAtA
  AdjustCalls <- AllCalls
SPECIFICATION AdjustmentSpec
CHECK_DEADLOCK FALSE
SYMMETRY Symmetry
INVARIANTS ATypeOK OnHandNonNegative LedgerExplainsBalance
PROPERTIES AdjustmentSparesReserved ClaimsRespectStatus FinalizedAllAtOnce
