\* Two transfers, two calls and one adjustment on one product.
CONSTANTS
  t1 = t1
  t2 = t2
  h1 = h1
  h2 = h2
  a1 = a1
  c1 = c1
  A = A
  B = B
  p1 = p1
  Products = {p1}
  Locations = {A, B}
  Transfers = {t1, t2}
  Handlers = {h1, h2}
  Adjustments = {a1}
  Callers = {c1}
  MaxQty = 1
  MaxChange = 1
  MaxLedger = 2
  MaxLines = 1
  MaxHeld = 0
  OtherSources = {a1}
  OtherRequests = {t1, t2}
  Opening <- OneAtA
  Calls <- AllCalls
  AdjustCalls <- AdjustmentCalls
SPECIFICATION MCSystemSpec
SYMMETRY Symmetry
CHECK_DEADLOCK FALSE
PROPERTIES LifecycleOrder ImplementsBook ShortfallOnlyByOverlap
INVARIANTS TypeOK OnHandNonNegative LedgerExplainsBalance ReservationsMatchStatus MovedExactlyOnce
  CacheMatchesReservations
