\* One request over two products of which one unit each is there, lines of up to
\* two units, two calls in flight.
CONSTANTS
  t1 = t1
  t2 = t2
  h1 = h1
  h2 = h2
  A = A
  B = B
  p1 = p1
  p2 = p2
  Products = {p1, p2}
  Locations = {A, B}
  Transfers = {t1}
  Handlers = {h1, h2}
  MaxQty = 2
  MaxChange = 1
  MaxLedger = 0
  OtherSources = {"adjustment"}
  Opening <- OneAtA
  Calls <- AllCalls
SPECIFICATION FairSpec
CHECK_DEADLOCK FALSE
PROPERTIES EveryCallReturns
INVARIANTS ReservationsMatchStatus MovedExactlyOnce
