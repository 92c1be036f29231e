\* A cancellation or rejection racing an origin approval.
CONSTANTS
  t1 = t1
  t2 = t2
  h1 = h1
  h2 = h2
  A = A
  B = B
  p1 = p1
  p2 = p2
  Products = {p1}
  Locations = {A, B}
  Transfers = {t1, t2}
  Handlers = {h1, h2}
  MaxQty = 1
  MaxChange = 1
  MaxLedger = 0
  OtherSources = {"adjustment"}
  Opening <- OneAtA
  Calls <- WorkflowCalls
SPECIFICATION Spec
CHECK_DEADLOCK FALSE
SYMMETRY Symmetry
INVARIANT NoOrphanReservations
