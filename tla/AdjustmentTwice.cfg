\* A request is finalized twice.
CONSTANTS
  a1 = a1
  a2 = a2
  c1 = c1
  c2 = c2
  A = A
  B = B
  p1 = p1
  Products = {p1}
  Locations = {A}
  Adjustments = {a1}
  Callers = {c1, c2}
  MaxLines = 2
  MaxChange = 1
  MaxLedger = 4
  MaxHeld = 0
  OtherRequests = {"transfer"}
  Opening <- OneAtA
  AdjustCalls <- NoRemoval
SPECIFICATION AdjustmentSpec
CHECK_DEADLOCK FALSE
SYMMETRY Symmetry
INVARIANT AppliedAtMostOnce
