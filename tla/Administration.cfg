CONSTANTS
  A = A
  B = B
  C = C
  p1 = p1
  u1 = u1
  u2 = u2
  t1 = t1
  j1 = j1
  c1 = c1
  c2 = c2
  w1 = w1
  w2 = w2
  s1 = s1
  s2 = s2
  up = up
  d1 = d1
  d2 = d2
  d3 = d3
  d4 = d4
  e1 = e1
  e2 = e2
  e3 = e3
  k1 = k1
  k2 = k2
  Admin = Admin
  Users = {u1, u2}
  Products = {p1}
  Locations = {A, B}
  Transfers = {t1}
  Adjustments = {j1}
  Calls = {c1, c2}
  Routes <- OneWay
  Assignments <- MCAssignments
  FirstRoles <- MCFirst
  MaxRequests = 1
  MaxDown = 2
  Wares = {w1, w2}
  Sites = {A}
  Skus = {s1, s2}
  NoSku = NoSku
  Clerks = {c1, c2}
  Uploader = up
  Sheets <- MCSheets
  Drafts = {d1, d2, d3, d4}
  Creators = {c1, c2}
  Attempts = 3
  Entries = {e1, e2, e3}
  Keys = {k1, k2}
  NoKey = NoKey
  Editors = {c1, c2}
  People = {u1}
  Places = {A, B}
  NoPlace = NoPlace
  Managers = {c1, c2}
  Halls = {A, B}
  Wanted = {A}
  Spans <- TwoSpans
  RolesGiven <- Elsewhere
  Limits = {1, 2}
  MaxListed = 3
  MaxChanges = 2
SPECIFICATION MCSpec
SYMMETRY Sym
CHECK_DEADLOCK FALSE
INVARIANTS AdministrationTypeOK NoneStranded ReadyMeansServed MatrixComplete BulkReportTruthful
  IdentifiersAreUnique GivesUpOnlyWhenOutrun OneRoleEach ReadThroughMissesFew
PROPERTIES DeactivatedNotNeeded
