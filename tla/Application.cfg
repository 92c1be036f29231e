CONSTANTS
  A = A
  B = B
  src = src
  dst = dst
  tab1 = tab1
  tab2 = tab2
  f1 = f1
  f2 = f2
  c1 = c1
  c2 = c2
  r1 = r1
  a1 = a1
  x = x
  y = y
  u = u
  v = v
  Stores = {A, B}
  Readers <- OneReader
  Asks <- NoFilter
  Periods <- SomePeriods
  LastHalfDay = 2
  MaxEntries = 3
  Zones <- Ahead
  Rooms = {src, dst}
  Origin = src
  Target = dst
  LineRooms <- LineSets
  Limit = 1
  Tabs = {tab1, tab2}
  Uploads = {f1, f2}
  Removers = {c1, c2}
  MaxDeaths = 1
  Remarks = {r1}
  Papers = {a1}
  Steps = 2
  Fetches = {x, y}
  MaxFetches = 2
  Views = {u, v}
  MaxLogins = 2
  Tracked = {"users", "registrations", "attachments", "uoms", "transfers"}
  MaxWrites = 2
  MaxTurns <- TurnsFor
SPECIFICATION MCSpec
SYMMETRY Sym
CHECK_DEADLOCK FALSE
INVARIANTS ApplicationTypeOK ClosingIsReal OfferedIsAccepted PendingIsActionable
  FilesBehindRows ShownOnce LogoutReachesEveryTab OwnWritesShown
