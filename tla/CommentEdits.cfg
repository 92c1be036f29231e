CONSTANTS
  Tabs = {tab1, tab2}
  Uploads = {}
  Removers = {}
  MaxDeaths = 0
SPECIFICATION RecordsSpec
CHECK_DEADLOCK FALSE
INVARIANT EditedThrice
