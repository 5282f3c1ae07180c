\* One change of the data, one or two troubles, two requests of the page in flight,
\* two sets of filters.
SPECIFICATION FairSpec
CONSTANTS
  Fetch = {h1, h2}
  Filter = {f1, f2}
  Threshold = 2
  MaxChanges = 1
  MaxTroubles <- MCMaxTroubles
  MaxWire = 1
  Push = {t1}
  Zero = Zero
  Unavailable = Unavailable
  None = None
INVARIANTS
  TypeOK
  FiltersWin
PROPERTY ScreenCatchesUp
CHECK_DEADLOCK FALSE
