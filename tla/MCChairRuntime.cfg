\* Polls one after the other, in each of four worlds, and overlapping polls.
SPECIFICATION Spec
CONSTANTS
  Session = {s1, s2}
  Tick = {t1, t2}
  Boot = Boot
  None = None
  World <- EachWorld
CONSTRAINT Bounds
VIEW ServerState
SYMMETRY Symmetry
INVARIANTS
  TypeOK
  CacheAgrees
  SwitchedCacheAgrees
  RowsLeadToSession
  OneActiveSession
PROPERTIES
  PollsDebounce
