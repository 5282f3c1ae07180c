\* Two parts that share nothing. The primes of a shift: two requests at a time;
\* or one, the staff moving between tills; or one, and the owner. The cash page:
\* two of its calls at a time over three movements, one failure, one of two dialogs.
SPECIFICATION MCSpec
CONSTANTS
  w1 = w1
  w2 = w2
  plan = plan
  None = None
  Plan = {plan}
  Owner = {o1}
  Commission <- Rates
  Bonus <- FromTwenty
  MaxRules = 2
  MaxBonuses = 1
  LastInstant = 1
  Till = {t1, t2}
  Worker = {w1, w2}
  Profile <- BothKinds
  Amount = {2000}
  Manual <- Manuals
  MaxMassages = 2
  World <- EachWorld
  PageTill <- MCPageTill
  FirstTill <- MCFirstTill
  PageStaff <- MCPageStaff
  Task <- MCTask
  PageSize = 1
  BatchSize = 2
  MaxRangeDays = 2
  PageWorld <- MCPageWorld
INVARIANTS
  PartsTypeOK
  DayAddsUp
  OrdersCountedOnce
  HistoryIsThePage
PROPERTY PrimeTakenOnce
ACTION_CONSTRAINT OneTable
CHECK_DEADLOCK FALSE
SYMMETRY Symmetry
