\* Two chairs, two shifts, two plans, up to four massages in three days; or one
\* massage, whose plan and amount an assistant wants changed.
SPECIFICATION MCSpec
CONSTANTS
  c1 = c1  c2 = c2  s1 = s1  s2 = s2  w1 = w1  w2 = w2  p1 = p1  p2 = p2
  Chair = {c1, c2}
  Shift = {s1, s2}
  Staff = {w1, w2}
  Plan = {p1, p2}
  Editor = {e1, e2}
  ShiftStaff <- MCShiftStaff
  ShiftAt <- MCShiftAt
  ManualBonus <- MCManualBonus
  Owner = {"o"}
  Commission <- MCCommission
  Bonus <- MCBonus
  FirstRules <- MCFirstRules
  FirstBonuses <- MCFirstBonuses
  MaxCommissions = 3
  MaxBonuses = 3
  PlanForm <- MCPlanForm
  RuleForm <- MCRuleForm
  MonthLengths <- MCMonths
  RawFilter <- MCRawFilter
  World <- MCWorld
  Duration = {2, 10, 13, 25}
  Correction = {0, 40}
  HoursPerDay = 2
  DaysPerWeek = 2
  ServerOffset = 1
  LastHour = 5
  MaxRules = 2
  Session = {"s1"}
  Reviewer = {"o1", "o2"}
  Amount = {1}
  PlanPrice = {2, 3}
  MaxRequests = 2
  MaxStamp = 2
  MaxOrders = 2
  PagesWorld <- MCPagesWorld
  None = None
  All = All
INVARIANTS
  PartsTypeOK
  EveryMassageCountsOnce
  FiguresAgree
  PrimeShownIsPrimeTaken
  LongerNeverCheaper
PROPERTY ChangesAreMadeAsShown
ACTION_CONSTRAINT Bounds
CHECK_DEADLOCK FALSE
