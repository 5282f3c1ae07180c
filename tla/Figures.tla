------------------------------ MODULE Figures -------------------------------
(***************************************************************************)
(* The figures of the shop.  The same massages are added up by the home    *)
(* page (home-dashboard.service, session-metrics.logic), the revenue chart *)
(* and the live counters (dashboard.service), the page of a chair          *)
(* (chair-detail.service), the page of an assistant (assistant.service)    *)
(* and the prime that is taken from the till (PrimeRules), each with code  *)
(* of its own, while the massages go on, are corrected, given another plan *)
(* and archived, and the owner edits the prices and the rules of the       *)
(* primes.  The home page reads them in batches, with a cursor.            *)
(*                                                                         *)
(* Here the shop has an hour count for a clock, days of HoursPerDay hours, *)
(* weeks of DaysPerWeek days and months of the given lengths; amounts are  *)
(* in dirhams.                                                             *)
(***************************************************************************)
EXTENDS Pricing, TLC

CONSTANTS
  Chair, Shift, Staff,
  ShiftStaff,    \* whose shift it is: [Shift -> Staff]
  ShiftAt,       \* the shift that is open at each hour, or None
  ManualBonus,   \* the bonus adjustments of each shift: [Shift -> Int]
  Owner, Commission, Bonus, MaxCommissions, MaxBonuses,   \* see PrimeRules
  FirstRules, FirstBonuses,   \* the rules of the primes when the clock starts
  Correction,    \* the amounts a massage may be corrected to
  HoursPerDay, DaysPerWeek, MonthLengths,
  ServerOffset,  \* the hours from the shop's midnight to the server's
  LastHour,      \* bound: the last hour of the clock
  RawFilter,     \* the filters the home page may ask for
  World,         \* the worlds to look at
  All

VARIABLES
  world,       \* rigid: the handlers and filters in use, the first hour, the bounds
  enabled,     \* the chairs that are enabled
  now,         \* the clock
  rows,        \* the rows of chair_sessions, None when deleted
  edits,       \* bound: the changes of rows, and of the rules of the primes
  request,     \* the home page being computed
  rules, bonuses, creating   \* the rules of the primes, as PrimeRules keeps them

primeVars == <<rules, bonuses, creating>>
vars == <<world, enabled, now, rows, edits, request, pricingVars, primeVars>>

\* What is taken from the till, and the rules it is calculated from.
Taken == INSTANCE PrimeRules WITH MaxRules <- MaxCommissions, LastInstant <- LastHour

Hour == 0 .. LastHour

Handlers == {"start", "finalize", "review", "correct", "plan", "archive", "disable",
             "tick", "home", "prices", "commissions", "bonuses"}

ASSUME FiguresAssumption ==
  /\ World \subseteq
       [handlers: SUBSET Handlers, first: HoursPerDay .. LastHour, sessions: Nat, edits: Nat,
        batch: Nat \ {0}, filters: SUBSET RawFilter,
        plans: [Plan -> PlanForm \cup {None}], tariff: RuleForm \cup {None}]
  /\ ShiftStaff \in [Shift -> Staff]
  /\ ShiftAt \in [Hour -> Shift \cup {None}]
  /\ ManualBonus \in [Shift -> Nat]
  /\ Correction \subseteq Nat
  /\ LastHour \in Nat /\ HoursPerDay \in Nat \ {0}
  /\ ServerOffset \in 0 .. HoursPerDay - 1

Row ==
  [chair: Chair, shift: Shift \cup {None}, at: Hour,
   status: {"ACTIVE", "COMPLETED", "UNCERTAIN", "CANCELLED"},
   expected: Nat \cup {None}, corrected: Correction \cup {None},
   billing: {"PENDING", "CALCULATED", "CORRECTED", "DISPUTED"},
   anomaly: SUBSET {"NO_OPEN_SHIFT", "TOO_SHORT", "TOO_LONG", "STALE_NEEDS_REVIEW"},
   plan: Plan \cup {None}, archived: BOOLEAN]

-----------------------------------------------------------------------------
(* date-range.ts, utils/time.ts: days, weeks and months of the business. *)

Day(t) == t \div HoursPerDay
HourOf(t) == t % HoursPerDay
LastDay == Day(LastHour)
Today == Day(now)

Month == DOMAIN MonthLengths
FirstDay(m) == MapThenSumSet(LAMBDA k : MonthLengths[k], 1 .. m - 1)
DaysOf(m) == FirstDay(m) .. FirstDay(m) + MonthLengths[m] - 1
Calendar == UNION {DaysOf(m) : m \in Month}
MonthOf(d) == CHOOSE m \in Month : d \in DaysOf(m)

resolvePresetDates(preset, today) ==
  LET monday == today - (today % DaysPerWeek)
      first == FirstDay(MonthOf(today))
  IN  CASE preset = "yesterday" -> <<today - 1, today - 1>>
        [] preset = "week"      -> <<monday, monday + DaysPerWeek - 1>>
        [] preset = "month"     -> <<first, first + MonthLengths[MonthOf(today)] - 1>>
        [] preset = "year"      -> <<0, Max(Calendar)>>
        [] OTHER                -> <<today, today>>

\* buildDateRangeFilter: from the first hour of one day to the end of another.
buildDateRangeFilter(dates) == <<dates[1], IF dates[2] < dates[1] THEN dates[1] ELSE dates[2]>>
InRange(range, t) == range[1] <= Day(t) /\ Day(t) <= range[2]

-----------------------------------------------------------------------------
(* dashboard-filters.ts *)

\* The clock does not leave the calendar, nor do the dates that may be asked for.
ASSUME CalendarAssumption ==
  /\ MonthLengths \in Seq(Nat \ {0})
  /\ DaysPerWeek \in Nat \ {0}
  /\ 0 .. LastDay \subseteq Calendar
  /\ RawFilter \subseteq
       [preset: {"custom", "today", "yesterday", "week", "month", "year"},
        dates: Calendar \X Calendar,
        status: {"ACTIVE", "COMPLETED", "PENDING", "CORRECTED", "ANOMALY", All},
        staff: Staff \cup {All}, shift: Shift \cup {All}, chair: Chair \cup {All},
        window: (Nat \X Nat) \cup {All}, chart: {"day", "week", "month", "year"}]
  /\ IsFiniteSet(Chair)
  /\ All \notin Chair \cup Shift \cup (Nat \X Nat)
  /\ All \notin {"ACTIVE", "COMPLETED", "PENDING", "CORRECTED", "ANOMALY"}

canFilterByShift(preset) == preset \in {"today", "yesterday"}

\* normalizeDashboardFilters, and the dates of the preset.
Normalized(raw) ==
  [range  |-> buildDateRangeFilter(IF raw.preset = "custom" THEN raw.dates
                                   ELSE resolvePresetDates(raw.preset, Today)),
   status |-> raw.status,
   staff  |-> raw.staff,
   shift  |-> IF canFilterByShift(raw.preset) THEN raw.shift ELSE All,
   chair  |-> raw.chair,
   window |-> raw.window,
   chart  |-> raw.chart]

StatusWhereBilledAsCorrected(status, r) ==
  CASE status \in {"ACTIVE", "COMPLETED"} -> r.status = status
    [] status = "PENDING"   -> r.status # "CANCELLED" /\ r.billing = "PENDING"
    [] status = "CORRECTED" -> r.status # "CANCELLED" /\ r.billing = "CORRECTED"
    [] status = "ANOMALY"   -> r.status # "CANCELLED" /\ r.anomaly # {}
    [] OTHER                -> r.status # "CANCELLED"

statusWhere(status, r) ==
  CASE status \in {"ACTIVE", "COMPLETED"} -> r.status = status
    [] status = "PENDING"   -> r.status # "CANCELLED" /\ r.billing = "PENDING"
    [] status = "CORRECTED" -> /\ r.status # "CANCELLED"
                               /\ r.billing = "CORRECTED" \/ r.corrected # None
    [] status = "ANOMALY"   -> r.status # "CANCELLED" /\ r.anomaly # {}
    [] OTHER                -> r.status # "CANCELLED"

\* buildDashboardSessionWhere
Where(f, r) ==
  /\ r # None
  /\ ~r.archived
  /\ InRange(f.range, r.at)
  /\ statusWhere(f.status, r)
  /\ f.chair # All => r.chair = f.chair
  /\ f.shift # All => r.shift = f.shift
  /\ f.staff # All => r.shift # None /\ ShiftStaff[r.shift] = f.staff

inPeriodWindow(window, t) ==
  window # All => window[1] <= HourOf(t) /\ HourOf(t) < window[2]

Matches(f, r) == Where(f, r) /\ inPeriodWindow(f.window, r.at)
Matching(f, table) == {i \in DOMAIN table : Matches(f, table[i])}

-----------------------------------------------------------------------------
(* session-metrics.logic.ts: C maps the ids of some massages to their rows. *)

SumOver(Op(_), C) == MapThenSumSet(LAMBDA i : Op(C[i]), DOMAIN C)
CountOf(Test(_), C) == Cardinality({i \in DOMAIN C : Test(C[i])})
Only(Test(_), C) == [i \in {j \in DOMAIN C : Test(C[j])} |-> C[i]]

\* resolveFinalAmount of chair-detail, assistant and prime-calculation alike.
FinalAmount(r) ==
  IF r.corrected # None THEN r.corrected
  ELSE IF r.expected # None THEN r.expected ELSE 0

sessionRevenue(r) == IF r.status = "ACTIVE" THEN 0 ELSE FinalAmount(r)

\* absorbSummary
Summary(C) ==
  [gross     |-> SumOver(sessionRevenue, C),
   sessions  |-> Cardinality(DOMAIN C),
   ACTIVE    |-> CountOf(LAMBDA r : r.status = "ACTIVE", C),
   COMPLETED |-> CountOf(LAMBDA r : r.status = "COMPLETED", C),
   PENDING   |-> CountOf(LAMBDA r : r.billing = "PENDING", C),
   CORRECTED |-> CountOf(LAMBDA r : r.billing = "CORRECTED" \/ r.corrected # None, C)]

\* absorbChair, formatTotalsByChair: the chairs that are enabled have a line.
ByChair(C) ==
  [c \in enabled |-> SumOver(sessionRevenue, Only(LAMBDA r : r.chair = c, C))]

\* chartBuckets: the number of bars, and the bar of a massage.
BucketCount(chart, range) ==
  CASE chart = "day"   -> HoursPerDay
    [] chart = "week"  -> DaysPerWeek
    [] chart = "month" -> MonthLengths[MonthOf(range[1])]
    [] OTHER           -> Cardinality(Month)
Bucket(chart, t) ==
  CASE chart = "day"   -> HourOf(t)
    [] chart = "week"  -> Day(t) % DaysPerWeek
    [] chart = "month" -> Day(t) - FirstDay(MonthOf(Day(t)))
    [] OTHER           -> MonthOf(Day(t)) - 1

\* absorbChart, finalizeChart
Chart(f, C) ==
  [b \in 0 .. BucketCount(f.chart, f.range) - 1 |->
     SumOver(sessionRevenue, Only(LAMBDA r : Bucket(f.chart, r.at) = b, C))]
ChartTotal(f, C) == MapThenSumSet(LAMBDA b : Chart(f, C)[b], DOMAIN Chart(f, C))

\* The commission of the home page: any active rule of the plan, whatever its dates.
RuleOf(plan) == {i \in DOMAIN rules : rules[i].plan = plan /\ rules[i].active}
CommissionOnExpected(r) ==
  IF RuleOf(r.plan) = {} THEN 0
  ELSE LET c == rules[CHOOSE i \in RuleOf(r.plan) : TRUE].is
       IN  IF c.type = "PERCENTAGE" THEN (r.expected * c.value + 50) \div 100 ELSE c.value

HomeCommission(r) ==
  IF RuleOf(r.plan) = {} THEN 0
  ELSE LET c == rules[CHOOSE i \in RuleOf(r.plan) : TRUE].is
       IN  IF c.type = "PERCENTAGE" THEN (FinalAmount(r) * c.value + 50) \div 100 ELSE c.value

\* absorbPrime, and buildCurrentShiftLive, which says the same another way.
EarnsCommission(r) ==
  /\ r.status = "COMPLETED"
  /\ r.plan # None
  /\ FinalAmount(r) > 0
  /\ "TOO_SHORT" \notin r.anomaly
  /\ \/ r.billing \in {"CALCULATED", "CORRECTED"}
     \/ r.billing = "PENDING" /\ "TOO_LONG" \in r.anomaly
PlanCommission(C) == SumOver(HomeCommission, Only(EarnsCommission, C))

\* finalizePrimeRevenue: per shift seen, the highest target reached, if any.
TargetBonus(C, s) ==
  LET gross == SumOver(sessionRevenue, Only(LAMBDA r : r.shift = s, C))
      reached == {i \in DOMAIN bonuses : bonuses[i].active /\ bonuses[i].is.target <= gross}
  IN  IF gross <= 0 \/ reached = {} THEN 0
      ELSE bonuses[CHOOSE i \in reached :
                     \A j \in reached : bonuses[j].is.target <= bonuses[i].is.target].is.amount
TotalPrime(C) ==
  LET seen == {C[i].shift : i \in DOMAIN C} \ {None}
  IN  PlanCommission(C) + MapThenSumSet(LAMBDA s : TargetBonus(C, s) + ManualBonus[s], seen)

\* The settings of the primes: amounts and targets as the forms let them be.
ASSUME PrimeAssumption ==
  /\ Commission \subseteq [type: {"PERCENTAGE", "FIXED_AMOUNT"}, value: Nat]
  /\ Bonus \subseteq [target: Nat \ {0}, amount: Nat]
  /\ FirstRules \in Seq(Taken!RuleRow) /\ FirstBonuses \in Seq(Taken!BonusRow)
  /\ None \notin Shift \cup {"TOO_SHORT", "TOO_LONG"}

-----------------------------------------------------------------------------
(* The handlers that change the rows. *)

Init ==
  /\ world \in World
  /\ enabled = Chair
  /\ now = world.first
  /\ rows = <<>>
  /\ edits = 0
  /\ request = [phase |-> "idle"]
  /\ plans = world.plans
  /\ tariffs = IF world.tariff = None THEN <<>> ELSE <<[is |-> world.tariff, active |-> TRUE]>>
  /\ upserting = [e \in Editor |-> None]
  /\ rules = FirstRules
  /\ bonuses = FirstBonuses
  /\ creating = [o \in Owner |-> None]

Uses(handler) == handler \in world.handlers

\* What the request being computed must count, and what it may.
Watched(table) ==
  IF request.phase # "streaming" THEN request
  ELSE [request EXCEPT !.steady = {i \in @ : Matches(request.filter, table[i])},
                       !.ever = @ \cup Matching(request.filter, table)]

Insert(row) ==
  /\ Len(rows) < world.sessions
  /\ rows' = Append(rows, row)
  /\ request' = Watched(rows')
  /\ UNCHANGED <<world, enabled, now, edits, pricingVars, primeVars>>

Write(i, row) ==
  /\ edits < world.edits
  /\ edits' = edits + 1
  /\ rows' = [rows EXCEPT ![i] = row]
  /\ request' = Watched(rows')
  /\ UNCHANGED <<world, enabled, now, pricingVars, primeVars>>

Kept == {i \in DOMAIN rows : rows[i] # None}
Running(c) == {i \in Kept : rows[i].chair = c /\ rows[i].status = "ACTIVE"}

\* The first high reading may be an hour older than the confirmation.
start(c) ==
  /\ Uses("start")
  /\ Running(c) = {}
  /\ \E at \in {now - 1, now} \cap Hour :
       Insert([chair |-> c, shift |-> ShiftAt[now], at |-> at, status |-> "ACTIVE",
               expected |-> None, corrected |-> None, billing |-> "PENDING",
               anomaly |-> IF ShiftAt[now] = None THEN {"NO_OPEN_SHIFT"} ELSE {},
               plan |-> None, archived |-> FALSE])

\* finalizeActiveSession: a massage that is still to be billed.
finalize(i) ==
  /\ Uses("finalize")
  /\ i \in Kept
  /\ rows[i].status = "ACTIVE"
  /\ \E d \in Duration : \E price \in calculateSessionPrice(d) :
       Write(i, [rows[i] EXCEPT !.status = "COMPLETED",
                                !.expected = price.amount, !.billing = price.billing,
                                !.plan = price.plan, !.anomaly = @ \cup price.anomaly])

\* markSessionNeedsReview
review(i) ==
  /\ Uses("review")
  /\ i \in Kept
  /\ rows[i].status = "ACTIVE"
  /\ Write(i, [rows[i] EXCEPT !.status = "UNCERTAIN", !.billing = "DISPUTED",
                              !.anomaly = @ \cup {"STALE_NEEDS_REVIEW"}])

\* correctSession, with an amount or to clear the correction, at any status.
correct(i) ==
  /\ Uses("correct")
  /\ i \in Kept
  /\ \/ \E amount \in Correction :
          Write(i, [rows[i] EXCEPT !.corrected = amount, !.billing = "CORRECTED"])
     \/ Write(i, [rows[i] EXCEPT !.corrected = None,
                                 !.billing = IF rows[i].expected # None THEN "CALCULATED"
                                             ELSE "PENDING"])

\* buildPlanChangeSessionUpdate
changePlan(i, p) ==
  /\ Uses("plan")
  /\ i \in Kept
  /\ rows[i].status = "COMPLETED"
  /\ ~rows[i].archived
  /\ p \in ActivePlans \ {rows[i].plan}
  /\ Write(i, [rows[i] EXCEPT !.plan = p, !.expected = plans[p].price,
                              !.billing = "CALCULATED", !.anomaly = {}])

\* assessSessionDeletion, of a row that may or may not have chair events.
MustArchive(r) ==
  \/ r.shift # None \/ r.corrected # None
  \/ r.billing \in {"CORRECTED", "DISPUTED"}
  \/ r.expected # None /\ r.billing = "CALCULATED"

ArchivedAsDeleted(r) == [r EXCEPT !.archived = TRUE, !.status = "DELETED"]

Archived(r) ==
  [r EXCEPT !.archived = TRUE, !.status = IF @ = "ACTIVE" THEN "CANCELLED" ELSE @]

\* deleteSession: most massages are hidden, some are really deleted.
deleteSession(i) ==
  /\ Uses("archive")
  /\ i \in Kept
  /\ ~rows[i].archived
  /\ \/ Write(i, Archived(rows[i]))
     \/ ~MustArchive(rows[i]) /\ Write(i, None)

\* updateChair, of a chair without a running massage (ChairRuntime has the rest).
disable(c) ==
  /\ Uses("disable")
  /\ Running(c) = {}
  /\ enabled' = enabled \ {c}
  /\ UNCHANGED <<world, now, rows, edits, request, pricingVars, primeVars>>

Tick ==
  /\ Uses("tick")
  /\ now < LastHour
  /\ now' = now + 1
  /\ UNCHANGED <<world, enabled, rows, edits, request, pricingVars, primeVars>>

\* The owner at the settings page: the prices...
Tariffs ==
  /\ Uses("prices")
  /\ \/ \E p \in Plan, form \in PlanForm : SetPlan(p, form)
     \/ \E e \in Editor : ReadTariff(e) \/ \E form \in RuleForm : WriteTariff(e, form)
  /\ UNCHANGED <<world, enabled, now, rows, edits, request, primeVars>>

\* ...the commissions...
CommissionRules ==
  /\ Uses("commissions")
  /\ edits < world.edits
  /\ edits' = edits + 1
  /\ \/ \E o \in Owner, p \in Plan, c \in Commission, on \in BOOLEAN : Taken!BeginRule(o, p, c, on)
     \/ \E k \in DOMAIN rules, on \in BOOLEAN :
          Taken!SwitchRule(k, on) \/ \E c \in Commission : Taken!ReplaceRule(k, c, on)
  /\ UNCHANGED <<world, enabled, now, rows, request, pricingVars>>

\* ...the bonuses...
BonusRules ==
  /\ Uses("bonuses")
  /\ edits < world.edits
  /\ edits' = edits + 1
  /\ \/ \E o \in Owner, b \in Bonus, on \in BOOLEAN : Taken!BeginBonus(o, b, on)
     \/ \E k \in DOMAIN bonuses, on \in BOOLEAN :
          Taken!SwitchBonus(k, on) \/ \E b \in Bonus : Taken!ReplaceBonus(k, b, on)
  /\ UNCHANGED <<world, enabled, now, rows, request, pricingVars>>

\* ...and the statements that create a rule of either kind.
RuleCreation ==
  /\ \E o \in Owner : Taken!SealFound(o) \/ Taken!InsertRow(o)
  /\ UNCHANGED <<world, enabled, now, rows, edits, request, pricingVars>>

-----------------------------------------------------------------------------
(* home-dashboard.service.ts: one request. *)

Position(i) == <<rows[i].at, i>>
Precedes(p, q) == p[1] < q[1] \/ (p[1] = q[1] /\ p[2] < q[2])

Open(raw) ==
  /\ Uses("home")
  /\ request.phase = "idle"
  /\ LET f == Normalized(raw) IN
       request' = [phase |-> "streaming", filter |-> f, cursor |-> 0,
                   counted |-> [i \in 1 .. world.sessions |-> 0],
                   steady |-> Matching(f, rows), ever |-> Matching(f, rows),
                   skipped |-> 0, cut |-> FALSE]
  /\ UNCHANGED <<world, enabled, now, rows, edits, pricingVars, primeVars>>

\* What the query with cursor and skip: 1 may return (Prisma): the rows from
\* the place of the cursor on but for the first, even when that is not the row
\* of the cursor any more; nothing when the row of the cursor is gone.
Sorted(S) ==
  CHOOSE s \in [1 .. Cardinality(S) -> S] :
    \A j, k \in DOMAIN s : j < k => Precedes(Position(s[j]), Position(s[k]))
From(cursor) ==
  LET found == {i \in DOMAIN rows : Where(request.filter, rows[i])}
  IN  IF cursor = 0 THEN Sorted(found)
      ELSE IF rows[cursor] = None THEN <<>>
      ELSE Sorted({i \in found : ~Precedes(Position(i), Position(cursor))})
SkipNothing(s, cursor) == s

Skip(s, cursor) == IF cursor = 0 \/ s = <<>> THEN s ELSE Tail(s)
Batch(cursor) ==
  LET s == Skip(From(cursor), cursor)
  IN  SubSeq(s, 1, IF Len(s) < world.batch THEN Len(s) ELSE world.batch)

\* The places of a batch at which a massage is absorbed.
Absorbed(batch, i) ==
  {k \in DOMAIN batch : batch[k] = i /\ inPeriodWindow(request.filter.window, rows[i].at)}

NextBatch ==
  /\ request.phase = "streaming"
  /\ LET c == request.cursor
         batch == Batch(c)
     IN request' =
          [request EXCEPT
             !.phase = IF Len(batch) < world.batch THEN "done" ELSE @,
             !.cursor = IF batch = <<>> THEN @ ELSE batch[Len(batch)],
             !.counted = [i \in DOMAIN @ |-> @[i] + Cardinality(Absorbed(batch, i))],
             !.skipped = IF c # 0 /\ rows[c] # None /\ ~Where(request.filter, rows[c])
                         THEN @ + 1 ELSE @,
             !.cut = @ \/ (c # 0 /\ rows[c] = None)]
  /\ UNCHANGED <<world, enabled, now, rows, edits, pricingVars, primeVars>>

Next ==
  \/ \E c \in enabled : start(c) \/ disable(c)
  \/ \E i \in DOMAIN rows :
       \/ finalize(i) \/ review(i) \/ correct(i) \/ deleteSession(i)
       \/ \E p \in Plan : changePlan(i, p)
  \/ Tick
  \/ Tariffs
  \/ CommissionRules
  \/ BonusRules
  \/ RuleCreation
  \/ \E raw \in world.filters : Open(raw)
  \/ NextBatch

Spec == Init /\ [][Next]_vars
-----------------------------------------------------------------------------
(* The other pages, of the rows as they are. *)

Operational == [i \in {j \in Kept : ~rows[j].archived} |-> rows[i]]

\* RevenueStatsService: the range of the period, one bar per hour, day, month.
PresetOf(period) == IF period = "day" THEN "today" ELSE period
RevenueStats(period) ==
  LET range == resolvePresetDates(PresetOf(period), Today)
      inside == Only(LAMBDA r : InRange(range, r.at) /\ r.status # "CANCELLED", Operational)
  IN  MapThenSumSet(
        LAMBDA b : SumOver(sessionRevenue, Only(LAMBDA r : Bucket(period, r.at) = b, inside)),
        0 .. BucketCount(period, range) - 1)

\* todayStartDate, startOfToday: midnight where the server is.
ServerMidnight == ServerOffset + HoursPerDay * ((now - ServerOffset) \div HoursPerDay)
SinceMidnight ==
  Only(LAMBDA r : r.at >= ServerMidnight /\ r.status # "CANCELLED", Operational)

\* _queryDbMeta: the counter of the live screen.
LiveCount == Cardinality(DOMAIN SinceMidnight)

\* computeStats of getChairOverview: the revenue of today.
ChairToday(c) == SumOver(FinalAmount, Only(LAMBDA r : r.chair = c, SinceMidnight))

\* getTodayDashboard: the gross revenue of one shift.
AssistantGross(s) == SumOver(FinalAmount, Only(LAMBDA r : r.shift = s, Operational))

\* buildCurrentShiftLive: the card of the open shift.
LiveShift(s) ==
  LET C == Only(LAMBDA r : r.shift = s /\ r.status # "CANCELLED", Operational)
  IN  [gross |-> SumOver(sessionRevenue, C), prime |-> PlanCommission(C)]

\* calculateShiftPrimeSummary: the prime that is taken from the till.
\* A massage as the calculation reads it.
Massage(i, r) ==
  [no |-> i, expected |-> r.expected, corrected |-> r.corrected, billing |-> r.billing,
   plan |-> r.plan, start |-> r.at,
   anomaly |-> IF "TOO_SHORT" \in r.anomaly THEN "TOO_SHORT"
               ELSE IF "TOO_LONG" \in r.anomaly THEN "TOO_LONG" ELSE None]
MassagesOf(s) ==
  LET C == Only(LAMBDA r : r.shift = s /\ r.status = "COMPLETED", Operational)
  IN  {Massage(i, C[i]) : i \in DOMAIN C}

\* The hour at which a shift opens, the one its bonus is asked for.
OpenedAt(s) == CHOOSE t \in Hour : ShiftAt[t] = s /\ \A u \in Hour : ShiftAt[u] = s => t <= u
CommissionTaken(s) == MapThenSumSet(Taken!CommissionOf, MassagesOf(s))
PrimeTaken(s) ==
  {p.prime : p \in Taken!calculateShiftPrimeSummary(MassagesOf(s), OpenedAt(s), ManualBonus[s])}

-----------------------------------------------------------------------------
(* Properties *)

TypeOK ==
  /\ world \in World
  /\ enabled \subseteq Chair
  /\ now \in Hour
  /\ rows \in Seq(Row \cup {None}) /\ Len(rows) <= world.sessions
  /\ edits \in 0 .. world.edits
  /\ PricingTypeOK
  /\ \A k \in DOMAIN rules : rules[k] \in Taken!RuleRow
  /\ \A k \in DOMAIN bonuses : bonuses[k] \in Taken!BonusRow
  /\ creating \in [Owner -> Taken!Draft \cup {None}]

(***************************************************************************)
(* The home page counts every massage once: none twice, none that did not  *)
(* match the filter at some moment of the request, and none missing of     *)
(* those that matched throughout, but for one per batch whose cursor, the  *)
(* last massage of the batch before, was archived or corrected out of the  *)
(* filter in between, and but for the rest if it was deleted               *)
(* (home-dashboard.service.ts, the loop of _getUncached).                  *)
(***************************************************************************)
EveryMassageCountsOnce ==
  request.phase = "done" =>
    LET ids == {i \in DOMAIN request.counted : request.counted[i] > 0} IN
    /\ \A i \in ids : request.counted[i] = 1
    /\ ids \subseteq request.ever
    /\ ~request.cut => Cardinality(request.steady \ ids) <= request.skipped

\* The home page of a moment at which nobody writes.
Asked(raw) == Normalized(raw)
Counted(f) == [i \in Matching(f, rows) |-> rows[i]]
TodayAll ==
  [preset |-> "today", dates |-> <<0, 0>>, status |-> All, staff |-> All, shift |-> All,
   chair |-> All, window |-> All, chart |-> "day"]

(***************************************************************************)
(* The home page adds up, for every filter of the world: the lines of the chairs and    *)
(* the massages of disabled chairs make the gross revenue; so do the bars, *)
(* but for days past the last bar of a month; and the counters of the      *)
(* summary are what the page shows when it is filtered by that status      *)
(* (session-metrics.logic.ts, home-dashboard.service.ts,                   *)
(* dashboard-filters.ts).                                                  *)
(***************************************************************************)
HomeAddsUp ==
  request.phase = "idle" => \A raw \in world.filters :
    LET f == Asked(raw)
        C == Counted(f)
        hidden == Only(LAMBDA r : r.chair \notin enabled, C)
        noBar == Only(LAMBDA r : Bucket(f.chart, r.at) >= BucketCount(f.chart, f.range), C)
    IN /\ Summary(C).gross = MapThenSumSet(LAMBDA c : ByChair(C)[c], enabled)
                               + SumOver(sessionRevenue, hidden)
       /\ Summary(C).gross = ChartTotal(f, C) + SumOver(sessionRevenue, noBar)
       /\ f.range[2] \in DaysOf(MonthOf(f.range[1])) => noBar = <<>>
       /\ f.status = All =>
            \A status \in {"ACTIVE", "COMPLETED", "PENDING", "CORRECTED"} :
              Summary(C)[status] = Summary(Counted([f EXCEPT !.status = status])).sessions

(***************************************************************************)
(* The pages agree on the money: the chart of revenues with the home page  *)
(* of the same period; the page of a chair, and the counter of the live    *)
(* screen, with the home page from the server's midnight on; the page of   *)
(* an assistant with the home page of her shift.  They differ by nothing   *)
(* but the corrections of massages that still run, which the home page     *)
(* leaves out (dashboard.service.ts, chair-detail.service.ts,              *)
(* assistant.service.ts).                                                  *)
(***************************************************************************)
PagesAgree ==
  request.phase = "idle" =>
  LET today == Asked(TodayAll)
      sinceMidnight == [today EXCEPT !.window = <<ServerOffset, HoursPerDay>>]
      early == Only(LAMBDA r : r.status = "ACTIVE", Operational)
  IN /\ \A period \in {"day", "week", "month", "year"} :
          RevenueStats(period) =
            Summary(Counted(Asked([TodayAll EXCEPT !.preset = PresetOf(period)]))).gross
     /\ HourOf(now) >= ServerOffset =>
          /\ LiveCount = Summary(Counted(sinceMidnight)).sessions
          /\ \A c \in Chair :
               ChairToday(c) =
                 Summary(Counted([sinceMidnight EXCEPT !.chair = c])).gross
                   + SumOver(FinalAmount, Only(LAMBDA r : r.chair = c /\ r.at >= ServerMidnight,
                                               early))
     /\ \A s \in Shift :
          LET mine == Only(LAMBDA r : r.shift = s, Operational) IN
          (\A i \in DOMAIN mine : Day(mine[i].at) = Today) =>
             AssistantGross(s) = Summary(Counted([today EXCEPT !.shift = s])).gross
                                   + SumOver(FinalAmount, Only(LAMBDA r : r.shift = s, early))

(***************************************************************************)
(* Whatever happened to the massages before, the pages an owner compares   *)
(* show the same money.                                                    *)
(***************************************************************************)
FiguresAgree == HomeAddsUp /\ PagesAgree

\* The rules as the prime of a shift with the massages C finds them.  One rate:
\* two rules of a plan that are active, which a patch may leave, pay alike.
OneRate(C) ==
  \A i \in DOMAIN C : \A k, l \in RuleOf(C[i].plan) : rules[k].is = rules[l].is
\* The active rules of the plans have stood since before the massages.
RatesStand(C) ==
  \A i \in DOMAIN C : \A k \in RuleOf(C[i].plan) : Taken!ValidAt(rules[k], C[i].at)
\* The active bonuses have stood since the shift opened, one amount per target.
TargetsStand(s) ==
  \A k \in DOMAIN bonuses : bonuses[k].active =>
    /\ Taken!ValidAt(bonuses[k], OpenedAt(s))
    /\ \A l \in DOMAIN bonuses :
         bonuses[l].active /\ bonuses[l].is.target = bonuses[k].is.target
           => bonuses[l].is.amount = bonuses[k].is.amount

(***************************************************************************)
(* What an owner reads of the prime of a shift against what is taken from  *)
(* the till, whatever the owner does to the rules meanwhile.  The home     *)
(* page asks whether a rule is active now, the calculation also whether it *)
(* was in force at the massage (session-metrics.logic.ts and               *)
(* home-dashboard.service.ts, prime-calculation.service.ts).  As long as   *)
(* the active rules of a plan pay alike, the commission on the card of the *)
(* open shift is never less than what the till pays; and when they were in *)
(* force at the massages of the shift, the two are equal.  When the bonus  *)
(* rules stood as the shift opened, too, the whole prime that the home     *)
(* page of the day shows for the shift is the one that is taken, unless a  *)
(* correction of a massage under review counts towards the target.  After  *)
(* an edit of a rule in the middle of a shift the pages may differ.        *)
(***************************************************************************)
PrimeShownIsPrimeTaken ==
  request.phase = "idle" =>
  \A s \in Shift :
    LET C == Only(LAMBDA r : r.shift = s, Operational) IN
    OneRate(C) =>
      /\ LiveShift(s).prime >= CommissionTaken(s)
      /\ RatesStand(C) => LiveShift(s).prime = CommissionTaken(s)
      /\ (/\ RatesStand(C) /\ TargetsStand(s)
          /\ C # <<>>
          /\ \A i \in DOMAIN C : Day(C[i].at) = Today
          /\ \A i \in DOMAIN C : C[i].status = "UNCERTAIN" => FinalAmount(C[i]) = 0) =>
            {TotalPrime(Counted([Asked(TodayAll) EXCEPT !.shift = s]))} = PrimeTaken(s)
=============================================================================
