------------------------------- MODULE Shifts -------------------------------
(***************************************************************************)
(* The shifts of the shop: opened by the check that follows the planning,  *)
(* by the assistant or by an admin, closed by the check, by an admin who   *)
(* opens another one or by hand, opened again by the check, deleted.       *)
(*                                                                         *)
(* The check reads, decides and writes in separate calls, so two checks    *)
(* (the job, the cron request, the button) and the handlers interleave.    *)
(* What keeps them apart is in Postgres: partial unique indexes, and a     *)
(* condition in some of the updates.                                       *)
(*                                                                         *)
(* Time is counted in slots, the quarters of an hour at which the job      *)
(* runs; a day has DaySlots of them, and times of the day are slots from   *)
(* its beginning.  The planning does not change.                           *)
(***************************************************************************)
EXTENDS Integers, FiniteSets

CONSTANTS
  Shift,          \* rows of the table shifts
  Massage,        \* rows of chair_sessions
  Type,           \* active shift types, the periods of a day
  Schedule,       \* active rows of staff_schedules
  Checker,        \* runs of the automatic check
  Handler,        \* requests of the admin and of the assistant
  Window,         \* [Type -> [start: Nat, end: Nat]], times of the day
  Rota,           \* [Schedule -> [type: Type, days: SUBSET Nat]]
  ShopOpen,       \* AUTO_SHIFT_SHOP_OPEN_TIME
  ShopClose,      \* AUTO_SHIFT_SHOP_CLOSE_TIME
  MaxOpen,        \* DEFAULT_MAX_OPEN_SHIFT_MS, in slots
  DaySlots,
  LastSlot,       \* bound: the clock stops there
  None            \* null

(***************************************************************************)
(* The periods of a day lie one after the other and within the opening     *)
(* hours, as the settings and the default hours have them.                 *)
(***************************************************************************)
ASSUME TimeAssumption ==
  /\ DaySlots \in Nat \ {0} /\ LastSlot \in Nat /\ MaxOpen \in Nat
  /\ ShopOpen \in Nat /\ ShopClose \in Nat
ASSUME WindowAssumption ==
  /\ Window \in [Type -> [start: 0..DaySlots, end: 0..ShopClose]]
  /\ \A t, u \in Type :
       t # u => Window[t].end <= Window[u].start \/ Window[u].end <= Window[t].start
ASSUME RotaAssumption == Rota \in [Schedule -> [type: Type, days: SUBSET Nat]]
ASSUME NoneAssumption == None \notin Shift \cup Type \cup Schedule \cup Int
ASSUME ActorAssumption == Checker \cap Handler = {}

VARIABLES
  now,            \* the current slot
  selfStart,      \* SELF_START_SHIFT_ENABLED; rigid
  shift,          \* [Shift -> ShiftRow]
  massage,        \* [Massage -> MassageRow]; of one that is over nothing is kept
  starting,       \* the poll that starts a massage, and the shift it found
  task,           \* [Actor -> Task]
  calm            \* history: "no", "one check is alone", "settled" (see Disturb)

vars == <<now, selfStart, shift, massage, starting, task, calm>>

Actor == Checker \cup Handler

-----------------------------------------------------------------------------
ShiftRow ==
  [status: {"FREE", "OPEN", "CLOSED", "GONE"}, type: Type \cup {None},
   schedule: Schedule \cup {None}, date: Nat \cup {None},
   from: Nat \cup {None}, until: Nat \cup {None},
   started: Nat, ended: Nat \cup {None}]

FreeRow == [status |-> "FREE", type |-> None, schedule |-> None, date |-> None,
            from |-> None, until |-> None, started |-> 0, ended |-> None]

MassageRow == [state: {"free", "massaging", "fading", "over"},
               shift: Shift \cup {None}]

Reason == {"DAILY_CLOSE", "PERIOD_HANDOFF", "BEFORE_SCHEDULED_START",
           "SCHEDULE_END", "STALE_BUSINESS_DATE", "STALE_STARTED_AT",
           "MAX_DURATION", "BEFORE_NEW_OPEN", "BEFORE_MANUAL_OPEN"}

Step == {"idle", "listing", "closing", "recovering", "stamping", "planning",
         "blocking", "opening", "creating", "finishing", "priming"}

(***************************************************************************)
(* What a task carries: the slot its check began in, the shift it works on *)
(* with the reason and the time of its end, the schedule it is to open     *)
(* with the row found for it, and the step that follows an automatic       *)
(* close.                                                                  *)
(***************************************************************************)
Task ==
  [step: Step, at: Nat, shift: Shift \cup {None}, reason: Reason \cup {None},
   ended: Nat, schedule: Schedule \cup {None}, existing: Shift \cup {None},
   then: Step]

Idle == [step |-> "idle", at |-> 0, shift |-> None, reason |-> None, ended |-> 0,
         schedule |-> None, existing |-> None, then |-> "idle"]

NotStarting == [on |-> FALSE, shift |-> None]

TypeOK ==
  /\ now \in Nat
  /\ selfStart \in BOOLEAN
  /\ shift \in [Shift -> ShiftRow]
  /\ \A s \in Shift : shift[s].status = "CLOSED" <=> shift[s].ended # None
  /\ massage \in [Massage -> MassageRow]
  /\ starting \in [on: BOOLEAN, shift: Shift \cup {None}]
  /\ task \in [Actor -> Task]
  /\ calm \in {"no", "alone", "settled"}

Init ==
  /\ now = 0
  /\ selfStart \in BOOLEAN
  /\ shift = [s \in Shift |-> FreeRow]
  /\ massage = [m \in Massage |-> [state |-> "free", shift |-> None]]
  /\ starting = NotStarting
  /\ task = [a \in Actor |-> Idle]
  /\ calm = "no"

-----------------------------------------------------------------------------
(***************************************************************************)
(* The time of the day and the planning.                                   *)
(***************************************************************************)
BusinessDate(slot) == slot \div DaySlots

buildScheduledDatetime(date, time) == date * DaySlots + time

isWithinShiftPeriod(t, slot, date) ==
  /\ buildScheduledDatetime(date, Window[t].start) <= slot
  /\ slot < buildScheduledDatetime(date, Window[t].end)

\* The windows are disjoint, so there is nothing to sort.
findActiveShiftTypeAtTime(slot, date) ==
  IF \E t \in Type : isWithinShiftPeriod(t, slot, date)
  THEN CHOOSE t \in Type : isWithinShiftPeriod(t, slot, date)
  ELSE None

\* The row with the smallest id; any fixed choice will do.
selectScheduleForActiveShiftType(t, date) ==
  IF \E c \in Schedule : Rota[c].type = t /\ date \in Rota[c].days
  THEN CHOOSE c \in Schedule : Rota[c].type = t /\ date \in Rota[c].days
  ELSE None

\* The schedule to open at a slot, or None.
evaluatePeriodOpen(slot, date) ==
  LET t == findActiveShiftTypeAtTime(slot, date) IN
  IF t = None \/ slot < buildScheduledDatetime(date, ShopOpen) THEN None
  ELSE selectScheduleForActiveShiftType(t, date)

resolveAutoShiftStartedAt(from, slot) == IF slot >= from THEN from ELSE slot

-----------------------------------------------------------------------------
(***************************************************************************)
(* When an open shift is to be closed: the reason, or None.  The rules are *)
(* tried in the order of the code.                                         *)
(***************************************************************************)
DailyCloseEarly(slot, today) == slot + 1 >= buildScheduledDatetime(today, ShopClose)
DailyClose(slot, today) == slot >= buildScheduledDatetime(today, ShopClose)

NotAfterItsStart(r, slot, today) ==
  r.date = today /\ r.from # None /\ slot <= r.from
BeforeItsStart(r, slot, today) ==
  r.date = today /\ r.from # None /\ slot < r.from

InsideItsWindow(r, slot, today) ==
  r.date = today /\ r.until # None /\ slot < r.until

NeverStale(r, today) == FALSE             \* mutant of StartedEarlier
StartedEarlier(r, today) ==
  r.date = None /\ r.started < buildScheduledDatetime(today, 0)

evaluateShiftClose(r, slot, today, active) ==
  IF r.status # "OPEN" THEN None
  ELSE IF r.date = today /\ DailyClose(slot, today) THEN "DAILY_CLOSE"
  ELSE IF r.date = today /\ None \notin {active, r.type} /\ r.type # active THEN "PERIOD_HANDOFF"
  ELSE IF BeforeItsStart(r, slot, today) THEN "BEFORE_SCHEDULED_START"
  ELSE IF InsideItsWindow(r, slot, today) THEN None
  ELSE IF r.until # None /\ r.until <= slot THEN "SCHEDULE_END"
  ELSE IF r.date # None /\ r.date < today THEN "STALE_BUSINESS_DATE"
  ELSE IF StartedEarlier(r, today) THEN "STALE_STARTED_AT"
  ELSE IF r.until = None /\ slot - r.started > MaxOpen THEN "MAX_DURATION"
  ELSE None

ClosingTime(r, reason, slot, today) ==
  CASE reason = "DAILY_CLOSE" -> buildScheduledDatetime(today, ShopClose)
    [] reason = "SCHEDULE_END" -> r.until
    [] OTHER -> slot

DailyOrStale(reason) ==
  reason \in {"DAILY_CLOSE", "STALE_BUSINESS_DATE", "STALE_STARTED_AT", "MAX_DURATION"}

-----------------------------------------------------------------------------
(***************************************************************************)
(* The database: the two partial unique indexes of the table.              *)
(***************************************************************************)
AnyMayOpen(s) == TRUE                     \* mutant of UniqueOpenShift
UniqueOpenShift(s) == \A o \in Shift \ {s} : shift[o].status # "OPEN"

UniqueAutoShift(c, date) ==
  \A o \in Shift : ~(shift[o].schedule = c /\ shift[o].date = date)

FreeShift == {s \in Shift : shift[s].status = "FREE"}

NewShift == CHOOSE s \in Shift : shift[s].status = "FREE"

MayInsert == FreeShift # {} /\ UniqueOpenShift(NewShift)

ListOpenShifts == {s \in Shift : shift[s].status = "OPEN"}

(***************************************************************************)
(* History: whether a whole check has run in this slot with nothing else   *)
(* in between, and nothing has happened since but further checks.          *)
(***************************************************************************)
Disturb == calm' = "no"

BeginCalm(a) ==
  calm' = IF calm = "settled" THEN "settled"
          ELSE IF \A b \in Actor \ {a} : task[b].step = "idle" THEN "alone"
          ELSE "no"

EndCalm == calm' = IF calm = "alone" THEN "settled" ELSE calm

At(a, step) == task[a].step = step

\* What the steps of an automatic check and of a close leave alone.
Rest == UNCHANGED <<now, selfStart, starting>>

-----------------------------------------------------------------------------
(***************************************************************************)
(* autoCloseShift, for whoever calls it: read the row, finalize what can   *)
(* be finalized of its massages, refuse if one is going on and the reason  *)
(* does not allow that, close the row if it is still open.                 *)
(***************************************************************************)
Over == [state |-> "over", shift |-> None]

Finalized(s) ==
  [m \in Massage |->
    IF massage[m].shift = s /\ massage[m].state = "fading"
    THEN Over ELSE massage[m]]

Blocked(s, reason) ==
  /\ DailyOrStale(reason)
  /\ \E m \in Massage : massage[m].shift = s /\ massage[m].state = "massaging"

Return(a) ==
  task' = [task EXCEPT ![a] = [task[a] EXCEPT !.step = task[a].then, !.shift = None,
                                 !.reason = None, !.ended = 0, !.then = "idle"]]

AutoCloseRead(a) ==
  /\ At(a, "closing")
  /\ IF shift[task[a].shift].status = "OPEN"
     THEN task' = [task EXCEPT ![a].step = "recovering"]
     ELSE Return(a)
  /\ UNCHANGED <<shift, massage, calm>> /\ Rest

canAutoCloseShift(a) ==
  /\ At(a, "recovering")
  /\ massage' = Finalized(task[a].shift)
  /\ IF Blocked(task[a].shift, task[a].reason)
     THEN Return(a)
     ELSE task' = [task EXCEPT ![a].step = "stamping"]
  /\ UNCHANGED <<shift, calm>> /\ Rest

EndOfClose(a) ==
  IF task[a].reason = "BEFORE_MANUAL_OPEN" THEN now ELSE task[a].ended

CloseAnyRow(s, at) ==                     \* mutant of CloseIfOpen
  shift' = [shift EXCEPT ![s].status = "CLOSED", ![s].ended = at]

CloseIfOpen(s, at) ==
  shift' = IF shift[s].status = "OPEN"
           THEN [shift EXCEPT ![s].status = "CLOSED", ![s].ended = at] ELSE shift

AutoCloseWrite(a) ==
  /\ At(a, "stamping")
  /\ CloseIfOpen(task[a].shift, EndOfClose(a))
  /\ Return(a)
  /\ UNCHANGED <<massage, calm>> /\ Rest

-----------------------------------------------------------------------------
(***************************************************************************)
(* The automatic check: close what has to be closed, then open what the    *)
(* planning has for this slot.  It computes with the time it began at.     *)
(***************************************************************************)
BeginCheck(c) ==
  /\ At(c, "idle")
  /\ task' = [task EXCEPT ![c] = [Idle EXCEPT !.step = "listing", !.at = now]]
  /\ BeginCalm(c)
  /\ UNCHANGED <<shift, massage>> /\ Rest

CloseReason(c, s) ==
  evaluateShiftClose(shift[s], task[c].at, BusinessDate(now),
    findActiveShiftTypeAtTime(task[c].at, BusinessDate(task[c].at)))

EligibleShifts(c) == {s \in ListOpenShifts : CloseReason(c, s) # None}

\* The index leaves one row to list at most.
CloseEligible(c) ==
  /\ At(c, "listing")
  /\ IF EligibleShifts(c) = {}
     THEN task' = [task EXCEPT ![c].step = "planning"]
     ELSE \E s \in EligibleShifts(c) :
       task' = [task EXCEPT ![c] =
         [task[c] EXCEPT !.step = "closing", !.shift = s, !.then = "planning",
            !.reason = CloseReason(c, s),
            !.ended = ClosingTime(shift[s], CloseReason(c, s),
                                  task[c].at, BusinessDate(now))]]
  /\ UNCHANGED <<shift, massage, calm>> /\ Rest

EndCheck(c) ==
  /\ task' = [task EXCEPT ![c] = Idle]
  /\ EndCalm

\* openDueShifts up to the row found for today's schedule.
PlanPeriod(c) ==
  /\ At(c, "planning")
  /\ LET today    == BusinessDate(now)
         schedule == evaluatePeriodOpen(task[c].at, today)
         existing == {s \in Shift : shift[s].status \in {"OPEN", "CLOSED"} /\
                       shift[s].schedule = schedule /\ shift[s].date = today}
     IN IF selfStart \/ schedule = None \/ \E s \in existing : shift[s].status = "OPEN"
        THEN EndCheck(c)
        ELSE /\ \E s \in IF existing = {} THEN {None} ELSE existing :
                  task' = [task EXCEPT ![c].step = "blocking",
                             ![c].schedule = schedule, ![c].existing = s]
             /\ UNCHANGED calm
  /\ UNCHANGED <<shift, massage>> /\ Rest

closeBlockingOpenShiftsBeforeOpen(c) ==
  /\ At(c, "blocking")
  /\ IF EligibleShifts(c) = {}
     THEN task' = [task EXCEPT ![c].step = "opening"]
     ELSE \E s \in EligibleShifts(c) :
       task' = [task EXCEPT ![c] =
         [task[c] EXCEPT !.step = "closing", !.shift = s, !.then = "opening",
            !.reason = "BEFORE_NEW_OPEN", !.ended = task[c].at]]
  /\ UNCHANGED <<shift, massage, calm>> /\ Rest

buildSelfStartSchedule(t, date) ==
  [from  |-> buildScheduledDatetime(date, Window[t].start),
   until |-> buildScheduledDatetime(date, Window[t].end)]

PlannedTimes(c, date) == buildSelfStartSchedule(Rota[c].type, date)

(***************************************************************************)
(* Opens the row found again if it is closed.  If it is no longer closed   *)
(* nothing happens; if another shift is open the index refuses.            *)
(***************************************************************************)
NeverReopens(s) == FALSE                  \* mutant of MayReopen
MayReopen(s) == shift[s].status = "CLOSED" /\ UniqueOpenShift(s)

ReopenUnended(s, date, times) ==          \* mutant of Reopened
  [shift[s] EXCEPT !.status = "OPEN", !.date = date,
                   !.from = times.from, !.until = times.until]
Reopened(s, date, times) ==
  [shift[s] EXCEPT !.status = "OPEN", !.ended = None, !.date = date,
                   !.from = times.from, !.until = times.until]

reopenScheduledShift(c) ==
  /\ At(c, "opening") /\ task[c].existing # None
  /\ LET s     == task[c].existing
         today == BusinessDate(now)
         times == PlannedTimes(task[c].schedule, today)
     IN shift' = IF MayReopen(s)
                 THEN [shift EXCEPT ![s] = Reopened(s, today, times)] ELSE shift
  /\ EndCheck(c)
  /\ UNCHANGED massage /\ Rest

\* Creates a row; the indexes may refuse, and the check has failed.
CreatePlanned(c) ==
  /\ At(c, "opening") /\ task[c].existing = None
  /\ LET schedule == task[c].schedule
         today    == BusinessDate(now)
         times    == PlannedTimes(schedule, today)
         row      == [status |-> "OPEN", type |-> Rota[schedule].type,
                      schedule |-> schedule, date |-> today,
                      from |-> times.from, until |-> times.until, ended |-> None,
                      started |-> resolveAutoShiftStartedAt(times.from, task[c].at)]
     IN IF UniqueAutoShift(schedule, today) /\ MayInsert
        THEN shift' = [shift EXCEPT ![NewShift] = row]
        ELSE UNCHANGED shift
  /\ EndCheck(c)
  /\ UNCHANGED massage /\ Rest

-----------------------------------------------------------------------------
(***************************************************************************)
(* The handlers.  The admin's openShift closes what is open first; the     *)
(* index decides when it creates the row.  That row has no business date,  *)
(* so that no rule looks at the type the admin may have given it.          *)
(***************************************************************************)
CloseLingering(h) ==
  /\ At(h, "idle")
  /\ IF ListOpenShifts = {}
     THEN task' = [task EXCEPT ![h] = [Idle EXCEPT !.step = "creating"]]
     ELSE \E s \in ListOpenShifts :
       task' = [task EXCEPT ![h] = [Idle EXCEPT !.step = "closing", !.shift = s,
                  !.reason = "BEFORE_MANUAL_OPEN", !.then = "creating"]]
  /\ Disturb
  /\ UNCHANGED <<shift, massage>> /\ Rest

CreateManual(h) ==
  /\ At(h, "creating")
  /\ LET row == [FreeRow EXCEPT !.status = "OPEN", !.started = now] IN
     shift' = IF MayInsert THEN [shift EXCEPT ![NewShift] = row] ELSE shift
  /\ task' = [task EXCEPT ![h] = Idle]
  /\ Disturb
  /\ UNCHANGED massage /\ Rest

(***************************************************************************)
(* The assistant's start: one transaction that looks for an open shift     *)
(* and creates the row, on which the index has the last word.              *)
(***************************************************************************)
startAssistantShift(t) ==
  /\ MayInsert
  /\ LET times == buildSelfStartSchedule(t, BusinessDate(now)) IN
     shift' = [shift EXCEPT ![NewShift] =
       [FreeRow EXCEPT !.status = "OPEN", !.type = t, !.date = BusinessDate(now),
          !.started = now, !.from = times.from, !.until = times.until]]
  /\ Disturb
  /\ UNCHANGED <<massage, task>> /\ Rest

\* What only the assistant may do, and only in this mode.
AssistantStart == selfStart /\ \E t \in Type : startAssistantShift(t)

\* closeShift, by an admin or by the assistant, reads the row,
BeginClose(h, s) ==
  /\ At(h, "idle")
  /\ shift[s].status = "OPEN"
  /\ task' = [task EXCEPT ![h] = [Idle EXCEPT !.step = "finishing", !.shift = s]]
  /\ Disturb
  /\ UNCHANGED <<shift, massage>> /\ Rest

\* (the assistant's own, which is the one that is open)
closeAssistantShift(h) == selfStart /\ \E s \in ListOpenShifts : BeginClose(h, s)

\* finalizes the massages that can be,
FinishMassages(h) ==
  /\ At(h, "finishing")
  /\ massage' = Finalized(task[h].shift)
  /\ task' = [task EXCEPT ![h].step = "priming"]
  /\ Disturb
  /\ UNCHANGED shift /\ Rest

\* gives up when the prime cannot be recorded or the row is gone, or else
\* writes the row, whatever its status is by now.
GiveUpClose(h) ==
  /\ At(h, "priming")
  /\ task' = [task EXCEPT ![h] = Idle]
  /\ Disturb
  /\ UNCHANGED <<shift, massage>> /\ Rest

WriteClose(h) ==
  /\ At(h, "priming")
  /\ LET s == task[h].shift IN
     /\ shift[s].status # "GONE"
     /\ shift' = [shift EXCEPT ![s].status = "CLOSED", ![s].ended = now]
  /\ task' = [task EXCEPT ![h] = Idle]
  /\ Disturb
  /\ UNCHANGED massage /\ Rest

\* The massages of a deleted shift are detached, not deleted.
deleteShift(s) ==
  /\ shift[s].status \in {"OPEN", "CLOSED"}
  /\ shift' = [shift EXCEPT ![s] = [FreeRow EXCEPT !.status = "GONE"]]
  /\ massage' = [m \in Massage |->
       IF massage[m].shift = s THEN [massage[m] EXCEPT !.shift = None] ELSE massage[m]]
  /\ Disturb
  /\ UNCHANGED task /\ Rest

-----------------------------------------------------------------------------
(***************************************************************************)
(* The massages: a poll that confirms a start asks for the open shift and  *)
(* creates the session afterwards, with the foreign key of a shift that    *)
(* must still exist.  A fading massage has low power and may be finalized. *)
(***************************************************************************)
shouldBlockFinancialSessionCreation == selfStart /\ Cardinality(ListOpenShifts) # 1

resolveOpenShiftForSession ==
  /\ ~starting.on
  /\ \E m \in Massage : massage[m].state = "free"
  /\ ~shouldBlockFinancialSessionCreation
  /\ \/ /\ ListOpenShifts = {}
        /\ starting' = [on |-> TRUE, shift |-> None]
     \/ \E s \in Shift :
          /\ ListOpenShifts = {s}
          /\ starting' = [on |-> TRUE, shift |-> s]
  /\ Disturb
  /\ UNCHANGED <<now, selfStart, shift, massage, task>>

StartMassage(m) ==
  /\ starting.on /\ massage[m].state = "free"
  /\ massage' = IF starting.shift # None /\ shift[starting.shift].status = "GONE"
                THEN massage
                ELSE [massage EXCEPT ![m] = [state |-> "massaging",
                                             shift |-> starting.shift]]
  /\ starting' = NotStarting
  /\ Disturb
  /\ UNCHANGED <<now, selfStart, shift, task>>

Fade(m) ==
  /\ massage[m].state = "massaging"
  /\ massage' = [massage EXCEPT ![m].state = "fading"]
  /\ Disturb
  /\ UNCHANGED <<shift, task>> /\ Rest

EndMassage(m) ==
  /\ massage[m].state = "fading"
  /\ massage' = [massage EXCEPT ![m] = Over]
  /\ Disturb
  /\ UNCHANGED <<shift, task>> /\ Rest

\* Quarter by quarter, up to the bound; a check that began before the last
\* quarter is over.
TimePasses ==
  /\ now < LastSlot
  /\ \A c \in Checker : At(c, "idle") \/ task[c].at = now
  /\ now' = now + 1
  /\ Disturb
  /\ UNCHANGED <<selfStart, shift, massage, starting, task>>

-----------------------------------------------------------------------------
AutoClose(a) == AutoCloseRead(a) \/ canAutoCloseShift(a) \/ AutoCloseWrite(a)

runAutoShiftCheck(c) ==
  \/ BeginCheck(c) \/ CloseEligible(c) \/ PlanPeriod(c)
  \/ closeBlockingOpenShiftsBeforeOpen(c)
  \/ reopenScheduledShift(c) \/ CreatePlanned(c)
  \/ AutoClose(c)

HandlerStep(h) ==
  \/ AutoClose(h) \/ CreateManual(h) \/ FinishMassages(h)
  \/ GiveUpClose(h) \/ WriteClose(h)

Request(h) ==
  \/ CloseLingering(h)
  \/ \E s \in Shift : BeginClose(h, s)
  \/ closeAssistantShift(h)

MassageStep(m) == StartMassage(m) \/ Fade(m) \/ EndMassage(m)

Next ==
  \/ \E c \in Checker : runAutoShiftCheck(c)
  \/ \E h \in Handler : HandlerStep(h) \/ Request(h)
  \/ \E s \in Shift : deleteShift(s)
  \/ AssistantStart
  \/ resolveOpenShiftForSession
  \/ \E m \in Massage : MassageStep(m)
  \/ TimePasses

Spec == Init /\ [][Next]_vars

(***************************************************************************)
(* The job runs at every quarter and its calls are answered, a massage     *)
(* ends some time, the clock goes on.  Nothing is assumed of people.       *)
(***************************************************************************)
FairSpec ==
  /\ Spec
  /\ \A c \in Checker : WF_vars(runAutoShiftCheck(c))
  /\ \A m \in Massage : WF_vars(MassageStep(m))
  /\ WF_vars(TimePasses)

-----------------------------------------------------------------------------
(***************************************************************************)
(* The shifts implement ShopShifts: one open shift at a time, whoever      *)
(* opens, closes, reopens or deletes it, and in whatever order the reads   *)
(* and the writes come.                                                    *)
(***************************************************************************)
Shop == INSTANCE ShopShifts WITH
          open  <- {s \in Shift : shift[s].status = "OPEN"},
          ended <- {s \in Shift : shift[s].status = "CLOSED"}

ImplementsShopShifts == Shop!Spec

(***************************************************************************)
(* At most one shift is open (partial unique index).                       *)
(***************************************************************************)
OneOpenShift ==
  \A s, o \in Shift : shift[s].status = "OPEN" /\ shift[o].status = "OPEN" => s = o

(***************************************************************************)
(* Only a person ends a shift twice: the row of a shift that has ended is  *)
(* left as it is by an automatic close, whoever else closed it since the   *)
(* check read it ("idempotent", autoCloseShift).                           *)
(***************************************************************************)
AutoCloseKeepsTheEnd ==
  [][\A a \in Actor, s \in Shift :
       At(a, "stamping") /\ task'[a].step # "stamping" /\ shift[s].status = "CLOSED"
         => shift'[s] = shift[s]]_vars

(***************************************************************************)
(* A check does not close the shift of the period it runs in: today's, of  *)
(* the active type, between its scheduled times.                           *)
(***************************************************************************)
CheckKeepsCurrentShift ==
  [][\A c \in Checker, s \in Shift :
       /\ At(c, "stamping") /\ task'[c].step # "stamping"
       /\ shift[s].status = "OPEN" /\ shift'[s].status = "CLOSED"
       => ~(/\ shift[s].date = BusinessDate(task[c].at)
            /\ BusinessDate(now) = BusinessDate(task[c].at)
            /\ isWithinShiftPeriod(shift[s].type, task[c].at, shift[s].date))]_vars

(***************************************************************************)
(* A shift that has outlived its planned end or its day is closed, also if *)
(* a massage is going on when the check first comes by.                    *)
(***************************************************************************)
Outlived(s) ==
  /\ shift[s].status = "OPEN"
  /\ \/ shift[s].until # None /\ shift[s].until <= now
     \/ shift[s].started < buildScheduledDatetime(BusinessDate(now), 0)

OutlivedShiftsClose == \A s \in Shift : Outlived(s) ~> shift[s].status # "OPEN"

(***************************************************************************)
(* A check that has run alone leaves a planned period staffed, even if     *)
(* somebody closed or deleted its shift (as long as there are rows), and   *)
(* nothing to do: a second one in the same slot changes no shift ("Central *)
(* idempotent auto-shift check").                                          *)
(***************************************************************************)
Unstaffed ==
  /\ ~selfStart
  /\ ListOpenShifts = {}
  /\ evaluatePeriodOpen(now, BusinessDate(now)) # None
  /\ \E s \in Shift : shift[s].status = "FREE"

CheckSettles ==
  [][calm' = "settled" =>
       /\ calm = "alone" => ~Unstaffed'
       /\ calm = "settled" => shift' = shift]_vars
=============================================================================
