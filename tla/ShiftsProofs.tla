---------------------------- MODULE ShiftsProofs ----------------------------
(***************************************************************************)
(* What TLAPS proves of Shifts, for any number of shifts, massages, checks *)
(* and requests, any planning and any hours.                               *)
(*                                                                         *)
(* The argument: every row becomes OPEN through an insert or an update     *)
(* that the unique index has allowed, so that no other one is open; what   *)
(* an actor carries from its reads to its write names a row that has been  *)
(* inserted (TaskSound), so that a write never makes a row out of nothing; *)
(* and the rows of the planning have the type and the times of their       *)
(* window (RowSound), which is what the close rules are about.             *)
(***************************************************************************)
EXTENDS Shifts, TLAPS

(***************************************************************************)
(* What an actor carries is usable by its next step.                       *)
(***************************************************************************)
Working(k) == k.step \in {"closing", "recovering", "stamping", "finishing", "priming"}

AutoClosing(k) == k.step \in {"closing", "recovering", "stamping"}

Opening(k) == k.step \in {"blocking", "opening"} \/ (AutoClosing(k) /\ k.then = "opening")

TaskSound(k, rows) ==
  /\ Working(k) => k.shift \in Shift /\ rows[k.shift].status # "FREE"
  /\ AutoClosing(k) => k.then \in {"planning", "opening", "creating"}
  /\ Opening(k) =>
       /\ k.schedule \in Schedule
       /\ k.existing # None =>
            /\ rows[k.existing].status # "FREE"
            /\ rows[k.existing].status # "GONE" => rows[k.existing].schedule = k.schedule

(***************************************************************************)
(* A row with a business date has the times of its type on that day; a row *)
(* of the planning has the type of its schedule.                           *)
(***************************************************************************)
RowSound(r) ==
  /\ r.date # None =>
       /\ r.type \in Type
       /\ r.from = buildScheduledDatetime(r.date, Window[r.type].start)
       /\ r.until = buildScheduledDatetime(r.date, Window[r.type].end)
  /\ r.schedule # None => r.type = Rota[r.schedule].type /\ r.date # None

ShiftsInv ==
  /\ TypeOK
  /\ OneOpenShift
  /\ \A s \in Shift : RowSound(shift[s])
  /\ \A a \in Actor : TaskSound(task[a], shift)

-----------------------------------------------------------------------------
(***************************************************************************)
(* How a step may change the rows: leave them, or give one of them a sound *)
(* row on one of the ways a shift goes.                                    *)
(***************************************************************************)
Way(before, after) ==
  \/ before = "FREE" /\ after = "OPEN"
  \/ before \in {"OPEN", "CLOSED"} /\ after \in {"CLOSED", "GONE"}
  \/ before = "CLOSED" /\ after = "OPEN"

Changes(s, r) ==
  /\ shift' = [shift EXCEPT ![s] = r]
  /\ Way(shift[s].status, r.status)
  /\ r.status = "CLOSED" <=> r.ended # None
  /\ r.status = "OPEN" => UniqueOpenShift(s)
  /\ RowSound(r)
  /\ shift[s].status # "FREE" /\ r.status # "GONE" => r.schedule = shift[s].schedule

RowsStep == shift' = shift \/ \E s \in Shift, r \in ShiftRow : Changes(s, r)

TaskStep ==
  task' = task \/ \E a \in Actor, k \in Task : TaskSound(k, shift) /\ task' = [task EXCEPT ![a] = k]

OthersTyped ==
  /\ now' \in Nat
  /\ selfStart' \in BOOLEAN
  /\ massage' \in [Massage -> MassageRow]
  /\ starting' \in [on: BOOLEAN, shift: Shift \cup {None}]
  /\ calm' \in {"no", "alone", "settled"}

LEMMA TaskStaysSound ==
  ASSUME TypeOK, RowsStep, NEW k \in Task, TaskSound(k, shift)
  PROVE  TaskSound(k, shift')
<1>1. CASE shift' = shift
  BY <1>1 DEF TaskSound
<1>2. ASSUME NEW s \in Shift, NEW r \in ShiftRow, Changes(s, r)
      PROVE  TaskSound(k, shift')
  <2>1. \A u \in Shift : shift'[u] = IF u = s THEN r ELSE shift[u]
    BY <1>2 DEF Changes, TypeOK
  <2>2. r.status # "FREE" /\ (shift[s].status = "FREE" \/ shift[s].status # "GONE")
    BY <1>2 DEF Changes, Way
  <2>3. Working(k) => shift'[k.shift].status # "FREE"
    BY <2>1, <2>2 DEF TaskSound, Task
  <2>4. ASSUME Opening(k), k.existing # None
        PROVE  /\ shift'[k.existing].status # "FREE"
               /\ shift'[k.existing].status # "GONE" => shift'[k.existing].schedule = k.schedule
    <3>1. /\ k.existing \in Shift /\ shift[k.existing].status # "FREE"
          /\ shift[k.existing].status # "GONE" => shift[k.existing].schedule = k.schedule
      BY <2>4 DEF TaskSound, Task
    <3>2. CASE k.existing = s
      BY <1>2, <2>1, <2>2, <3>1, <3>2 DEF Changes
    <3>3. CASE k.existing # s
      BY <2>1, <3>1, <3>3
    <3> QED
      BY <3>2, <3>3
  <2> QED
    BY <2>3, <2>4 DEF TaskSound, Opening, Working, AutoClosing
<1> QED
  BY <1>1, <1>2 DEF RowsStep

LEMMA StepKeepsInv ==
  ASSUME ShiftsInv, RowsStep, TaskStep, OthersTyped
  PROVE  ShiftsInv'
<1>1. TypeOK
  BY DEF ShiftsInv
<1>2. /\ shift' \in [Shift -> ShiftRow]
      /\ \A s \in Shift : shift'[s].status = "CLOSED" <=> shift'[s].ended # None
      /\ \A s \in Shift : RowSound(shift'[s])
  <2>1. CASE shift' = shift
    BY <2>1 DEF ShiftsInv, TypeOK
  <2>2. ASSUME NEW s \in Shift, NEW r \in ShiftRow, Changes(s, r)
        PROVE  <1>2!:
    BY <2>2 DEF Changes, ShiftsInv, TypeOK
  <2> QED
    BY <2>1, <2>2 DEF RowsStep
<1>3. OneOpenShift'
  <2>1. CASE shift' = shift
    BY <2>1 DEF ShiftsInv, OneOpenShift
  <2>2. ASSUME NEW s \in Shift, NEW r \in ShiftRow, Changes(s, r)
        PROVE  OneOpenShift'
    BY <1>1, <2>2 DEF Changes, ShiftsInv, TypeOK, OneOpenShift, UniqueOpenShift
  <2> QED
    BY <2>1, <2>2 DEF RowsStep
<1>4. task' \in [Actor -> Task]
  BY <1>1 DEF TaskStep, TypeOK
<1>5. \A a \in Actor : TaskSound(task'[a], shift')
  BY <1>1, TaskStaysSound DEF ShiftsInv, TypeOK, TaskStep
<1> QED
  BY <1>2, <1>3, <1>4, <1>5 DEF ShiftsInv, TypeOK, OthersTyped, RowSound

-----------------------------------------------------------------------------
(***************************************************************************)
(* The time of the day and the planning.                                   *)
(***************************************************************************)
LEMMA DatesAreNat ==
  ASSUME NEW slot \in Nat
  PROVE  BusinessDate(slot) \in Nat
BY TimeAssumption DEF BusinessDate

LEMMA TimesAreNat ==
  ASSUME NEW date \in Nat, NEW time \in Nat
  PROVE  buildScheduledDatetime(date, time) \in Nat
<1>1. date * DaySlots \in Nat
  BY TimeAssumption
<1> QED
  BY <1>1 DEF buildScheduledDatetime

LEMMA WindowsAreNat ==
  ASSUME NEW t \in Type, NEW date \in Nat
  PROVE  /\ Window[t].start \in Nat /\ Window[t].end \in Nat /\ Window[t].end <= ShopClose
         /\ buildSelfStartSchedule(t, date).from \in Nat
         /\ buildSelfStartSchedule(t, date).until \in Nat
<1>1. Window[t].start \in Nat /\ Window[t].end \in Nat /\ Window[t].end <= ShopClose
  BY WindowAssumption, TimeAssumption
<1> QED
  BY <1>1, TimesAreNat DEF buildSelfStartSchedule

LEMMA PlanIsSchedule ==
  ASSUME NEW slot, NEW date, evaluatePeriodOpen(slot, date) # None
  PROVE  evaluatePeriodOpen(slot, date) \in Schedule
BY DEF evaluatePeriodOpen, selectScheduleForActiveShiftType

LEMMA ActiveIsType ==
  ASSUME NEW slot, NEW date
  PROVE  findActiveShiftTypeAtTime(slot, date) \in Type \cup {None}
BY DEF findActiveShiftTypeAtTime

(***************************************************************************)
(* What a check closes is open; the reason and the end are what the row    *)
(* can hold.                                                               *)
(***************************************************************************)
LEMMA EligibleIsOpen ==
  ASSUME TypeOK, NEW c \in Checker, NEW s \in EligibleShifts(c)
  PROVE  /\ s \in Shift /\ shift[s].status = "OPEN"
         /\ CloseReason(c, s) \in Reason /\ CloseReason(c, s) # None
         /\ ClosingTime(shift[s], CloseReason(c, s), task[c].at, BusinessDate(now)) \in Nat
<1> DEFINE reason == CloseReason(c, s)
           active == findActiveShiftTypeAtTime(task[c].at, BusinessDate(task[c].at))
<1>1. s \in Shift /\ shift[s].status = "OPEN" /\ reason # None
  BY DEF EligibleShifts, ListOpenShifts
<1>2. task[c].at \in Nat /\ shift[s] \in ShiftRow /\ BusinessDate(now) \in Nat
  BY <1>1, DatesAreNat DEF TypeOK, Actor, Task
<1>3. reason = evaluateShiftClose(shift[s], task[c].at, BusinessDate(now), active)
  BY DEF CloseReason
<1>4. /\ reason \in Reason
      /\ reason = "SCHEDULE_END" => shift[s].until # None
  <2> HIDE DEF active
  <2> QED
    BY <1>1, <1>3 DEF evaluateShiftClose, Reason
<1>5. ClosingTime(shift[s], reason, task[c].at, BusinessDate(now)) \in Nat
  <2>1. buildScheduledDatetime(BusinessDate(now), ShopClose) \in Nat
    BY <1>2, TimesAreNat, TimeAssumption
  <2>2. shift[s].until \in Nat \cup {None}
    BY <1>2 DEF ShiftRow
  <2> HIDE DEF reason
  <2> QED
    BY <1>2, <1>4, <2>1, <2>2 DEF ClosingTime
<1> QED
  BY <1>1, <1>4, <1>5

-----------------------------------------------------------------------------
(***************************************************************************)
(* The steps, one lemma for each part of a check or of a request.          *)
(***************************************************************************)
LEMMA ReturnIsSound ==
  ASSUME ShiftsInv, NEW a \in Actor, AutoClosing(task[a]), Return(a)
  PROVE  TaskStep
<1> DEFINE k == [task[a] EXCEPT !.step = task[a].then, !.shift = None,
                                !.reason = None, !.ended = 0, !.then = "idle"]
<1>1. task[a] \in Task /\ TaskSound(task[a], shift)
  BY DEF ShiftsInv, TypeOK
<1>2. k \in Task
  BY <1>1 DEF Task, Step
<1>3. TaskSound(k, shift)
  BY <1>1 DEF TaskSound, AutoClosing, Opening, Working, Task
<1> QED
  BY <1>2, <1>3 DEF TaskStep, Return

\* A step of a task that goes on with the same shift.
LEMMA StepIsSound ==
  ASSUME ShiftsInv, NEW a \in Actor, NEW x \in {"recovering", "stamping"},
         AutoClosing(task[a]), task' = [task EXCEPT ![a].step = x]
  PROVE  TaskStep
<1> DEFINE k == [task[a] EXCEPT !.step = x]
<1>1. task[a] \in Task /\ TaskSound(task[a], shift)
  BY DEF ShiftsInv, TypeOK
<1>2. k \in Task
  BY <1>1 DEF Task, Step
<1>3. TaskSound(k, shift)
  BY <1>1 DEF TaskSound, AutoClosing, Opening, Working, Task
<1> QED
  BY <1>2, <1>3 DEF TaskStep

LEMMA FinalizedTyped ==
  ASSUME TypeOK, NEW s
  PROVE  Finalized(s) \in [Massage -> MassageRow]
BY DEF TypeOK, Finalized, Over, MassageRow

\* An end for a shift that is on record.
LEMMA CloseIsSound ==
  ASSUME ShiftsInv, NEW s \in Shift, shift[s].status \in {"OPEN", "CLOSED"}, NEW at \in Nat,
         shift' = [shift EXCEPT ![s].status = "CLOSED", ![s].ended = at]
  PROVE  RowsStep
<1> DEFINE r == [shift[s] EXCEPT !.status = "CLOSED", !.ended = at]
<1>1. shift[s] \in ShiftRow /\ RowSound(shift[s])
  BY DEF ShiftsInv, TypeOK
<1>2. r \in ShiftRow /\ r.ended # None
  <2>1. at # None
    BY NoneAssumption
  <2>2. r.ended = at /\ r.status = "CLOSED"
    BY <1>1 DEF ShiftRow
  <2>3. r \in ShiftRow
    BY <1>1 DEF ShiftRow
  <2> QED
    BY <2>1, <2>2, <2>3
<1>3. RowSound(r)
  BY <1>1 DEF RowSound, ShiftRow
<1>4. shift' = [shift EXCEPT ![s] = r]
  BY DEF ShiftsInv, TypeOK
<1> QED
  BY <1>1, <1>2, <1>3, <1>4 DEF RowsStep, Changes, Way, ShiftRow

LEMMA AutoCloseStep ==
  ASSUME ShiftsInv, NEW a \in Actor, AutoClose(a)
  PROVE  RowsStep /\ TaskStep /\ OthersTyped
<1>1. /\ TypeOK /\ task[a] \in Task /\ TaskSound(task[a], shift)
      /\ now \in Nat /\ task[a].ended \in Nat
  BY DEF ShiftsInv, TypeOK, Task
<1>2. AutoClosing(task[a])
  BY DEF AutoClose, AutoCloseRead, canAutoCloseShift, AutoCloseWrite, At, AutoClosing
<1>3. TaskStep
  BY <1>2, ReturnIsSound, StepIsSound
     DEF AutoClose, AutoCloseRead, canAutoCloseShift, AutoCloseWrite
<1>4. OthersTyped
  BY <1>1, FinalizedTyped
     DEF AutoClose, AutoCloseRead, canAutoCloseShift, AutoCloseWrite, Rest, OthersTyped, TypeOK
<1>5. RowsStep
  <2>1. CASE AutoCloseWrite(a)
    <3>1. task[a].shift \in Shift
      BY <1>1, <1>2 DEF TaskSound, Working, AutoClosing
    <3>2. EndOfClose(a) \in Nat
      BY <1>1 DEF EndOfClose
    <3> QED
      BY <2>1, <3>1, <3>2, CloseIsSound DEF AutoCloseWrite, CloseIfOpen, RowsStep
  <2>2. CASE AutoCloseRead(a) \/ canAutoCloseShift(a)
    BY <2>2 DEF AutoCloseRead, canAutoCloseShift, RowsStep
  <2> QED
    BY <2>1, <2>2 DEF AutoClose
<1> QED
  BY <1>3, <1>4, <1>5

LEMMA CheckTyped ==
  ASSUME ShiftsInv, NEW c \in Checker
  PROVE  /\ TypeOK /\ c \in Actor /\ task[c] \in Task /\ TaskSound(task[c], shift)
         /\ task[c].at \in Nat /\ now \in Nat /\ BusinessDate(now) \in Nat
BY DatesAreNat DEF ShiftsInv, TypeOK, Actor, Task

LEMMA IdleIsSound ==
  Idle \in Task /\ TaskSound(Idle, shift)
BY DEF Idle, Task, Step, TaskSound, Working, AutoClosing, Opening

(***************************************************************************)
(* A new row: the unique index has looked at the others.                   *)
(***************************************************************************)
LEMMA InsertIsSound ==
  ASSUME ShiftsInv, MayInsert, NEW r \in ShiftRow, r.status = "OPEN", r.ended = None,
         RowSound(r), shift' = [shift EXCEPT ![NewShift] = r]
  PROVE  RowsStep
<1>1. NewShift \in Shift /\ shift[NewShift].status = "FREE"
  BY DEF MayInsert, FreeShift, NewShift
<1> QED
  BY <1>1 DEF RowsStep, Changes, Way, MayInsert

LEMMA BeginCheckStep ==
  ASSUME ShiftsInv, NEW c \in Checker, BeginCheck(c)
  PROVE  RowsStep /\ TaskStep /\ OthersTyped
<1>1. /\ TypeOK /\ c \in Actor /\ task[c] \in Task /\ TaskSound(task[c], shift)
      /\ task[c].at \in Nat /\ now \in Nat /\ BusinessDate(now) \in Nat
  BY CheckTyped
<1> DEFINE k == [Idle EXCEPT !.step = "listing", !.at = now]
<1>2. k \in Task
  BY <1>1, IdleIsSound DEF Task, Step, Idle
<1>3. TaskSound(k, shift)
  BY DEF Idle, TaskSound, Working, AutoClosing, Opening
<1> QED
  BY <1>1, <1>2, <1>3 DEF BeginCheck, BeginCalm, Rest, RowsStep, TaskStep, OthersTyped, TypeOK

LEMMA EndCheckStep ==
  ASSUME ShiftsInv, NEW c \in Checker, EndCheck(c), UNCHANGED massage, Rest
  PROVE  TaskStep /\ OthersTyped
BY CheckTyped, IdleIsSound DEF EndCheck, EndCalm, Rest, TaskStep, OthersTyped, TypeOK

LEMMA CloseEligibleStep ==
  ASSUME ShiftsInv, NEW c \in Checker, CloseEligible(c)
  PROVE  RowsStep /\ TaskStep /\ OthersTyped
<1>1. /\ TypeOK /\ c \in Actor /\ task[c] \in Task /\ TaskSound(task[c], shift)
      /\ task[c].at \in Nat /\ now \in Nat /\ BusinessDate(now) \in Nat
  BY CheckTyped
<1>2. TaskStep
  <2>1. CASE EligibleShifts(c) = {}
    <3> DEFINE k == [task[c] EXCEPT !.step = "planning"]
    <3>1. k \in Task
      BY <1>1 DEF Task, Step
    <3>2. TaskSound(k, shift)
      BY <1>1 DEF TaskSound, Working, AutoClosing, Opening, Task
    <3> QED
      BY <1>1, <2>1, <3>1, <3>2 DEF CloseEligible, TaskStep
  <2>2. ASSUME NEW s \in EligibleShifts(c),
               task' = [task EXCEPT ![c] =
                 [task[c] EXCEPT !.step = "closing", !.shift = s, !.then = "planning",
                    !.reason = CloseReason(c, s),
                    !.ended = ClosingTime(shift[s], CloseReason(c, s),
                                          task[c].at, BusinessDate(now))]]
        PROVE  TaskStep
    <3> DEFINE reason == CloseReason(c, s)
               end    == ClosingTime(shift[s], reason, task[c].at, BusinessDate(now))
               k      == [task[c] EXCEPT !.step = "closing", !.shift = s, !.then = "planning",
                                         !.reason = reason, !.ended = end]
    <3>1. /\ s \in Shift /\ shift[s].status = "OPEN" /\ end \in Nat
          /\ reason \in Reason /\ reason # None
      BY <1>1, <2>2, EligibleIsOpen
    <3> HIDE DEF reason, end
    <3>2. k \in Task
      BY <1>1, <3>1 DEF Task, Step
    <3>3. TaskSound(k, shift)
      BY <1>1, <3>1 DEF TaskSound, Working, AutoClosing, Opening, Task
    <3>4. task' = [task EXCEPT ![c] = k]
      BY <2>2 DEF reason, end
    <3> QED
      BY <1>1, <3>2, <3>3, <3>4 DEF TaskStep
  <2> QED
    BY <2>1, <2>2 DEF CloseEligible
<1> QED
  BY <1>1, <1>2 DEF CloseEligible, Rest, RowsStep, OthersTyped, TypeOK

LEMMA PlanPeriodStep ==
  ASSUME ShiftsInv, NEW c \in Checker, PlanPeriod(c)
  PROVE  RowsStep /\ TaskStep /\ OthersTyped
<1>1. /\ TypeOK /\ c \in Actor /\ task[c] \in Task /\ TaskSound(task[c], shift)
      /\ task[c].at \in Nat /\ now \in Nat /\ BusinessDate(now) \in Nat
  BY CheckTyped
<1> DEFINE today    == BusinessDate(now)
           schedule == evaluatePeriodOpen(task[c].at, today)
           existing == {s \in Shift : shift[s].status \in {"OPEN", "CLOSED"} /\
                         shift[s].schedule = schedule /\ shift[s].date = today}
<1>2. UNCHANGED <<shift, massage>> /\ Rest /\ RowsStep
  BY DEF PlanPeriod, RowsStep
<1>3. CASE EndCheck(c)
  BY <1>2, <1>3, EndCheckStep
<1>4. ASSUME NEW s \in IF existing = {} THEN {None} ELSE existing, schedule # None,
             task' = [task EXCEPT ![c].step = "blocking",
                        ![c].schedule = schedule, ![c].existing = s],
             UNCHANGED calm
      PROVE  TaskStep /\ OthersTyped
  <2> DEFINE k == [task[c] EXCEPT !.step = "blocking", !.schedule = schedule, !.existing = s]
  <2>1. schedule \in Schedule
    BY <1>4, PlanIsSchedule
  <2>2. s = None \/ (s \in Shift /\ shift[s].status # "FREE" /\ shift[s].schedule = schedule)
    <3> HIDE DEF schedule, today
    <3> QED
      BY <1>4
  <2> HIDE DEF schedule, existing
  <2>3. k \in Task
    BY <1>1, <2>1, <2>2 DEF Task, Step
  <2>4. TaskSound(k, shift)
    BY <1>1, <2>1, <2>2 DEF TaskSound, Working, AutoClosing, Opening, Task
  <2>5. task' = [task EXCEPT ![c] = k]
    BY <1>1, <1>4 DEF TypeOK
  <2>6. TaskStep
    BY <1>1, <2>3, <2>4, <2>5 DEF TaskStep
  <2>7. OthersTyped
    BY <1>1, <1>2, <1>4 DEF Rest, OthersTyped, TypeOK
  <2> QED
    BY <2>6, <2>7
<1> QED
  <2>1. EndCheck(c) \/ (/\ schedule # None
                        /\ \E s \in IF existing = {} THEN {None} ELSE existing :
                             task' = [task EXCEPT ![c].step = "blocking",
                                        ![c].schedule = schedule, ![c].existing = s]
                        /\ UNCHANGED calm)
    BY DEF PlanPeriod
  <2> HIDE DEF schedule, existing
  <2> QED
    BY <1>2, <1>3, <1>4, <2>1

LEMMA CleanupStep ==
  ASSUME ShiftsInv, NEW c \in Checker, closeBlockingOpenShiftsBeforeOpen(c)
  PROVE  RowsStep /\ TaskStep /\ OthersTyped
<1>1. /\ TypeOK /\ c \in Actor /\ task[c] \in Task /\ TaskSound(task[c], shift)
      /\ task[c].at \in Nat /\ now \in Nat /\ BusinessDate(now) \in Nat
  BY CheckTyped
<1>2. task[c].step = "blocking"
  BY DEF closeBlockingOpenShiftsBeforeOpen, At
<1>3. TaskStep
  <2>1. CASE EligibleShifts(c) = {}
    <3> DEFINE k == [task[c] EXCEPT !.step = "opening"]
    <3>1. k \in Task
      BY <1>1 DEF Task, Step
    <3>2. TaskSound(k, shift)
      BY <1>1, <1>2 DEF TaskSound, Working, AutoClosing, Opening, Task
    <3> QED
      BY <1>1, <2>1, <3>1, <3>2 DEF closeBlockingOpenShiftsBeforeOpen, TaskStep
  <2>2. ASSUME NEW s \in EligibleShifts(c),
               task' = [task EXCEPT ![c] =
                 [task[c] EXCEPT !.step = "closing", !.shift = s, !.then = "opening",
                    !.reason = "BEFORE_NEW_OPEN", !.ended = task[c].at]]
        PROVE  TaskStep
    <3> DEFINE k == [task[c] EXCEPT !.step = "closing", !.shift = s, !.then = "opening",
                                    !.reason = "BEFORE_NEW_OPEN", !.ended = task[c].at]
    <3>1. s \in Shift /\ shift[s].status = "OPEN"
      BY <1>1, <2>2, EligibleIsOpen
    <3>2. k \in Task
      BY <1>1, <3>1 DEF Task, Step, Reason
    <3>3. TaskSound(k, shift)
      BY <1>1, <1>2, <3>1 DEF TaskSound, Working, AutoClosing, Opening, Task
    <3> QED
      BY <1>1, <2>2, <3>2, <3>3 DEF TaskStep
  <2> QED
    BY <2>1, <2>2 DEF closeBlockingOpenShiftsBeforeOpen
<1> QED
  BY <1>1, <1>3 DEF closeBlockingOpenShiftsBeforeOpen, Rest, RowsStep, OthersTyped, TypeOK

LEMMA ReopenStep ==
  ASSUME ShiftsInv, NEW c \in Checker, reopenScheduledShift(c)
  PROVE  RowsStep /\ TaskStep /\ OthersTyped
<1>1. /\ TypeOK /\ c \in Actor /\ task[c] \in Task /\ TaskSound(task[c], shift)
      /\ task[c].at \in Nat /\ now \in Nat /\ BusinessDate(now) \in Nat
  BY CheckTyped
<1>2. TaskStep /\ OthersTyped
  BY EndCheckStep DEF reopenScheduledShift
<1> DEFINE s     == task[c].existing
           today == BusinessDate(now)
           times == PlannedTimes(task[c].schedule, today)
<1>3. task[c].step = "opening" /\ s # None /\ shift' = IF MayReopen(s)
        THEN [shift EXCEPT ![s] = Reopened(s, today, times)] ELSE shift
  BY DEF reopenScheduledShift, At
<1>4. CASE MayReopen(s)
  <2> DEFINE r == Reopened(s, today, times)
             t == Rota[task[c].schedule].type
  <2>1. /\ s \in Shift /\ shift[s].status = "CLOSED" /\ UniqueOpenShift(s)
        /\ shift[s] \in ShiftRow /\ RowSound(shift[s])
    BY <1>1, <1>3, <1>4 DEF MayReopen, Task, ShiftsInv, TypeOK
  <2>2. task[c].schedule \in Schedule /\ shift[s].schedule = task[c].schedule
    BY <1>1, <1>3, <2>1 DEF TaskSound, Opening
  <2>3. t \in Type /\ shift[s].type = t
    BY <2>1, <2>2, RotaAssumption, NoneAssumption DEF RowSound
  <2>4. /\ times = buildSelfStartSchedule(t, today)
        /\ times.from \in Nat /\ times.until \in Nat
    BY <1>1, <2>3, WindowsAreNat DEF PlannedTimes
  <2>5. /\ times.from = buildScheduledDatetime(today, Window[t].start)
        /\ times.until = buildScheduledDatetime(today, Window[t].end)
    BY <2>4 DEF buildSelfStartSchedule
  <2> HIDE DEF times, today, t, s
  <2>6. /\ r \in ShiftRow /\ r.status = "OPEN" /\ r.ended = None /\ r.type = t
        /\ r.schedule = shift[s].schedule /\ r.date = today
        /\ r.from = times.from /\ r.until = times.until
    BY <1>1, <2>1, <2>3, <2>4 DEF Reopened, ShiftRow, today
  <2>7. RowSound(r)
    <3> HIDE DEF r
    <3> QED
      BY <2>2, <2>3, <2>5, <2>6, <1>1, NoneAssumption DEF RowSound, t, today
  <2>8. Changes(s, r)
    <3> HIDE DEF r
    <3>1. shift' = [shift EXCEPT ![s] = r]
      BY <1>3, <1>4 DEF r
    <3> QED
      BY <2>1, <2>6, <2>7, <3>1 DEF Changes, Way
  <2> QED
    BY <2>1, <2>6, <2>8, <1>2 DEF RowsStep
<1>5. CASE ~MayReopen(s)
  BY <1>2, <1>3, <1>5 DEF RowsStep
<1> QED
  BY <1>4, <1>5

LEMMA CreatePlannedStep ==
  ASSUME ShiftsInv, NEW c \in Checker, CreatePlanned(c)
  PROVE  RowsStep /\ TaskStep /\ OthersTyped
<1>1. /\ TypeOK /\ c \in Actor /\ task[c] \in Task /\ TaskSound(task[c], shift)
      /\ task[c].at \in Nat /\ now \in Nat /\ BusinessDate(now) \in Nat
  BY CheckTyped
<1>2. TaskStep /\ OthersTyped
  BY EndCheckStep DEF CreatePlanned
<1> DEFINE schedule == task[c].schedule
           today    == BusinessDate(now)
           t        == Rota[schedule].type
           times    == PlannedTimes(schedule, today)
           r        == [status |-> "OPEN", type |-> t,
                        schedule |-> schedule, date |-> today,
                        from |-> times.from, until |-> times.until, ended |-> None,
                        started |-> resolveAutoShiftStartedAt(times.from, task[c].at)]
<1>3. schedule \in Schedule /\ t \in Type
  BY <1>1, RotaAssumption DEF CreatePlanned, At, TaskSound, Opening
<1>4. /\ times.from = buildScheduledDatetime(today, Window[t].start)
      /\ times.until = buildScheduledDatetime(today, Window[t].end)
      /\ times.from \in Nat /\ times.until \in Nat
  BY <1>1, <1>3, WindowsAreNat DEF PlannedTimes, buildSelfStartSchedule
<1>5. \/ MayInsert /\ shift' = [shift EXCEPT ![NewShift] = r]
      \/ shift' = shift
  BY DEF CreatePlanned
<1>6. r \in ShiftRow
  <2>1. resolveAutoShiftStartedAt(times.from, task[c].at) \in Nat
    BY <1>1, <1>4 DEF resolveAutoShiftStartedAt
  <2> HIDE DEF times, today, t, schedule
  <2> QED
    BY <1>1, <1>3, <1>4, <2>1 DEF ShiftRow, today
<1>7. RowSound(r)
  <2> HIDE DEF times, today, schedule
  <2> QED
    BY <1>1, <1>3, <1>4, NoneAssumption DEF RowSound, today
<1> HIDE DEF r
<1>8. r.status = "OPEN" /\ r.ended = None
  BY DEF r
<1> QED
  BY <1>2, <1>5, <1>6, <1>7, <1>8, InsertIsSound DEF RowsStep

LEMMA runAutoShiftCheckStep ==
  ASSUME ShiftsInv, NEW c \in Checker, runAutoShiftCheck(c)
  PROVE  RowsStep /\ TaskStep /\ OthersTyped
BY AutoCloseStep, BeginCheckStep, CloseEligibleStep, PlanPeriodStep, CleanupStep, ReopenStep,
   CreatePlannedStep DEF runAutoShiftCheck, Actor

-----------------------------------------------------------------------------
LEMMA HandlerTyped ==
  ASSUME ShiftsInv, NEW h \in Handler
  PROVE  /\ TypeOK /\ h \in Actor /\ task[h] \in Task /\ TaskSound(task[h], shift) /\ now \in Nat
BY DEF ShiftsInv, TypeOK, Actor

LEMMA BeginCloseStep ==
  ASSUME ShiftsInv, NEW h \in Handler, NEW s \in Shift, BeginClose(h, s)
  PROVE  RowsStep /\ TaskStep /\ OthersTyped
<1>1. /\ TypeOK /\ h \in Actor /\ task[h] \in Task /\ TaskSound(task[h], shift) /\ now \in Nat
  BY HandlerTyped
<1> DEFINE k == [Idle EXCEPT !.step = "finishing", !.shift = s]
<1>2. k \in Task
  BY IdleIsSound DEF Task, Step, Idle
<1>3. TaskSound(k, shift)
  BY DEF BeginClose, Idle, TaskSound, Working, AutoClosing, Opening
<1>4. task' = [task EXCEPT ![h] = k] /\ UNCHANGED <<shift, massage>> /\ Rest /\ Disturb
  BY DEF BeginClose
<1> HIDE DEF k
<1> QED
  BY <1>1, <1>2, <1>3, <1>4 DEF Rest, Disturb, RowsStep, TaskStep, OthersTyped, TypeOK

LEMMA CloseLingeringStep ==
  ASSUME ShiftsInv, NEW h \in Handler, CloseLingering(h)
  PROVE  RowsStep /\ TaskStep /\ OthersTyped
<1>1. /\ TypeOK /\ h \in Actor /\ task[h] \in Task /\ TaskSound(task[h], shift) /\ now \in Nat
  BY HandlerTyped
<1>2. TaskStep
  <2>1. CASE task' = [task EXCEPT ![h] = [Idle EXCEPT !.step = "creating"]]
    <3> DEFINE k == [Idle EXCEPT !.step = "creating"]
    <3>1. k \in Task
      BY IdleIsSound DEF Task, Step, Idle
    <3>2. TaskSound(k, shift)
      BY DEF Idle, TaskSound, Working, AutoClosing, Opening
    <3> QED
      BY <1>1, <2>1, <3>1, <3>2 DEF TaskStep
  <2>2. ASSUME NEW s \in ListOpenShifts,
               task' = [task EXCEPT ![h] = [Idle EXCEPT !.step = "closing", !.shift = s,
                          !.reason = "BEFORE_MANUAL_OPEN", !.then = "creating"]]
        PROVE  TaskStep
    <3> DEFINE k == [Idle EXCEPT !.step = "closing", !.shift = s,
                       !.reason = "BEFORE_MANUAL_OPEN", !.then = "creating"]
    <3>1. s \in Shift /\ shift[s].status = "OPEN"
      BY DEF ListOpenShifts
    <3>2. k \in Task
      BY <3>1, IdleIsSound DEF Task, Step, Idle, Reason
    <3>3. TaskSound(k, shift)
      BY <3>1 DEF Idle, TaskSound, Working, AutoClosing, Opening
    <3> QED
      BY <1>1, <2>2, <3>2, <3>3 DEF TaskStep
  <2> QED
    BY <2>1, <2>2 DEF CloseLingering
<1> QED
  BY <1>1, <1>2 DEF CloseLingering, Rest, Disturb, RowsStep, OthersTyped, TypeOK

LEMMA RequestStep ==
  ASSUME ShiftsInv, NEW h \in Handler, Request(h)
  PROVE  RowsStep /\ TaskStep /\ OthersTyped
BY BeginCloseStep, CloseLingeringStep DEF Request, closeAssistantShift, ListOpenShifts

LEMMA FreeRowIsRow ==
  FreeRow \in ShiftRow /\ FreeRow.date = None /\ FreeRow.schedule = None /\ FreeRow.ended = None
BY DEF FreeRow, ShiftRow

LEMMA CreateManualStep ==
  ASSUME ShiftsInv, NEW h \in Handler, CreateManual(h)
  PROVE  RowsStep /\ TaskStep /\ OthersTyped
<1>1. /\ TypeOK /\ h \in Actor /\ task[h] \in Task /\ TaskSound(task[h], shift) /\ now \in Nat
  BY HandlerTyped
<1> DEFINE r == [FreeRow EXCEPT !.status = "OPEN", !.started = now]
<1>2. r \in ShiftRow /\ r.status = "OPEN" /\ r.ended = None /\ r.date = None /\ r.schedule = None
  BY <1>1 DEF FreeRow, ShiftRow
<1>3. shift' = IF MayInsert THEN [shift EXCEPT ![NewShift] = r] ELSE shift
  BY DEF CreateManual
<1> HIDE DEF r
<1>4. RowsStep
  BY <1>2, <1>3, InsertIsSound DEF RowSound, RowsStep
<1> QED
  BY <1>1, <1>4, IdleIsSound DEF CreateManual, Rest, Disturb, TaskStep, OthersTyped, TypeOK

LEMMA FinishMassagesStep ==
  ASSUME ShiftsInv, NEW h \in Handler, FinishMassages(h)
  PROVE  RowsStep /\ TaskStep /\ OthersTyped
<1>1. /\ TypeOK /\ h \in Actor /\ task[h] \in Task /\ TaskSound(task[h], shift) /\ now \in Nat
  BY HandlerTyped
<1> DEFINE k == [task[h] EXCEPT !.step = "priming"]
<1>2. k \in Task
  BY <1>1 DEF Task, Step
<1>3. TaskSound(k, shift)
  BY <1>1 DEF FinishMassages, At, TaskSound, Working, AutoClosing, Opening, Task
<1> QED
  BY <1>1, <1>2, <1>3, FinalizedTyped
     DEF FinishMassages, Rest, Disturb, RowsStep, TaskStep, OthersTyped, TypeOK

LEMMA WriteCloseStep ==
  ASSUME ShiftsInv, NEW h \in Handler, WriteClose(h)
  PROVE  RowsStep /\ TaskStep /\ OthersTyped
<1>1. /\ TypeOK /\ h \in Actor /\ task[h] \in Task /\ TaskSound(task[h], shift) /\ now \in Nat
  BY HandlerTyped
<1> DEFINE s == task[h].shift
<1>2. s \in Shift /\ shift[s].status \in {"OPEN", "CLOSED"}
  BY <1>1 DEF WriteClose, At, TaskSound, Working, TypeOK, ShiftRow
<1>3. shift' = [shift EXCEPT ![s].status = "CLOSED", ![s].ended = now]
  BY DEF WriteClose
<1> HIDE DEF s
<1>4. RowsStep
  BY <1>1, <1>2, <1>3, CloseIsSound
<1> QED
  BY <1>1, <1>4, IdleIsSound DEF WriteClose, Rest, Disturb, TaskStep, OthersTyped, TypeOK

LEMMA HandlerStepStep ==
  ASSUME ShiftsInv, NEW h \in Handler, HandlerStep(h)
  PROVE  RowsStep /\ TaskStep /\ OthersTyped
<1>1. /\ TypeOK /\ h \in Actor /\ task[h] \in Task /\ TaskSound(task[h], shift) /\ now \in Nat
  BY HandlerTyped
<1>2. CASE GiveUpClose(h)
  BY <1>1, <1>2, IdleIsSound
     DEF GiveUpClose, Rest, Disturb, RowsStep, TaskStep, OthersTyped, TypeOK
<1> QED
  BY <1>1, <1>2, AutoCloseStep, CreateManualStep, FinishMassagesStep, WriteCloseStep
     DEF HandlerStep

LEMMA DeleteStep ==
  ASSUME ShiftsInv, NEW s \in Shift, deleteShift(s)
  PROVE  RowsStep /\ TaskStep /\ OthersTyped
<1> DEFINE r == [FreeRow EXCEPT !.status = "GONE"]
<1>1. r \in ShiftRow /\ r.status = "GONE" /\ r.ended = None /\ r.date = None /\ r.schedule = None
  BY DEF FreeRow, ShiftRow
<1>2. shift' = [shift EXCEPT ![s] = r] /\ shift[s].status \in {"OPEN", "CLOSED"}
  BY DEF deleteShift
<1> HIDE DEF r
<1>3. RowsStep
  BY <1>1, <1>2 DEF RowsStep, Changes, Way, RowSound
<1>4. massage' \in [Massage -> MassageRow]
  BY DEF deleteShift, ShiftsInv, TypeOK, MassageRow
<1> QED
  BY <1>3, <1>4 DEF deleteShift, Rest, Disturb, TaskStep, OthersTyped, ShiftsInv, TypeOK

LEMMA AssistantStartStep ==
  ASSUME ShiftsInv, AssistantStart
  PROVE  RowsStep /\ TaskStep /\ OthersTyped
<1>1. PICK t \in Type : startAssistantShift(t)
  BY DEF AssistantStart
<1> DEFINE today == BusinessDate(now)
           times == buildSelfStartSchedule(t, today)
           r == [FreeRow EXCEPT !.status = "OPEN", !.type = t, !.date = today,
                   !.started = now, !.from = times.from, !.until = times.until]
<1>2. now \in Nat /\ today \in Nat
  BY DatesAreNat DEF ShiftsInv, TypeOK
<1>3. /\ times.from = buildScheduledDatetime(today, Window[t].start)
      /\ times.until = buildScheduledDatetime(today, Window[t].end)
      /\ times.from \in Nat /\ times.until \in Nat
  BY <1>2, WindowsAreNat DEF buildSelfStartSchedule
<1>4. MayInsert /\ shift' = [shift EXCEPT ![NewShift] = r]
  BY <1>1 DEF startAssistantShift
<1>5. /\ r \in ShiftRow /\ r.status = "OPEN" /\ r.ended = None
      /\ RowSound(r)
  <2> HIDE DEF times, today
  <2> QED
    BY <1>2, <1>3 DEF FreeRow, ShiftRow, RowSound
<1> HIDE DEF r
<1>6. RowsStep
  BY <1>4, <1>5, InsertIsSound
<1> QED
  BY <1>1, <1>6 DEF startAssistantShift, Rest, Disturb, TaskStep, OthersTyped, ShiftsInv, TypeOK

LEMMA MassageSteps ==
  ASSUME ShiftsInv, resolveOpenShiftForSession \/ \E m \in Massage : MassageStep(m)
  PROVE  RowsStep /\ TaskStep /\ OthersTyped
<1>1. CASE resolveOpenShiftForSession
  <2>1. starting' \in [on: BOOLEAN, shift: Shift \cup {None}]
    <3>1. CASE starting' = [on |-> TRUE, shift |-> None]
      BY <3>1
    <3>2. ASSUME NEW s \in Shift, starting' = [on |-> TRUE, shift |-> s]
          PROVE  starting' \in [on: BOOLEAN, shift: Shift \cup {None}]
      BY <3>2
    <3> QED
      BY <1>1, <3>1, <3>2, Zenon DEF resolveOpenShiftForSession
  <2>2. UNCHANGED <<now, selfStart, shift, massage, task>> /\ calm' = "no"
    BY <1>1 DEF resolveOpenShiftForSession, Disturb
  <2> QED
    BY <2>1, <2>2 DEF RowsStep, TaskStep, OthersTyped, ShiftsInv, TypeOK
<1>2. ASSUME NEW m \in Massage, MassageStep(m)
      PROVE  RowsStep /\ TaskStep /\ OthersTyped
  <2>1. massage' \in [Massage -> MassageRow]
    <3>1. massage[m] \in MassageRow /\ starting.shift \in Shift \cup {None}
          /\ massage \in [Massage -> MassageRow]
      BY DEF ShiftsInv, TypeOK
    <3>2. CASE StartMassage(m)
      BY <3>1, <3>2 DEF StartMassage, MassageRow
    <3>3. CASE Fade(m)
      BY <3>1, <3>3 DEF Fade, MassageRow
    <3>4. CASE EndMassage(m)
      BY <3>1, <3>4 DEF EndMassage, Over, MassageRow
    <3> QED
      BY <1>2, <3>2, <3>3, <3>4 DEF MassageStep
  <2>2. /\ UNCHANGED <<now, selfStart, shift, task>> /\ calm' = "no"
        /\ starting' = starting \/ starting' = NotStarting
    BY <1>2 DEF MassageStep, StartMassage, Fade, EndMassage, Rest, Disturb
  <2>3. NotStarting \in [on: BOOLEAN, shift: Shift \cup {None}]
    BY DEF NotStarting
  <2> QED
    BY <2>1, <2>2, <2>3 DEF RowsStep, TaskStep, OthersTyped, ShiftsInv, TypeOK
<1> QED
  BY <1>1, <1>2

LEMMA NextStep ==
  ASSUME ShiftsInv, [Next]_vars
  PROVE  RowsStep /\ TaskStep /\ OthersTyped
<1>1. CASE TimePasses
  BY <1>1 DEF TimePasses, Disturb, RowsStep, TaskStep, OthersTyped, ShiftsInv, TypeOK
<1>2. CASE UNCHANGED vars
  BY <1>2 DEF vars, RowsStep, TaskStep, OthersTyped, ShiftsInv, TypeOK
<1> QED
  BY <1>1, <1>2, runAutoShiftCheckStep, HandlerStepStep, RequestStep, DeleteStep,
     AssistantStartStep, MassageSteps DEF Next

-----------------------------------------------------------------------------
LEMMA InvInit == Init => ShiftsInv
<1> SUFFICES ASSUME Init PROVE ShiftsInv
  OBVIOUS
<1>1. \A s \in Shift : shift[s] = FreeRow
  BY DEF Init
<1>2. TypeOK
  BY FreeRowIsRow, IdleIsSound DEF Init, TypeOK, FreeRow, MassageRow, NotStarting
<1>3. OneOpenShift
  BY <1>1 DEF OneOpenShift, FreeRow
<1>4. \A s \in Shift : RowSound(shift[s])
  BY <1>1, FreeRowIsRow DEF RowSound
<1>5. \A a \in Actor : TaskSound(task[a], shift)
  BY IdleIsSound DEF Init
<1> QED
  BY <1>2, <1>3, <1>4, <1>5 DEF ShiftsInv

LEMMA InvStep == ShiftsInv /\ [Next]_vars => ShiftsInv'
BY NextStep, StepKeepsInv

(***************************************************************************)
(* At any time the tables and the actors are as the steps need them.       *)
(***************************************************************************)
THEOREM ShiftsInvariant == Spec => []ShiftsInv
BY InvInit, InvStep, PTL DEF Spec

(***************************************************************************)
(* The rows and the actors have their types.                               *)
(***************************************************************************)
THEOREM ShiftsTyped == Spec => []TypeOK
BY ShiftsInvariant, PTL DEF ShiftsInv

(***************************************************************************)
(* At most one shift is open, whatever overlaps (the partial unique index  *)
(* single_open_shift, which every opening goes through).                   *)
(***************************************************************************)
THEOREM OneShiftOpen == Spec => []OneOpenShift
BY ShiftsInvariant, PTL DEF ShiftsInv

-----------------------------------------------------------------------------
(***************************************************************************)
(* The shifts implement ShopShifts.                                        *)
(***************************************************************************)
Open == {s \in Shift : shift[s].status = "OPEN"}
Ended == {s \in Shift : shift[s].status = "CLOSED"}

LEMMA ShopStep ==
  ASSUME ShiftsInv, RowsStep
  PROVE  [Shop!Next]_<<Open, Ended>>
<1>1. CASE shift' = shift
  BY <1>1 DEF Open, Ended
<1>2. ASSUME NEW s \in Shift, NEW r \in ShiftRow, Changes(s, r)
      PROVE  [Shop!Next]_<<Open, Ended>>
  <2>1. \A u \in Shift : shift'[u] = IF u = s THEN r ELSE shift[u]
    BY <1>2 DEF Changes, ShiftsInv, TypeOK
  <2>2. CASE shift[s].status # "OPEN" /\ r.status = "OPEN"
    <3>1. Open = {}
      BY <1>2, <2>2 DEF Changes, UniqueOpenShift, Open
    <3>2. Open' = {s} /\ Ended' = Ended \ {s}
      BY <2>1, <2>2, <3>1 DEF Open, Ended
    <3>3. s \in Ended \/ Ended' = Ended
      BY <3>2 DEF Ended
    <3> QED
      BY <3>1, <3>2, <3>3 DEF Shop!Next, Shop!Begin, Shop!Resume, Open, Ended
  <2>3. CASE shift[s].status = "OPEN" /\ r.status = "CLOSED"
    <3>1. Open = {s}
      BY <2>3 DEF ShiftsInv, OneOpenShift, Open
    <3>2. Open' = {} /\ Ended' = Ended \cup {s}
      BY <2>1, <2>3, <3>1 DEF Open, Ended
    <3> QED
      BY <3>1, <3>2 DEF Shop!Next, Shop!End, Open, Ended
  <2>4. CASE shift[s].status = "CLOSED" /\ r.status = "CLOSED"
    BY <2>1, <2>4 DEF Open, Ended
  <2>5. CASE shift[s].status \in {"OPEN", "CLOSED"} /\ r.status = "GONE"
    <3>1. s \in Open \cup Ended /\ Open' = Open \ {s} /\ Ended' = Ended \ {s}
      BY <2>1, <2>5 DEF Open, Ended
    <3> QED
      BY <3>1 DEF Shop!Next, Shop!Remove, Open, Ended
  <2> QED
    BY <1>2, <2>2, <2>3, <2>4, <2>5 DEF Changes, Way
<1> QED
  BY <1>1, <1>2 DEF RowsStep

(***************************************************************************)
(* Every step of the shifts is a step of ShopShifts or leaves it alone:    *)
(* whoever opens, closes, opens again or deletes a shift, in any order of  *)
(* reads and writes, does it to the one open shift or while none is open.  *)
(***************************************************************************)
THEOREM ShiftsImplementShop == Spec => ImplementsShopShifts
<1>1. Init => Shop!Init
  BY DEF Init, FreeRow, Shop!Init
<1>2. ShiftsInv /\ [Next]_vars => [Shop!Next]_(Shop!vars)
  BY NextStep, ShopStep DEF Open, Ended, Shop!vars
<1> QED
  BY <1>1, <1>2, ShiftsInvariant, PTL DEF Spec, ImplementsShopShifts, Shop!Spec

-----------------------------------------------------------------------------
(***************************************************************************)
(* A step takes one task on at most; the others keep what they carry.      *)
(***************************************************************************)
LEMMA OnlyItsOwnTask ==
  ASSUME ShiftsInv, [Next]_vars, NEW a \in Actor, At(a, "stamping"), task'[a].step # "stamping"
  PROVE  AutoCloseWrite(a)
<1>1. task \in [Actor -> Task]
  BY DEF ShiftsInv, TypeOK
<1>2. ASSUME NEW c \in Checker, runAutoShiftCheck(c) PROVE AutoCloseWrite(a)
  <2>1. c \in Actor
    BY DEF Actor
  <2>2. CASE c # a
    <3>1. task'[a] = task[a]
      BY <1>1, <1>2, <2>1, <2>2 DEF runAutoShiftCheck, AutoClose, BeginCheck, CloseEligible,
         PlanPeriod, closeBlockingOpenShiftsBeforeOpen, reopenScheduledShift, CreatePlanned,
         EndCheck, AutoCloseRead, canAutoCloseShift, AutoCloseWrite, Return
    <3> QED
      BY <3>1 DEF At
  <2>3. CASE c = a
    BY <1>2, <2>3 DEF At, runAutoShiftCheck, AutoClose, BeginCheck, CloseEligible,
       PlanPeriod, closeBlockingOpenShiftsBeforeOpen, reopenScheduledShift, CreatePlanned,
       AutoCloseRead, canAutoCloseShift
  <2> QED
    BY <2>2, <2>3
<1>3. ASSUME NEW h \in Handler, HandlerStep(h) \/ Request(h) PROVE AutoCloseWrite(a)
  <2>1. h \in Actor
    BY DEF Actor
  <2>2. CASE h # a
    <3>1. task'[a] = task[a]
      BY <1>1, <1>3, <2>1, <2>2 DEF HandlerStep, Request, AutoClose, AutoCloseRead,
         canAutoCloseShift, AutoCloseWrite, Return, CreateManual, FinishMassages, GiveUpClose,
         WriteClose, CloseLingering, BeginClose, closeAssistantShift
    <3> QED
      BY <3>1 DEF At
  <2>3. CASE h = a
    BY <1>3, <2>3 DEF At, HandlerStep, Request, AutoClose, AutoCloseRead,
       canAutoCloseShift, CreateManual, FinishMassages, GiveUpClose,
       WriteClose, CloseLingering, BeginClose, closeAssistantShift
  <2> QED
    BY <2>2, <2>3
<1>4. CASE UNCHANGED task
  BY <1>4 DEF At
<1> QED
  BY <1>2, <1>3, <1>4 DEF Next, vars, deleteShift, AssistantStart, startAssistantShift,
     resolveOpenShiftForSession, MassageStep, StartMassage, Fade, EndMassage, TimePasses

(***************************************************************************)
(* An automatic close leaves a shift as it is that has been closed since   *)
(* it read the row (autoCloseShift updates rows that are still OPEN).      *)
(***************************************************************************)
THEOREM ClosesKeepTheEnd == Spec => AutoCloseKeepsTheEnd
<1>1. ASSUME ShiftsInv, [Next]_vars
      PROVE  \A a \in Actor, s \in Shift :
               At(a, "stamping") /\ task'[a].step # "stamping" /\ shift[s].status = "CLOSED"
                 => shift'[s] = shift[s]
  <2> SUFFICES ASSUME NEW a \in Actor, NEW s \in Shift, At(a, "stamping"),
                      task'[a].step # "stamping", shift[s].status = "CLOSED"
               PROVE  shift'[s] = shift[s]
    OBVIOUS
  <2>1. AutoCloseWrite(a)
    BY <1>1, OnlyItsOwnTask
  <2>2. shift \in [Shift -> ShiftRow]
    BY <1>1 DEF ShiftsInv, TypeOK
  <2> QED
    BY <2>1, <2>2 DEF AutoCloseWrite, CloseIfOpen
<1> QED
  BY <1>1, ShiftsInvariant, PTL DEF Spec, AutoCloseKeepsTheEnd

-----------------------------------------------------------------------------
(***************************************************************************)
(* A check does not close the shift of its period.  It is slower than its  *)
(* clock: between its reads and its write the day may change, and another  *)
(* check may open the shift again that it is about to close.  That is of   *)
(* no harm as long as no period lasts the whole day: what is opened again  *)
(* after midnight, for the day before, ended at midnight.                  *)
(***************************************************************************)
NoRoundTheClock == \A t \in Type : Window[t].start > 0 \/ Window[t].end < DaySlots

\* The row of shift s is that of the period the check of task k began in.
Current(k, s, n, rows) ==
  /\ rows[s].date = BusinessDate(k.at) /\ BusinessDate(n) = BusinessDate(k.at)
  /\ isWithinShiftPeriod(rows[s].type, k.at, rows[s].date)

(***************************************************************************)
(* A check lasts into the next quarter at most; the row it found for its   *)
(* schedule is of today, unless midnight has passed; and the row it closes *)
(* is not that of its period.                                              *)
(***************************************************************************)
CheckSound(k, n, rows) ==
  /\ k.step # "idle" => k.at <= n /\ n <= k.at + 1
  /\ Opening(k) =>
       /\ isWithinShiftPeriod(Rota[k.schedule].type, k.at, BusinessDate(k.at))
       /\ k.existing # None =>
            \/ rows[k.existing].status = "GONE"
            \/ rows[k.existing].date = BusinessDate(n)
            \/ BusinessDate(n) # BusinessDate(k.at)
  /\ AutoClosing(k) => ~Current(k, k.shift, n, rows)

ChecksInv == ShiftsInv /\ \A c \in Checker : CheckSound(task[c], now, shift)

LEMMA DayHoldsSlot ==
  ASSUME NEW n \in Nat
  PROVE  /\ BusinessDate(n) \in Nat /\ BusinessDate(n) * DaySlots \in Nat
         /\ BusinessDate(n) * DaySlots <= n
         /\ n < BusinessDate(n) * DaySlots + DaySlots
BY TimeAssumption, Z3 DEF BusinessDate

LEMMA DaysFollow ==
  ASSUME NEW d \in Nat, NEW e \in Nat, d < e
  PROVE  d * DaySlots \in Nat /\ e * DaySlots \in Nat /\ d * DaySlots + DaySlots <= e * DaySlots
<1>1. PICK i \in Nat : e = d + 1 + i
  <2>1. e - d - 1 \in Nat /\ e = d + 1 + (e - d - 1)
    OBVIOUS
  <2> QED
    BY <2>1
<1>2. (d + 1 + i) * DaySlots = d * DaySlots + DaySlots + i * DaySlots
  BY TimeAssumption
<1>3. i * DaySlots \in Nat /\ d * DaySlots \in Nat /\ DaySlots \in Nat
  BY TimeAssumption
<1> QED
  BY <1>1, <1>2, <1>3

LEMMA DatesGrow ==
  ASSUME NEW m \in Nat, NEW n \in Nat, m <= n
  PROVE  BusinessDate(m) <= BusinessDate(n)
<1> DEFINE d == BusinessDate(n)  e == BusinessDate(m)
<1>1. /\ d \in Nat /\ d * DaySlots \in Nat /\ n < d * DaySlots + DaySlots
      /\ e \in Nat /\ e * DaySlots \in Nat /\ e * DaySlots <= m
  BY DayHoldsSlot
<1>2. SUFFICES ASSUME d < e PROVE FALSE
  BY <1>1
<1>3. d * DaySlots + DaySlots <= e * DaySlots
  BY <1>1, <1>2, DaysFollow
<1> HIDE DEF d, e
<1> QED
  BY <1>1, <1>3, TimeAssumption

(***************************************************************************)
(* The rules spare the shift of the period.                                *)
(***************************************************************************)
LEMMA EligibleIsNotCurrent ==
  ASSUME ShiftsInv, NEW c \in Checker, NEW s \in EligibleShifts(c)
  PROVE  ~Current(task[c], s, now, shift)
<1> DEFINE k      == task[c]
           r      == shift[s]
           today  == BusinessDate(now)
           start  == buildScheduledDatetime(today, Window[r.type].start)
           end    == buildScheduledDatetime(today, Window[r.type].end)
           active == findActiveShiftTypeAtTime(k.at, today)
<1>1. SUFFICES ASSUME Current(k, s, now, shift) PROVE FALSE
  OBVIOUS
<1>2. /\ s \in Shift /\ r.status = "OPEN" /\ CloseReason(c, s) # None
      /\ r.date = today /\ BusinessDate(k.at) = today
      /\ isWithinShiftPeriod(r.type, k.at, today)
  BY <1>1 DEF EligibleShifts, ListOpenShifts, Current
<1>3. k.at \in Nat /\ today \in Nat
  BY CheckTyped
<1>4. /\ r.type \in Type /\ r.from = start /\ r.until = end
  BY <1>2, <1>3, NoneAssumption DEF ShiftsInv, RowSound
<1>5. /\ start \in Nat /\ end \in Nat /\ start <= k.at /\ k.at < end
      /\ end <= buildScheduledDatetime(today, ShopClose)
      /\ buildScheduledDatetime(today, ShopClose) \in Nat
  <2>1. today * DaySlots \in Nat /\ Window[r.type].start \in Nat /\ Window[r.type].end \in Nat
        /\ Window[r.type].end <= ShopClose /\ ShopClose \in Nat
    BY <1>3, <1>4, WindowsAreNat, TimeAssumption
  <2> QED
    BY <1>2, <2>1 DEF isWithinShiftPeriod, buildScheduledDatetime
<1>6. active = r.type
  <2>1. /\ active \in Type /\ isWithinShiftPeriod(active, k.at, today)
    BY <1>2, <1>4 DEF findActiveShiftTypeAtTime
  <2>2. SUFFICES ASSUME active # r.type PROVE FALSE
    OBVIOUS
  <2>3. Window[active].end <= Window[r.type].start \/ Window[r.type].end <= Window[active].start
    BY <1>4, <2>1, <2>2, WindowAssumption
  <2>4. today * DaySlots \in Nat /\ Window[r.type].start \in Nat /\ Window[r.type].end \in Nat
        /\ Window[active].start \in Nat /\ Window[active].end \in Nat
    BY <1>3, <1>4, <2>1, WindowsAreNat, TimeAssumption
  <2> HIDE DEF active, today, k, r
  <2> QED
    BY <1>2, <1>3, <2>1, <2>3, <2>4 DEF isWithinShiftPeriod, buildScheduledDatetime
<1>7. CloseReason(c, s) = evaluateShiftClose(r, k.at, today, active)
  BY <1>2 DEF CloseReason
<1>8. ~DailyClose(k.at, today) /\ ~BeforeItsStart(r, k.at, today) /\ InsideItsWindow(r, k.at, today)
  <2>1. r.until # None
    BY <1>4, <1>5, NoneAssumption
  <2> HIDE DEF start, end, k, r, today
  <2> QED
    BY <1>2, <1>3, <1>4, <1>5, <2>1 DEF DailyClose, BeforeItsStart, InsideItsWindow
<1>9. evaluateShiftClose(r, k.at, today, active) = None
  <2> HIDE DEF start, end, k, r, today, active
  <2> QED
    BY <1>2, <1>6, <1>8 DEF evaluateShiftClose
<1> QED
  BY <1>2, <1>7, <1>9

(***************************************************************************)
(* A period that has begun is of the day its slot is in, or of one before. *)
(***************************************************************************)
LEMMA PeriodIsOfToday ==
  ASSUME NEW t \in Type, NEW at \in Nat, NEW n \in Nat, at <= n,
         isWithinShiftPeriod(t, at, BusinessDate(n))
  PROVE  BusinessDate(n) = BusinessDate(at)
<1> DEFINE d == BusinessDate(at)  e == BusinessDate(n)
<1>1. d \in Nat /\ e \in Nat /\ d <= e
  BY DatesGrow, DayHoldsSlot
<1>2. SUFFICES ASSUME d < e PROVE FALSE
  BY <1>1
<1>3. d * DaySlots \in Nat /\ e * DaySlots \in Nat /\ d * DaySlots + DaySlots <= e * DaySlots
  BY <1>1, <1>2, DaysFollow
<1>4. at < d * DaySlots + DaySlots
  BY DayHoldsSlot
<1>5. Window[t].start \in Nat /\ e * DaySlots + Window[t].start <= at
  BY <1>1, WindowsAreNat DEF isWithinShiftPeriod, buildScheduledDatetime
<1> HIDE DEF d, e
<1> QED
  BY <1>3, <1>4, <1>5, TimeAssumption

LEMMA CheckIsActor ==
  ASSUME ChecksInv, NEW c \in Checker
  PROVE  /\ ShiftsInv /\ CheckSound(task[c], now, shift)
         /\ c \in Actor /\ task \in [Actor -> Task] /\ task[c] \in Task
         /\ task[c].at \in Nat /\ now \in Nat
BY CheckTyped DEF ChecksInv, TypeOK

(***************************************************************************)
(* What a check carries is sound for the rows it has read.                 *)
(***************************************************************************)
LEMMA ReturnKeepsCheck ==
  ASSUME ChecksInv, NEW c \in Checker, AutoClosing(task[c]), Return(c)
  PROVE  CheckSound(task'[c], now, shift)
<1>1. /\ ShiftsInv /\ CheckSound(task[c], now, shift)
      /\ c \in Actor /\ task \in [Actor -> Task] /\ task[c] \in Task
      /\ task[c].at \in Nat /\ now \in Nat
  BY CheckIsActor
<1>2. task'[c] = [task[c] EXCEPT !.step = task[c].then, !.shift = None,
                                 !.reason = None, !.ended = 0, !.then = "idle"]
  BY <1>1 DEF Return
<1>3. task[c].then \in {"planning", "opening", "creating"}
  BY <1>1 DEF ShiftsInv, TaskSound
<1> QED
  BY <1>1, <1>2, <1>3 DEF CheckSound, Opening, AutoClosing, Task

LEMMA StepKeepsCheck ==
  ASSUME ChecksInv, NEW c \in Checker, NEW x \in {"recovering", "stamping"},
         AutoClosing(task[c]), task' = [task EXCEPT ![c].step = x]
  PROVE  CheckSound(task'[c], now, shift)
<1>1. /\ ShiftsInv /\ CheckSound(task[c], now, shift)
      /\ c \in Actor /\ task \in [Actor -> Task] /\ task[c] \in Task
      /\ task[c].at \in Nat /\ now \in Nat
  BY CheckIsActor
<1>2. task'[c] = [task[c] EXCEPT !.step = x]
  BY <1>1
<1>3. ~Current(task[c], task[c].shift, now, shift)
  BY <1>1 DEF CheckSound
<1> QED
  BY <1>1, <1>2, <1>3 DEF CheckSound, Opening, AutoClosing, Task, Current

LEMMA AutoCloseKeepsCheck ==
  ASSUME ChecksInv, NEW c \in Checker, AutoClose(c)
  PROVE  CheckSound(task'[c], now, shift)
BY ReturnKeepsCheck, StepKeepsCheck
   DEF AutoClose, AutoCloseRead, canAutoCloseShift, AutoCloseWrite, At, AutoClosing

LEMMA ListingKeepsCheck ==
  ASSUME ChecksInv, NEW c \in Checker,
         CloseEligible(c) \/ closeBlockingOpenShiftsBeforeOpen(c)
  PROVE  CheckSound(task'[c], now, shift)
<1>1. /\ ShiftsInv /\ CheckSound(task[c], now, shift)
      /\ c \in Actor /\ task \in [Actor -> Task] /\ task[c] \in Task
      /\ task[c].at \in Nat /\ now \in Nat
  BY CheckIsActor
<1>2. CASE task' = [task EXCEPT ![c].step = "planning"] /\ At(c, "listing")
  BY <1>1, <1>2 DEF CheckSound, Opening, AutoClosing, Task, At
<1>3. CASE task' = [task EXCEPT ![c].step = "opening"] /\ At(c, "blocking")
  BY <1>1, <1>3 DEF CheckSound, Opening, AutoClosing, Task, At
<1>4. ASSUME NEW s \in EligibleShifts(c), NEW y, NEW r, NEW e,
             \/ At(c, "listing") /\ y = "planning"
             \/ At(c, "blocking") /\ y = "opening",
             task' = [task EXCEPT ![c] = [task[c] EXCEPT !.step = "closing", !.shift = s,
                                            !.then = y, !.reason = r, !.ended = e]]
      PROVE  CheckSound(task'[c], now, shift)
  <2> DEFINE k == [task[c] EXCEPT !.step = "closing", !.shift = s,
                                  !.then = y, !.reason = r, !.ended = e]
  <2>1. task'[c] = k
    BY <1>1, <1>4
  <2>2. ~Current(task[c], s, now, shift)
    BY <1>1, EligibleIsNotCurrent
  <2>3. /\ k.at = task[c].at /\ k.shift = s /\ k.step = "closing" /\ k.then = y
        /\ k.schedule = task[c].schedule /\ k.existing = task[c].existing
    BY <1>1 DEF Task
  <2>4. ~Current(k, s, now, shift)
    BY <2>2, <2>3 DEF Current
  <2> HIDE DEF k
  <2> QED
    BY <1>1, <1>4, <2>1, <2>3, <2>4 DEF CheckSound, Opening, AutoClosing, At
<1>5. CASE CloseEligible(c)
  BY <1>2, <1>4, <1>5 DEF CloseEligible
<1>6. CASE closeBlockingOpenShiftsBeforeOpen(c)
  <2>1. CASE EligibleShifts(c) = {}
    BY <1>3, <1>6, <2>1 DEF closeBlockingOpenShiftsBeforeOpen
  <2>2. CASE EligibleShifts(c) # {}
    BY <1>4, <1>6, <2>2 DEF closeBlockingOpenShiftsBeforeOpen
  <2> QED
    BY <2>1, <2>2
<1> QED
  BY <1>5, <1>6

LEMMA PlanKeepsCheck ==
  ASSUME ChecksInv, NEW c \in Checker, PlanPeriod(c)
  PROVE  CheckSound(task'[c], now, shift)
<1>1. /\ ShiftsInv /\ CheckSound(task[c], now, shift)
      /\ c \in Actor /\ task \in [Actor -> Task] /\ task[c] \in Task
      /\ task[c].at \in Nat /\ now \in Nat
  BY CheckIsActor
<1> DEFINE today    == BusinessDate(now)
           schedule == evaluatePeriodOpen(task[c].at, today)
           existing == {s \in Shift : shift[s].status \in {"OPEN", "CLOSED"} /\
                         shift[s].schedule = schedule /\ shift[s].date = today}
<1>2. CASE EndCheck(c)
  BY <1>1, <1>2 DEF EndCheck, CheckSound, Opening, AutoClosing, Idle
<1>3. ASSUME schedule # None, NEW s \in IF existing = {} THEN {None} ELSE existing,
             task' = [task EXCEPT ![c].step = "blocking",
                                  ![c].schedule = schedule, ![c].existing = s]
      PROVE  CheckSound(task'[c], now, shift)
  <2> DEFINE t == findActiveShiftTypeAtTime(task[c].at, today)
  <2>1. t \in Type /\ isWithinShiftPeriod(t, task[c].at, today) /\ Rota[schedule].type = t
    BY <1>3, NoneAssumption
       DEF evaluatePeriodOpen, findActiveShiftTypeAtTime, selectScheduleForActiveShiftType
  <2>2. today = BusinessDate(task[c].at)
    BY <1>1, <2>1, PeriodIsOfToday DEF CheckSound, PlanPeriod, At
  <2>3. task'[c] = [task[c] EXCEPT !.step = "blocking", !.schedule = schedule, !.existing = s]
    BY <1>1, <1>3
  <2>4. s # None => shift[s].date = today
    BY <1>3
  <2>5. /\ task'[c].step = "blocking" /\ task'[c].schedule = schedule
        /\ task'[c].existing = s /\ task'[c].at = task[c].at
    BY <1>1, <2>3 DEF Task
  <2>6. task[c].at <= now /\ now <= task[c].at + 1
    BY <1>1 DEF CheckSound, PlanPeriod, At
  <2> HIDE DEF today, schedule, existing, t
  <2> QED
    BY <2>1, <2>2, <2>4, <2>5, <2>6 DEF CheckSound, Opening, AutoClosing, today
<1> QED
  BY <1>2, <1>3 DEF PlanPeriod

LEMMA CheckKeepsCheck ==
  ASSUME ChecksInv, NEW c \in Checker, runAutoShiftCheck(c)
  PROVE  CheckSound(task'[c], now, shift)
<1>1. /\ ShiftsInv /\ CheckSound(task[c], now, shift)
      /\ c \in Actor /\ task \in [Actor -> Task] /\ task[c] \in Task
      /\ task[c].at \in Nat /\ now \in Nat
  BY CheckIsActor
<1>2. CASE BeginCheck(c)
  <2>1. task'[c] = [Idle EXCEPT !.step = "listing", !.at = now]
    BY <1>1, <1>2 DEF BeginCheck
  <2> QED
    BY <1>1, <2>1 DEF CheckSound, Opening, AutoClosing, Idle
<1>3. CASE EndCheck(c)
  BY <1>1, <1>3 DEF EndCheck, CheckSound, Opening, AutoClosing, Idle
<1> QED
  BY <1>2, <1>3, AutoCloseKeepsCheck, ListingKeepsCheck, PlanKeepsCheck
     DEF runAutoShiftCheck, reopenScheduledShift, CreatePlanned

-----------------------------------------------------------------------------
(***************************************************************************)
(* What a step may do to the row that a check is about to close: nothing   *)
(* that makes it the row of the period.  Only a check that opens it again  *)
(* changes its business date, and then either it was of today before, or   *)
(* midnight has just passed and its period does not begin at midnight.     *)
(***************************************************************************)
Spared(before, after) ==
  \/ after = before
  \/ before.status = "FREE"
  \/ after.status = "GONE" /\ after.date = None
  \/ /\ before.status # "GONE"
     /\ after.type = before.type
     /\ \/ after.date = before.date
        \/ /\ after.date = BusinessDate(now) /\ now = BusinessDate(now) * DaySlots
           /\ after.type \in Type /\ Window[after.type].start > 0

RowsSpared == \A s \in Shift : Spared(shift[s], shift'[s])

LEMMA InsertSpares ==
  ASSUME TypeOK, MayInsert, NEW r, shift' = [shift EXCEPT ![NewShift] = r]
  PROVE  RowsSpared
<1>1. shift[NewShift].status = "FREE"
  BY DEF MayInsert, FreeShift, NewShift
<1> QED
  BY <1>1 DEF RowsSpared, Spared, TypeOK

LEMMA CloseSpares ==
  ASSUME TypeOK, NEW s \in Shift, NEW at, shift[s].status # "GONE",
         shift' = [shift EXCEPT ![s].status = "CLOSED", ![s].ended = at]
  PROVE  RowsSpared
<1>1. \A u \in Shift : shift'[u] = IF u = s THEN [shift[s] EXCEPT !.status = "CLOSED", !.ended = at]
                                   ELSE shift[u]
  BY DEF TypeOK
<1>2. shift[s] \in ShiftRow
  BY DEF TypeOK
<1> DEFINE r == [shift[s] EXCEPT !.status = "CLOSED", !.ended = at]
<1>3. r.type = shift[s].type /\ r.date = shift[s].date
  BY <1>2 DEF ShiftRow
<1>4. \A u \in Shift : shift'[u] = IF u = s THEN r ELSE shift[u]
  BY <1>1
<1> HIDE DEF r
<1> QED
  BY <1>3, <1>4 DEF RowsSpared, Spared

LEMMA AutoCloseSpares ==
  ASSUME ShiftsInv, NEW a \in Actor, AutoClose(a)
  PROVE  RowsSpared
<1>1. CASE shift' = shift
  BY <1>1 DEF RowsSpared, Spared
<1>2. CASE AutoCloseWrite(a) /\ shift' # shift
  <2>1. TypeOK /\ task[a].shift \in Shift
    BY <1>2 DEF ShiftsInv, TaskSound, Working, AutoCloseWrite, At
  <2> QED
    BY <1>2, <2>1, CloseSpares DEF AutoCloseWrite, CloseIfOpen
<1> QED
  BY <1>1, <1>2 DEF AutoClose, AutoCloseRead, canAutoCloseShift

LEMMA ReopenSpares ==
  ASSUME ChecksInv, NoRoundTheClock, NEW c \in Checker, reopenScheduledShift(c)
  PROVE  RowsSpared
<1>1. /\ ShiftsInv /\ CheckSound(task[c], now, shift)
      /\ c \in Actor /\ task \in [Actor -> Task] /\ task[c] \in Task
      /\ task[c].at \in Nat /\ now \in Nat
  BY CheckIsActor
<1> DEFINE s     == task[c].existing
           b     == task[c]
           today == BusinessDate(now)
           times == PlannedTimes(b.schedule, today)
           r     == Reopened(s, today, times)
<1>2. /\ b.step = "opening" /\ s # None
      /\ shift' = IF MayReopen(s) THEN [shift EXCEPT ![s] = r] ELSE shift
  BY DEF reopenScheduledShift, At
<1>3. CASE ~MayReopen(s)
  BY <1>2, <1>3 DEF RowsSpared, Spared
<1>4. CASE MayReopen(s)
  <2>1. /\ s \in Shift /\ shift[s].status = "CLOSED"
        /\ shift[s] \in ShiftRow /\ RowSound(shift[s]) /\ shift \in [Shift -> ShiftRow]
    BY <1>1, <1>2, <1>4 DEF MayReopen, Task, ShiftsInv, TypeOK
  <2>2. b.schedule \in Schedule /\ shift[s].schedule = b.schedule
    BY <1>1, <1>2, <2>1 DEF TaskSound, Opening, ShiftsInv
  <2>3. shift[s].type = Rota[b.schedule].type /\ shift[s].type \in Type
    BY <2>1, <2>2, NoneAssumption DEF RowSound
  <2>4. /\ r.type = shift[s].type /\ r.date = today
        /\ \A u \in Shift : shift'[u] = IF u = s THEN r ELSE shift[u]
    BY <1>2, <1>4, <2>1 DEF Reopened, ShiftRow
  <2>5. CASE shift[s].date = today
    BY <2>1, <2>4, <2>5 DEF RowsSpared, Spared
  <2>6. CASE shift[s].date # today
    <3> DEFINE d == BusinessDate(b.at)  t == shift[s].type
    <3>1. /\ b.at <= now /\ now <= b.at + 1 /\ today # d
          /\ isWithinShiftPeriod(t, b.at, d)
      BY <1>1, <1>2, <2>1, <2>3, <2>6 DEF CheckSound, Opening
    <3>2. d \in Nat /\ today \in Nat /\ d < today
      <4>1. d \in Nat /\ today \in Nat
        BY <1>1, DayHoldsSlot
      <4>2. d <= today
        BY <1>1, <3>1, DatesGrow
      <4> HIDE DEF d, today
      <4> QED
        BY <3>1, <4>1, <4>2
    <3>3. /\ d * DaySlots \in Nat /\ today * DaySlots \in Nat
          /\ d * DaySlots + DaySlots <= today * DaySlots
      BY <3>2, DaysFollow
    <3>4. b.at < d * DaySlots + DaySlots /\ today * DaySlots <= now
      BY <1>1, DayHoldsSlot
    <3>5. /\ Window[t].end \in Nat /\ Window[t].start \in Nat
          /\ b.at < d * DaySlots + Window[t].end
      BY <2>3, <3>1, <3>2, WindowsAreNat DEF isWithinShiftPeriod, buildScheduledDatetime
    <3>6. now = today * DaySlots /\ Window[t].end >= DaySlots
      <4> HIDE DEF d, today, t, b
      <4> QED
        BY <1>1, <3>1, <3>3, <3>4, <3>5, TimeAssumption DEF b
    <3>7. Window[t].start > 0
      <4> HIDE DEF t, today
      <4>1. t \in Type
        BY <2>3 DEF t
      <4> QED
        BY <3>5, <3>6, <4>1, TimeAssumption DEF NoRoundTheClock
    <3> HIDE DEF r, s
    <3> QED
      BY <2>1, <2>3, <2>4, <3>6, <3>7 DEF RowsSpared, Spared
  <2> QED
    BY <2>5, <2>6
<1> QED
  BY <1>3, <1>4

LEMMA CheckSpares ==
  ASSUME ChecksInv, NoRoundTheClock, NEW c \in Checker, runAutoShiftCheck(c)
  PROVE  RowsSpared
<1>1. /\ ShiftsInv /\ CheckSound(task[c], now, shift)
      /\ c \in Actor /\ task \in [Actor -> Task] /\ task[c] \in Task
      /\ task[c].at \in Nat /\ now \in Nat
  BY CheckIsActor
<1>2. CASE shift' = shift
  BY <1>2 DEF RowsSpared, Spared
<1>3. CASE CreatePlanned(c) /\ shift' # shift
  BY <1>1, <1>3, InsertSpares DEF CreatePlanned, ShiftsInv
<1> QED
  BY <1>1, <1>2, <1>3, AutoCloseSpares, ReopenSpares
     DEF runAutoShiftCheck, BeginCheck, CloseEligible, PlanPeriod, closeBlockingOpenShiftsBeforeOpen

LEMMA HandlerSpares ==
  ASSUME ShiftsInv, NEW h \in Handler, HandlerStep(h) \/ Request(h)
  PROVE  RowsSpared
<1>1. /\ TypeOK /\ h \in Actor /\ task[h] \in Task /\ TaskSound(task[h], shift) /\ now \in Nat
  BY HandlerTyped
<1>2. CASE shift' = shift
  BY <1>2 DEF RowsSpared, Spared
<1>3. CASE CreateManual(h) /\ shift' # shift
  BY <1>1, <1>3, InsertSpares DEF CreateManual
<1>4. CASE WriteClose(h)
  <2>1. task[h].shift \in Shift
    BY <1>1, <1>4 DEF WriteClose, At, TaskSound, Working
  <2> QED
    BY <1>1, <1>4, <2>1, CloseSpares DEF WriteClose
<1> QED
  BY <1>1, <1>2, <1>3, <1>4, AutoCloseSpares
     DEF HandlerStep, Request, FinishMassages, GiveUpClose, CloseLingering, BeginClose,
         closeAssistantShift

LEMMA OthersSpare ==
  ASSUME ShiftsInv, AssistantStart \/ \E s \in Shift : deleteShift(s)
  PROVE  RowsSpared
<1>1. TypeOK
  BY DEF ShiftsInv
<1>2. CASE AssistantStart
  BY <1>1, <1>2, InsertSpares DEF AssistantStart, startAssistantShift
<1>3. ASSUME NEW s \in Shift, deleteShift(s)
      PROVE  RowsSpared
  <2>1. \A u \in Shift : shift'[u] = IF u = s THEN [FreeRow EXCEPT !.status = "GONE"] ELSE shift[u]
    BY <1>1, <1>3 DEF deleteShift, TypeOK
  <2> QED
    BY <2>1 DEF RowsSpared, Spared, FreeRow
<1> QED
  BY <1>2, <1>3

(***************************************************************************)
(* Rows that are spared leave what a check carries sound.                  *)
(***************************************************************************)
LEMMA SparedStaysSound ==
  ASSUME ShiftsInv, RowsSpared, NEW k \in Task, TaskSound(k, shift), CheckSound(k, now, shift)
  PROVE  CheckSound(k, now, shift')
<1>1. /\ k.at \in Nat /\ now \in Nat /\ BusinessDate(k.at) \in Nat /\ BusinessDate(now) \in Nat
      /\ BusinessDate(now) * DaySlots \in Nat
  BY DayHoldsSlot DEF Task, ShiftsInv, TypeOK
<1>2. ASSUME Opening(k), k.existing # None, shift'[k.existing].status # "GONE",
             BusinessDate(now) = BusinessDate(k.at)
      PROVE  shift'[k.existing].date = BusinessDate(now)
  <2>1. k.existing \in Shift /\ shift[k.existing].status # "FREE"
    BY <1>2 DEF TaskSound, Task
  <2>2. shift[k.existing].status = "GONE" \/ shift[k.existing].date = BusinessDate(now)
    BY <1>2 DEF CheckSound
  <2> QED
    BY <1>2, <2>1, <2>2 DEF RowsSpared, Spared
<1>3. ASSUME AutoClosing(k), Current(k, k.shift, now, shift')
      PROVE  FALSE
  <2> DEFINE s == k.shift
  <2>1. s \in Shift /\ shift[s].status # "FREE" /\ ~Current(k, s, now, shift)
    BY <1>3 DEF TaskSound, Working, AutoClosing, CheckSound
  <2>2. /\ shift'[s].date = BusinessDate(now) /\ BusinessDate(now) = BusinessDate(k.at)
        /\ isWithinShiftPeriod(shift'[s].type, k.at, BusinessDate(now))
    BY <1>3 DEF Current
  <2>3. shift'[s].date # None
    BY <1>1, <2>2, NoneAssumption
  <2>4. ~(shift'[s].type = shift[s].type /\ shift'[s].date = shift[s].date)
    BY <2>1, <2>2 DEF Current
  <2>5. /\ now = BusinessDate(now) * DaySlots
        /\ shift'[s].type \in Type /\ Window[shift'[s].type].start > 0
    BY <2>1, <2>3, <2>4 DEF RowsSpared, Spared
  <2>6. k.at <= now
    BY <1>3 DEF CheckSound, AutoClosing
  <2>7. BusinessDate(now) * DaySlots + Window[shift'[s].type].start <= k.at
    BY <2>2 DEF isWithinShiftPeriod, buildScheduledDatetime
  <2> QED
    BY <1>1, <2>5, <2>6, <2>7, WindowsAreNat
<1> QED
  BY <1>2, <1>3 DEF CheckSound

(***************************************************************************)
(* The clock.                                                              *)
(***************************************************************************)
LEMMA TimeKeepsChecks ==
  ASSUME ChecksInv, TimePasses, NEW c \in Checker
  PROVE  CheckSound(task'[c], now', shift')
<1>1. /\ ShiftsInv /\ CheckSound(task[c], now, shift)
      /\ c \in Actor /\ task \in [Actor -> Task] /\ task[c] \in Task
      /\ task[c].at \in Nat /\ now \in Nat
  BY CheckIsActor
<1>2. /\ now' = now + 1 /\ task' = task /\ shift' = shift
      /\ task[c].step = "idle" \/ task[c].at = now
  BY DEF TimePasses, At
<1>3. CASE task[c].step = "idle"
  BY <1>2, <1>3 DEF CheckSound, Opening, AutoClosing
<1>4. CASE task[c].at = now
  BY <1>1, <1>2, <1>4 DEF CheckSound, Current
<1> QED
  BY <1>2, <1>3, <1>4

(***************************************************************************)
(* Only its own steps change what a check carries.                         *)
(***************************************************************************)
LEMMA OthersWait ==
  ASSUME ShiftsInv, [Next]_vars, NEW c \in Checker, ~runAutoShiftCheck(c)
  PROVE  task'[c] = task[c]
<1>1. task \in [Actor -> Task] /\ c \in Actor /\ Checker \cap Handler = {}
  BY ActorAssumption DEF ShiftsInv, TypeOK, Actor
<1>2. ASSUME NEW b \in Checker, b # c, runAutoShiftCheck(b) PROVE task'[c] = task[c]
  BY <1>1, <1>2 DEF runAutoShiftCheck, AutoClose, BeginCheck, CloseEligible,
     PlanPeriod, closeBlockingOpenShiftsBeforeOpen, reopenScheduledShift, CreatePlanned,
     EndCheck, AutoCloseRead, canAutoCloseShift, AutoCloseWrite, Return, Actor
<1>3. ASSUME NEW h \in Handler, HandlerStep(h) \/ Request(h) PROVE task'[c] = task[c]
  BY <1>1, <1>3 DEF HandlerStep, Request, AutoClose, AutoCloseRead, canAutoCloseShift,
     AutoCloseWrite, Return, CreateManual, FinishMassages, GiveUpClose,
     WriteClose, CloseLingering, BeginClose, closeAssistantShift, Actor
<1>4. CASE UNCHANGED task
  BY <1>4
<1> QED
  BY <1>2, <1>3, <1>4 DEF Next, vars, deleteShift, AssistantStart, startAssistantShift,
     resolveOpenShiftForSession, MassageStep, StartMassage, Fade, EndMassage, TimePasses

LEMMA ChecksInit == Init => ChecksInv
BY InvInit DEF Init, ChecksInv, CheckSound, Opening, AutoClosing, Idle, Actor

LEMMA ChecksStep ==
  ASSUME ChecksInv, NoRoundTheClock, [Next]_vars
  PROVE  ChecksInv'
<1>1. ShiftsInv /\ ShiftsInv'
  BY InvStep DEF ChecksInv
<1>2. ASSUME NEW c \in Checker PROVE CheckSound(task'[c], now', shift')
  <2>1. /\ ShiftsInv /\ CheckSound(task[c], now, shift)
        /\ c \in Actor /\ task \in [Actor -> Task] /\ task[c] \in Task
        /\ task[c].at \in Nat /\ now \in Nat
    BY CheckIsActor
  <2>2. CASE TimePasses
    BY <2>2, TimeKeepsChecks
  <2>3. CASE ~TimePasses
    <3>1. now' = now
      BY <2>3 DEF Next, vars, runAutoShiftCheck, AutoClose, BeginCheck, CloseEligible, PlanPeriod,
         closeBlockingOpenShiftsBeforeOpen, reopenScheduledShift, CreatePlanned, AutoCloseRead,
         canAutoCloseShift, AutoCloseWrite, HandlerStep, Request, CreateManual, FinishMassages,
         GiveUpClose, WriteClose, CloseLingering, BeginClose, closeAssistantShift, deleteShift,
         AssistantStart, startAssistantShift, resolveOpenShiftForSession, MassageStep,
         StartMassage, Fade, EndMassage, Rest
    <3>2. RowsSpared
      <4>1. CASE shift' = shift
        BY <4>1 DEF RowsSpared, Spared
      <4> QED
        BY <1>1, <2>3, <4>1, CheckSpares, HandlerSpares, OthersSpare
           DEF Next, vars, resolveOpenShiftForSession, MassageStep, StartMassage, Fade, EndMassage
    <3>3. CheckSound(task'[c], now, shift)
      <4>1. CASE runAutoShiftCheck(c)
        BY <4>1, CheckKeepsCheck
      <4>2. CASE ~runAutoShiftCheck(c)
        <5>1. task'[c] = task[c]
          BY <1>1, <2>3, <4>2, OthersWait
        <5> QED
          BY <2>1, <5>1
      <4> QED
        BY <4>1, <4>2
    <3>4. task'[c] \in Task /\ TaskSound(task'[c], shift)
      <4>1. TaskStep
        BY <1>1, NextStep
      <4> QED
        BY <2>1, <4>1 DEF TaskStep, ShiftsInv
    <3> QED
      BY <1>1, <3>1, <3>2, <3>3, <3>4, SparedStaysSound
  <2> QED
    BY <2>2, <2>3
<1> QED
  BY <1>1, <1>2 DEF ChecksInv

(***************************************************************************)
(* An automatic check does not close today's shift of the period it runs   *)
(* in, even when checks overlap, midnight passes or people open, close and *)
(* delete shifts in between, as long as no period lasts the whole day.     *)
(***************************************************************************)
THEOREM ChecksKeepCurrentShift ==
  ASSUME NoRoundTheClock
  PROVE  Spec => CheckKeepsCurrentShift
<1>1. ASSUME ChecksInv, [Next]_vars
      PROVE  \A c \in Checker, s \in Shift :
               /\ At(c, "stamping") /\ task'[c].step # "stamping"
               /\ shift[s].status = "OPEN" /\ shift'[s].status = "CLOSED"
               => ~(/\ shift[s].date = BusinessDate(task[c].at)
                    /\ BusinessDate(now) = BusinessDate(task[c].at)
                    /\ isWithinShiftPeriod(shift[s].type, task[c].at, shift[s].date))
  <2> SUFFICES ASSUME NEW c \in Checker, NEW s \in Shift,
                      At(c, "stamping"), task'[c].step # "stamping",
                      shift[s].status = "OPEN", shift'[s].status = "CLOSED"
               PROVE  ~Current(task[c], s, now, shift)
    BY DEF Current
  <2>1. /\ ShiftsInv /\ CheckSound(task[c], now, shift)
        /\ c \in Actor /\ task[c] \in Task
    BY <1>1, CheckIsActor
  <2>2. AutoCloseWrite(c)
    BY <1>1, <2>1, OnlyItsOwnTask
  <2>3. s = task[c].shift
    <3>1. shift \in [Shift -> ShiftRow] /\ task[c].shift \in Shift
      BY <2>1, <2>2 DEF AutoCloseWrite, At, TaskSound, Working, ShiftsInv, TypeOK
    <3> QED
      BY <2>2, <3>1 DEF AutoCloseWrite, CloseIfOpen
  <2> QED
    BY <2>1, <2>3 DEF CheckSound, AutoClosing, At
<1>2. ChecksInv /\ [Next]_vars => ChecksInv'
  BY ChecksStep
<1> QED
  BY <1>1, <1>2, ChecksInit, PTL DEF Spec, CheckKeepsCurrentShift
=============================================================================
