------------------------------- MODULE TillPage -------------------------------
(***************************************************************************)
(* The page of the tills (web/src/app/caisses/page.tsx) with the routes it *)
(* calls.  The owner sees the balances of the day, posts incomes and       *)
(* withdrawals, assigns the tills and reads the history, while sessions,   *)
(* primes and other people post to the same tills.                         *)
(*                                                                         *)
(* A posting is one step here (CashLedger shows that it may be).  What is  *)
(* read is not: the balances and the movements of the day are two queries, *)
(* so are the total and the rows of a page, a range of days is one request *)
(* per day, and every answer takes its time, fails, or is given up after   *)
(* 15 seconds while the server goes on.                                    *)
(***************************************************************************)
EXTENDS Integers, FiniteSets, FiniteSetsExt, Sequences

CONSTANTS
  Till, FirstTill, \* the physical tills, and the one listed first
  Staff,
  Task,            \* the asynchronous functions that can be under way in the page
  PageSize,        \* PAGE_SIZE of the page
  BatchSize,       \* pageSize of a day's request when a range is asked for
  MaxRangeDays,    \* MAX_RANGE_DAYS
  World,           \* what happens in an instance; see Init
  None

VARIABLES
  world,           \* the world, chosen once
  book,            \* Seq of movements, all tills, in the order they were posted
  holder,          \* [Till -> Staff or None]
  today,           \* the business date
  list,            \* what the page shows of the tills, None before the first answer
  history,         \* what it shows of the movements
  form,            \* the filters as they stand in the form
  showHistory, historyLoading, page,
  dialog,          \* the open dialog or None
  busy,            \* actionBusy
  task,            \* [Task -> how far the function has come]
  late,            \* orders the page has given up and the server has not seen yet
  tally            \* orders: dialogs opened, told as done, posted, given up

vars == <<world, book, holder, today, list, history, form, showHistory,
          historyLoading, page, dialog, busy, task, late, tally>>
server == <<book, holder, today>>
screen == <<list, history, form, showHistory, historyLoading, page>>

-----------------------------------------------------------------------------
MovementType == {"INITIAL_BALANCE", "SESSION_PAYMENT", "MANUAL_INCOME", "WITHDRAWAL",
                 "ADMIN_ADJUSTMENT", "CORRECTION", "REVERSAL", "PRIME_DEDUCTION"}

Movement == [till: Till, staff: Staff \cup {None}, type: MovementType,
             amount: Int, day: Nat]

\* What the history asks for.
Filter == [from: Nat \cup {None}, to: Nat \cup {None},
           type: MovementType \cup {None}, staff: Staff \cup {None},
           till: Till \cup {None}]

\* A row of the list, and a page of the history, as the server answers them.
DayStats == [opening: Int, sessions: Int, primes: Int, withdrawals: Nat,
             adjustments: Int, closing: Int]

HistoryPage == [items: SUBSET Nat, total: Nat, pages: Nat, page: Nat, filters: Filter,
                at: Nat, quiet: BOOLEAN]

\* Movements are named by their places in the book.
SumOver(b, places) == MapThenSumSet(LAMBDA i : b[i].amount, places)

BalanceIn(b, t) == SumOver(b, {i \in DOMAIN b : b[i].till = t})

(***************************************************************************)
(* The day's figures of a till from its balance and the day's movements.   *)
(***************************************************************************)
SessionIncomeType == {"SESSION_PAYMENT", "CORRECTION", "REVERSAL"}

computeDayStats(current, b, ofDay) ==
  LET Total(types) == SumOver(b, {i \in ofDay : b[i].type \in types}) IN
    [opening     |-> current - SumOver(b, ofDay),
     sessions    |-> Total(SessionIncomeType),
     primes      |-> Total({"PRIME_DEDUCTION"}),
     withdrawals |-> -Total({"WITHDRAWAL"}),
     adjustments |-> Total(MovementType \ (SessionIncomeType \cup {"WITHDRAWAL",
                                                                   "PRIME_DEDUCTION"})),
     closing     |-> current]

DayWithoutStart(b, t, date, current) ==                 \* mutant of DayOfTill
  computeDayStats(current, b, {i \in DOMAIN b : b[i].till = t /\ b[i].day <= date})

DayOfTill(b, t, date, current) ==
  computeDayStats(current, b, {i \in DOMAIN b : b[i].till = t /\ b[i].day = date})

\* The same of one till and, if given, one staff member, at one moment.
getDayStats(b, t, date, s) ==
  computeDayStats(BalanceIn(b, t), b,
    {i \in DOMAIN b : b[i].till = t /\ b[i].day = date /\ (s = None \/ b[i].staff = s)})

-----------------------------------------------------------------------------
(***************************************************************************)
(* What the history asks for.  A movement is known by its place in the     *)
(* book, so that a set of places, latest first, is a list of movements.    *)
(***************************************************************************)
NoFilter == [from |-> None, to |-> None, type |-> None, staff |-> None, till |-> None]

enumerateDays(from, to) == {d \in from..to : d < from + MaxRangeDays}

DaysAskedFromOnly(f) ==                                 \* mutant of DaysAsked
  IF f.from = None THEN {}
  ELSE enumerateDays(f.from, IF f.to = None THEN f.from ELSE f.to)

DaysAsked(f) ==
  IF f.from = None /\ f.to = None THEN {}
  ELSE enumerateDays(IF f.from = None THEN f.to ELSE f.from,
                     IF f.to = None THEN f.from ELSE f.to)

\* parseMovementQuery: a type it does not know is no filter.
QueriedType(type) == IF type = "PRIME_DEDUCTION" THEN None ELSE type

Where(b, f, day) ==
  {i \in DOMAIN b :
     /\ f.till = None \/ b[i].till = f.till
     /\ f.staff = None \/ b[i].staff = f.staff
     /\ QueriedType(f.type) = None \/ b[i].type = QueriedType(f.type)
     /\ day = None \/ b[i].day = day}

Rank(i, found) == Cardinality({j \in found : j > i})

Slice(found, n, size) == {i \in found : Rank(i, found) \in (n - 1) * size .. n * size - 1}

PagesOf(n) == (n + PageSize - 1) \div PageSize

\* One request for no day or one, one request a day for more.
SingleDay(f) == Cardinality(DaysAsked(f)) <= 1
TheDay(f) == IF DaysAsked(f) = {} THEN None ELSE CHOOSE d \in DaysAsked(f) : TRUE

Reads(f) ==
  IF SingleDay(f) THEN {[what |-> w, day |-> TheDay(f)] : w \in {"total", "rows"}}
  ELSE {[what |-> "batch", day |-> d] : d \in DaysAsked(f)}

-----------------------------------------------------------------------------
(***************************************************************************)
(* A function under way: its step, the order it posts, the history page it *)
(* loads afterwards (0 for none) with the filters it was created with, and *)
(* what it has read so far.                                                *)
(***************************************************************************)
Idle == [step |-> "idle", order |-> None, next |-> 0, filters |-> NoFilter, got |-> None]

Running(step, order, next, f) ==
  [step |-> step, order |-> order, next |-> next, filters |-> f, got |-> None]

Free(k) == k \in world.tasks /\ task[k].step = "idle"

NothingRead(f) == [todo |-> Reads(f), total |-> 0, items |-> {}, at |-> None, quiet |-> TRUE]

\* With the history the page asks for nothing was read yet.
Loading(t) == [t EXCEPT !.step = "history", !.got = NothingRead(t.filters)]

\* The end of a function.  A submit frees the buttons and goes to page 1.
EndOf(k) ==
  /\ task' = [task EXCEPT ![k] = Idle]
  /\ busy' = (busy /\ task[k].order = None)

(***************************************************************************)
(* A world: which tasks there are, which tills are used, what is posted    *)
(* elsewhere and for whom, which dialogs are opened with which amounts,    *)
(* which filters are set, whether the list is loaded at all, and the       *)
(* bounds on the book, the days, the dialogs and the failures.             *)
(***************************************************************************)
Init ==
  /\ world \in World
  /\ book = << >>
  /\ holder = [t \in Till |-> None]
  /\ today = 1
  /\ list = None
  /\ history = None
  /\ form = NoFilter
  /\ showHistory = FALSE
  /\ historyLoading = FALSE
  /\ page = 1
  /\ dialog = None
  /\ busy = FALSE
  /\ task = [k \in Task |-> Idle]
  /\ late = {}
  /\ tally = [opened |-> 0, told |-> 0, posted |-> 0, troubles |-> 0]

-----------------------------------------------------------------------------
(***************************************************************************)
(* The server.                                                             *)
(***************************************************************************)
Posted(t, s, type, amount) ==
  /\ Len(book) < world.maxBook
  /\ book' = Append(book, [till |-> t, staff |-> s, type |-> type,
                           amount |-> amount, day |-> today])

\* Sessions, primes and other people; a withdrawal only from what is there.
Elsewhere ==
  \E t \in world.tills, s \in world.staff, p \in world.posted :
    /\ p.type = "WITHDRAWAL" => BalanceIn(book, t) + p.amount >= 0
    /\ Posted(t, s, p.type, p.amount)
    /\ UNCHANGED <<world, holder, today, screen, dialog, busy, task, late, tally>>

Midnight ==
  /\ today < world.lastDay
  /\ today' = today + 1
  /\ UNCHANGED <<world, book, holder, screen, dialog, busy, task, late, tally>>

(***************************************************************************)
(* An order of the page: an income belongs to nobody, a withdrawal to the  *)
(* holder of the till, and a staff member holds one till.                  *)
(***************************************************************************)
Credits(o) ==
  /\ o.kind = "credit"
  /\ Posted(o.till, None, "MANUAL_INCOME", o.amount)
  /\ UNCHANGED holder

Withdraws(o) ==
  /\ o.kind = "withdraw"
  /\ o.amount <= BalanceIn(book, o.till)
  /\ Posted(o.till, holder[o.till], "WITHDRAWAL", -o.amount)
  /\ UNCHANGED holder

Assigns(o) ==
  /\ o.kind = "assign"
  /\ o.staff # None => \A u \in Till \ {o.till} : holder[u] # o.staff
  /\ holder' = [holder EXCEPT ![o.till] = o.staff]
  /\ UNCHANGED book

Carries(o) == Credits(o) \/ Withdraws(o) \/ Assigns(o)

Refuses(o) ==
  \/ o.kind = "withdraw" /\ o.amount > BalanceIn(book, o.till)
  \/ o.kind = "assign" /\ o.staff # None /\ \E u \in Till \ {o.till} : holder[u] = o.staff

ServeOrder(k) ==
  /\ task[k].step = "post"
  /\ Carries(task[k].order)
  /\ task' = [task EXCEPT ![k].step = "posted"]
  /\ tally' = [tally EXCEPT !.posted = @ + 1]
  /\ UNCHANGED <<world, today, screen, dialog, busy, late>>

RefuseOrder(k) ==
  /\ task[k].step = "post"
  /\ Refuses(task[k].order)
  /\ task' = [task EXCEPT ![k].step = "refused"]
  /\ UNCHANGED <<world, server, screen, dialog, busy, late, tally>>

\* An order that the page has given up reaches the server after all.
ServeLate ==
  \E o \in late :
    /\ Carries(o)
    /\ late' = late \ {o}
    /\ tally' = [tally EXCEPT !.posted = @ + 1]
    /\ UNCHANGED <<world, today, screen, dialog, busy, task>>

(***************************************************************************)
(* listAccountsWithDayStats: the date and the tills with their balances in *)
(* one query, the movements of that date in the next.                      *)
(***************************************************************************)
ReadAccounts(k) ==
  /\ task[k].step = "accounts"
  /\ task' = [task EXCEPT ![k].step = "movements",
       ![k].got = [date |-> today, balance |-> [t \in Till |-> BalanceIn(book, t)],
                   holder |-> holder, at |-> Len(book)]]
  /\ UNCHANGED <<world, server, screen, dialog, busy, late, tally>>

listAccountsWithDayStats(k) ==
  LET got == task[k].got IN
  /\ task[k].step = "movements"
  /\ task' = [task EXCEPT ![k].step = "listed",
       ![k].got = [date |-> got.date,
                   total |-> MapThenSumSet(LAMBDA t : got.balance[t], Till),
                   rows |-> [t \in Till |-> DayOfTill(book, t, got.date, got.balance[t])],
                   holder |-> got.holder, at |-> got.at, quiet |-> Len(book) = got.at]]
  /\ UNCHANGED <<world, server, screen, dialog, busy, late, tally>>

(***************************************************************************)
(* listMovements: the count and the rows at the same time, in any order,   *)
(* or the first rows of one of the days.                                   *)
(***************************************************************************)
RowsRead(b, f, r, n) ==
  IF r.what = "rows" THEN Slice(Where(b, f, r.day), n, PageSize)
  ELSE Slice(Where(b, f, r.day), 1, BatchSize)

ReadHistory(k, r) ==
  LET t == task[k]
      first == t.got.at = None
  IN
  /\ t.step = "history"
  /\ r \in t.got.todo
  /\ task' = [task EXCEPT ![k].got =
       [todo  |-> t.got.todo \ {r},
        total |-> IF r.what = "total" THEN Cardinality(Where(book, t.filters, r.day))
                  ELSE t.got.total,
        items |-> IF r.what = "total" THEN t.got.items
                  ELSE t.got.items \cup RowsRead(book, t.filters, r, t.next),
        at    |-> IF first THEN Len(book) ELSE t.got.at,
        quiet |-> t.got.quiet /\ (first \/ t.got.at = Len(book))]]
  /\ UNCHANGED <<world, server, screen, dialog, busy, late, tally>>

-----------------------------------------------------------------------------
(***************************************************************************)
(* The answers, as the page takes them.  It does not ask whether a later   *)
(* one has been taken meanwhile.                                           *)
(***************************************************************************)
AfterList(k) ==
  IF task[k].next > 0
  THEN /\ task' = [task EXCEPT ![k] = Loading(@)]
       /\ historyLoading' = TRUE
       /\ UNCHANGED <<busy, page>>
  ELSE /\ EndOf(k)
       /\ page' = IF task[k].order # None /\ task[k].order.kind # "assign" THEN 1 ELSE page
       /\ UNCHANGED historyLoading

loadList(k) ==
  /\ task[k].step = "listed"
  /\ list' = [date |-> task[k].got.date, total |-> task[k].got.total,
              rows |-> task[k].got.rows, holder |-> task[k].got.holder,
              at |-> task[k].got.at, quiet |-> task[k].got.quiet]
  /\ AfterList(k)
  /\ UNCHANGED <<world, server, history, form, showHistory, dialog, late, tally>>

Merged(t) ==
  [items |-> Slice(t.got.items, t.next, PageSize), total |-> Cardinality(t.got.items),
   pages |-> Max({1, PagesOf(Cardinality(t.got.items))})]

SinglePage(t) ==
  [items |-> t.got.items, total |-> t.got.total, pages |-> PagesOf(t.got.total)]

loadMovements(k) ==
  LET t == task[k]
      answer == IF SingleDay(t.filters) THEN SinglePage(t) ELSE Merged(t)
  IN
  /\ t.step = "history"
  /\ t.got.todo = {}
  /\ history' = [items |-> answer.items, total |-> answer.total, pages |-> answer.pages,
                 page |-> t.next, filters |-> t.filters, at |-> t.got.at,
                 quiet |-> t.got.quiet]
  /\ page' = IF t.order # None THEN 1 ELSE t.next
  /\ historyLoading' = FALSE
  /\ EndOf(k)
  /\ UNCHANGED <<world, server, list, form, showHistory, dialog, late, tally>>

\* The order is done: the dialog closes and the page loads itself again.
Confirmed(k) ==
  /\ task[k].step = "posted"
  /\ dialog' = None
  /\ task' = [task EXCEPT ![k].step = "accounts"]
  /\ tally' = [tally EXCEPT !.told = @ + 1]
  /\ UNCHANGED <<world, server, screen, busy, late>>

\* The order is refused: the dialog stays with the reason.
Refused(k) ==
  /\ task[k].step = "refused"
  /\ EndOf(k)
  /\ UNCHANGED <<world, server, screen, dialog, late, tally>>

(***************************************************************************)
(* A call fails or is given up (apiRequest).  An order is reported as not  *)
(* done, whether or not the server has done it or will; a list keeps what  *)
(* it showed and goes on; a history keeps what it showed.                  *)
(***************************************************************************)
GiveUpOrder(k) ==
  /\ task[k].step \in {"post", "posted"}
  /\ tally.troubles < world.maxTroubles
  /\ tally' = [tally EXCEPT !.troubles = @ + 1]
  /\ late' = IF task[k].step = "post" THEN late \cup {task[k].order} ELSE late
  /\ EndOf(k)
  /\ UNCHANGED <<world, server, screen, dialog>>

GiveUpList(k) ==
  /\ task[k].step \in {"accounts", "movements", "listed"}
  /\ tally.troubles < world.maxTroubles
  /\ tally' = [tally EXCEPT !.troubles = @ + 1]
  /\ AfterList(k)
  /\ UNCHANGED <<world, server, list, history, form, showHistory, dialog, late>>

GiveUpHistory(k) ==
  /\ task[k].step = "history"
  /\ tally.troubles < world.maxTroubles
  /\ tally' = [tally EXCEPT !.troubles = @ + 1]
  /\ historyLoading' = FALSE
  /\ page' = IF task[k].order # None THEN 1 ELSE page
  /\ EndOf(k)
  /\ UNCHANGED <<world, server, list, history, form, showHistory, dialog, late>>

-----------------------------------------------------------------------------
(***************************************************************************)
(* The owner.  A dialog covers the page.                                   *)
(***************************************************************************)
Uncovered == dialog = None

Starts(k, t) ==
  /\ Free(k)
  /\ task' = [task EXCEPT ![k] = t]

LoadsHistory(k, n, f) ==
  /\ Starts(k, Loading(Running("history", None, n, f)))
  /\ historyLoading' = TRUE
  /\ page' = n

refreshAll(k) ==
  /\ Uncovered /\ world.lists
  /\ Starts(k, Running("accounts", None, IF showHistory THEN page ELSE 0, form))
  /\ UNCHANGED <<world, server, screen, dialog, busy, late, tally>>

openHistory(k) ==
  /\ Uncovered
  /\ ~showHistory /\ world.forms # {}
  /\ showHistory' = TRUE
  /\ LoadsHistory(k, 1, form)
  /\ UNCHANGED <<world, server, list, history, form, dialog, busy, late, tally>>

hideHistory ==
  /\ Uncovered /\ showHistory
  /\ showHistory' = FALSE
  /\ UNCHANGED <<world, server, list, history, form, historyLoading, page, dialog,
                 busy, task, late, tally>>

setFilters ==
  /\ Uncovered /\ showHistory
  /\ form' \in world.forms
  /\ UNCHANGED <<world, server, list, history, showHistory, historyLoading, page,
                 dialog, busy, task, late, tally>>

applyFilters(k) ==
  /\ Uncovered /\ showHistory
  /\ LoadsHistory(k, 1, form)
  /\ UNCHANGED <<world, server, list, history, form, showHistory, dialog, busy, late,
                 tally>>

resetFilters(k) ==
  /\ Uncovered /\ showHistory
  /\ form # NoFilter
  /\ form' = NoFilter
  /\ LoadsHistory(k, 1, NoFilter)
  /\ UNCHANGED <<world, server, list, history, showHistory, dialog, busy, late, tally>>

turnPage(k) ==
  /\ Uncovered /\ showHistory /\ ~historyLoading
  /\ history # None /\ history.pages > 1
  /\ \E n \in {page - 1, page + 1} \cap 1..Max({page, history.pages}) :
       LoadsHistory(k, n, form)
  /\ UNCHANGED <<world, server, list, history, form, showHistory, dialog, busy, late,
                 tally>>

(***************************************************************************)
(* The dialogs.  The amounts shown are calculated from the list as it is   *)
(* at the moment, also while the dialog is open.                           *)
(***************************************************************************)
Listed == list # None

openDialog(kind) ==
  /\ Uncovered
  /\ kind \in world.orders /\ tally.opened < world.maxDialogs
  /\ dialog' = [kind |-> kind, till |-> IF Listed THEN FirstTill ELSE None, amount |-> 0,
                staff |-> IF kind = "assign" /\ Listed THEN list.holder[FirstTill] ELSE None,
                step |-> "form"]
  /\ tally' = [tally EXCEPT !.opened = @ + 1]
  /\ UNCHANGED <<world, server, screen, busy, task, late>>

assignableStaff(t) ==
  Staff \ {list.holder[u] : u \in Till \ {t}}

Preview(d) ==
  /\ Listed /\ d.till # None
  /\ d.amount > 0
  /\ d.kind = "withdraw" => d.amount <= list.rows[d.till].closing

fillForm ==
  /\ dialog # None /\ dialog.step = "form" /\ dialog.kind # "assign" /\ Listed
  /\ \E t \in world.tills, a \in world.amounts :
       LET filled == [dialog EXCEPT !.till = t, !.amount = a, !.step = "confirm"] IN
         Preview(filled) /\ dialog' = filled
  /\ UNCHANGED <<world, server, screen, busy, task, late, tally>>

chooseStaff ==
  /\ dialog # None /\ dialog.kind = "assign" /\ Listed
  /\ \E t \in world.tills :
     \E s \in assignableStaff(t) \cup {None, list.holder[t]} :
       dialog' = [dialog EXCEPT !.till = t, !.staff = s]
  /\ UNCHANGED <<world, server, screen, busy, task, late, tally>>

backToForm ==
  /\ dialog # None /\ dialog.step = "confirm" /\ ~busy
  /\ dialog' = [dialog EXCEPT !.step = "form"]
  /\ UNCHANGED <<world, server, screen, busy, task, late, tally>>

closeModals ==
  /\ dialog # None /\ ~busy
  /\ dialog' = None
  /\ UNCHANGED <<world, server, screen, busy, task, late, tally>>

MaySubmitTwice == dialog # None                          \* mutant of MaySubmit
MaySubmit == dialog # None /\ ~busy

\* What the request says; the till is the one shown, the staff the one chosen.
Order(d) == [kind |-> d.kind, till |-> d.till, amount |-> d.amount, staff |-> d.staff]

\* submitCredit, submitWithdraw, submitAssign.
submit(k) ==
  /\ MaySubmit
  /\ dialog.till # None /\ Listed
  /\ dialog.kind # "assign" => dialog.step = "confirm" /\ Preview(dialog)
  /\ busy' = TRUE
  /\ Starts(k, Running("post", Order(dialog),
                       IF showHistory /\ dialog.kind # "assign" THEN 1 ELSE 0, form))
  /\ UNCHANGED <<world, server, screen, dialog, late, tally>>

Next ==
  \/ Elsewhere \/ Midnight \/ ServeLate
  \/ hideHistory \/ setFilters \/ fillForm \/ chooseStaff \/ backToForm \/ closeModals
  \/ \E kind \in {"credit", "withdraw", "assign"} : openDialog(kind)
  \/ \E k \in Task :
       \/ ServeOrder(k) \/ RefuseOrder(k) \/ ReadAccounts(k)
       \/ listAccountsWithDayStats(k)
       \/ \E r \in Reads(task[k].filters) : ReadHistory(k, r)
       \/ loadList(k) \/ loadMovements(k) \/ Confirmed(k) \/ Refused(k)
       \/ GiveUpOrder(k) \/ GiveUpList(k) \/ GiveUpHistory(k)
       \/ refreshAll(k) \/ openHistory(k) \/ applyFilters(k) \/ resetFilters(k)
       \/ turnPage(k) \/ submit(k)

Spec == Init /\ [][Next]_vars

-----------------------------------------------------------------------------
(***************************************************************************)
(* The variables have their types, and the buttons of the dialogs are      *)
(* blocked exactly while an order is under way (actionBusy).               *)
(***************************************************************************)
TypeOK ==
  /\ book \in Seq(Movement)
  /\ holder \in [Till -> Staff \cup {None}]
  /\ list # None => /\ list.rows \in [Till -> DayStats]
                    /\ list.holder \in [Till -> Staff \cup {None}]
  /\ history # None => history \in HistoryPage
  /\ form \in Filter
  /\ page \in Nat \ {0}
  /\ \A k \in Task : task[k].step \in {"idle", "post", "posted", "refused", "accounts",
                                       "movements", "listed", "history"}
  /\ busy = (\E k \in Task : task[k].order # None)

\* The cards above the tills.
Cards ==
  LET Sum(field(_)) == MapThenSumSet(LAMBDA t : field(list.rows[t]), Till) IN
    [entries     |-> Sum(LAMBDA row : row.sessions),
     withdrawals |-> Sum(LAMBDA row : row.withdrawals),
     primes      |-> Sum(LAMBDA row : IF row.primes < 0 THEN -row.primes ELSE row.primes)]

(***************************************************************************)
(* A list that was read while nothing was posted is the book: each till    *)
(* opened with what it held at midnight, the parts of the day lead from    *)
(* there to its balance, the balances make the total, the figures of the   *)
(* staff members (getDayStats) add up to those of the till, and the cards  *)
(* lead from the openings to the total (as long as no till got more primes *)
(* back than it paid).                                                     *)
(***************************************************************************)
DayAddsUp ==
  list # None /\ list.quiet =>
    LET then == SubSeq(book, 1, list.at) IN
    /\ list.total = SumOver(then, DOMAIN then)
    /\ (\A t \in Till : list.rows[t].primes <= 0) =>
         list.total = MapThenSumSet(LAMBDA t : list.rows[t].opening
                                                 + list.rows[t].adjustments, Till)
                        + Cards.entries - Cards.withdrawals - Cards.primes
    /\ \A t \in Till :
         LET row == list.rows[t] IN
         /\ row.opening = SumOver(then,
              {i \in DOMAIN then : then[i].till = t /\ then[i].day < list.date})
         /\ row.closing = row.opening + row.sessions + row.primes + row.adjustments
                                      - row.withdrawals
         /\ row.closing = BalanceIn(then, t)
         /\ LET whole == getDayStats(then, t, list.date, None)
                of == [s \in Staff |-> getDayStats(then, t, list.date, s)]
                nobody == computeDayStats(0, then, {i \in DOMAIN then :
                  then[i].till = t /\ then[i].day = list.date /\ then[i].staff = None})
            IN /\ whole = row
               /\ \A field \in {"sessions", "primes", "withdrawals", "adjustments"} :
                    row[field] = nobody[field] + MapThenSumSet(LAMBDA s : of[s][field], Staff)

(***************************************************************************)
(* A dialog posts what it was confirmed for once: whatever the owner       *)
(* clicks, no more orders are posted than dialogs were opened, but for     *)
(* those that were reported as failed and repeated; and what was reported  *)
(* as done was posted.                                                     *)
(***************************************************************************)
OrdersCountedOnce ==
  /\ tally.posted <= tally.opened + tally.troubles
  /\ tally.told <= tally.posted

(***************************************************************************)
(* A page of the history that was read while nothing was posted holds the  *)
(* movements that the filters ask for, latest first, from that place on,   *)
(* and their number.  (Not so for primes, which the server does not know   *)
(* as a type, for more days than are asked for, and for days with more     *)
(* movements than are read.)                                               *)
(***************************************************************************)
LastDay(f) == IF f.to = None THEN f.from ELSE f.to
FirstDay(f) == IF f.from = None THEN f.to ELSE f.from

Wanted(m, f) ==
  /\ f.till = None \/ m.till = f.till
  /\ f.staff = None \/ m.staff = f.staff
  /\ f.type = None \/ m.type = f.type
  /\ FirstDay(f) = None \/ m.day \in FirstDay(f)..LastDay(f)

Servable(f, b) ==
  /\ f.type # "PRIME_DEDUCTION"
  /\ FirstDay(f) # None => LastDay(f) - FirstDay(f) \in 0..(MaxRangeDays - 1)
  /\ ~SingleDay(f) => \A d \in DaysAsked(f) : Cardinality(Where(b, f, d)) <= BatchSize

HistoryIsThePage ==
  history # None /\ history.quiet =>
    LET then == SubSeq(book, 1, history.at)
        wanted == {i \in DOMAIN then : Wanted(then[i], history.filters)}
    IN Servable(history.filters, then) =>
         /\ history.total = Cardinality(wanted)
         /\ history.items = {i \in wanted : (Rank(i, wanted) \div PageSize) + 1 = history.page}
         /\ history.pages * PageSize >= history.total
=============================================================================
