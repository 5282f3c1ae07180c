# A model of Dream Massage

TLA+ modules, TLC configurations and TLAPS proofs for this repository: a server
(`src/server`) that watches the power of massage chairs through smart plugs, turns
it into sessions, prices them and keeps the tills of the shop, and the web pages
(`src/web`) from which the owner and the assistants work. Paths below are relative
to `src/server` unless they start with `docs/` (`src/docs`) or `web/` (`src/web/src`).

To check: `tlc -config X.cfg M` for every run of `PROJECT.json`, `tlapm M.tla` for the
eight `*Proofs` modules.

## 1. Inventory

One Node process (Express, Prisma on Postgres with READ COMMITTED transactions,
Socket.IO). Between two `await`s nothing else runs; everything else interleaves: the
timer of the polls, the HTTP handlers, the job of the shifts. The pages are React:
their asynchronous functions interleave with each other and with the clicks.

| Component | State | Operations | Talks to |
|---|---|---|---|
| Polling loop (`jobs/mock-realtime.job.ts`, `jobs/shelly-sync.job.ts`) | time of the last poll, flush, reconciliation | a tick every few seconds: hydrate or reconcile, recover, flush, fetch, process each reading | Shelly Cloud over HTTPS, runtime cache, state machine |
| Runtime cache (`modules/chairs/chair-runtime-cache.ts`) | one object per enabled chair, `hydrated`, `reconcileRequested` | hydrate, reconcile, flush, upsert, patches by handlers | rows `chairs`, `chair_sessions` |
| Chair state machine (`modules/chairs/chair-state.*`) | status and two stamps of the chair, in memory and in its row | the transitions of `decideTransition` | cache, sessions, shifts |
| Stale recovery (`modules/sessions/session-stale-recovery.*`) | none of its own | finalize, mark for review or leave each ACTIVE session | polling loop, disabling, closing of a shift |
| Session billing (`modules/sessions/session*.ts`) | billing columns of `chair_sessions`, `session_plan_change_requests` | end, correct, archive, change plan, request, approve, reject | tills |
| Tills (`modules/cash`) | `cash_accounts`, `cash_movements` | open, income, withdraw, adjust, reverse, session and prime sync, assign a till; statement of a day, listing | row locks and unique indexes of Postgres |
| Ledger in memory (`MemoryCashLedger` in `cash.logic.ts`) | maps in memory | the same methods, for the tests of the cash module | nothing |
| Shifts (`modules/shifts`, `modules/assistant`, `jobs/auto-shift.job.ts`) | `shifts` | open, close, reopen, delete, by an admin, an assistant or the check that follows the planning | recovery, primes, tills |
| Primes (`modules/prime`, `modules/cash/shift-cash-sync.ts`) | rules, prime columns of `shifts`, movements | edit rules, compute, sync | tills |
| Pricing (`modules/pricing`, `modules/settings`) | `pricing_plans`, `pricing_rules` | duration to plan and price; edits | billing, figures |
| Staff, accounts, planning (`modules/settings`, `modules/archive`, `modules/auth`) | rows | create, update, archive, restore, delete, log in | shifts |
| Dashboards (`modules/dashboard`, `utils/memory-cache.ts`, `utils/db-circuit-breaker.ts`) | short-lived caches, the breaker | read, invalidate, push | pages |
| Figures (`home-dashboard.service.ts`, `session-metrics.logic.ts`, `chair-detail.service.ts`, `assistant.service.ts`) | none | sums over the rows | pages |
| Web pages | what they last loaded, dialogs, calls under way | load, filter, order, dismiss | HTTP routes, socket |

### What is hard

- **Two copies of a chair.** The state machine changes the object first and the row
  when the database has answered; handlers change the row first and the object
  later; a reconciliation replaces the objects by rows it read before an `await`.
- **Overlap.** `setInterval` does not wait: the Shelly call may take 8 s, the
  interval is 5 s. Ticks, handlers and the loading at start run into each other.
- **Check, then act.** Most services read outside the transaction that writes. What
  keeps them right is a row lock, a conditional update or a partial unique index,
  and where none of these is there, nothing does.
- **Failure between two steps.** The prime is deducted after the commit that ended
  the session; a failed call leaves memory ahead of the row; a restart forgets it.
- **Long histories.** A session may be corrected to zero and back, re-planned,
  moved to another till with its staff member, detached from its shift, archived.
- **Old answers.** A cache is filled with what was read before it was emptied, an
  answer to old filters arrives last, an order is retried after its answer was lost,
  a dialog shows what has changed since.
- **The same sum in several places.** Home page, chart, live counters, chair page,
  assistant page and till each add up the sessions with code of their own.

The hazards, each with its line and the properties against it, are in `PROJECT.json`.

### What makes each component correct

- Tills: the movements of a till form one chain, no withdrawal is uncovered, it is
  opened once and first, a staff member holds one till; the prime of a shift is taken
  once, whatever the order of its syncs.
- Billing: a session is collected once, in one till, never negative, never if it
  ended before the cutover; one request waits, and it is decided once; with one
  writer at a time the ledger says what the row says.
- Chairs: one running session; the rows lead back to it; cache and rows agree when
  nothing is in progress; no start or end without confirmed power; a chair that stays
  on is served, one that stays off is released.
- Shifts: one is open; an automatic close keeps the end of a shift closed meanwhile
  and spares the shift of the current period; outlived shifts close.
- People: somebody can administer; archived staff stays locked out; two people are
  not planned for the same hours.
- Figures: each session counts once, the parts of a page add up, the pages agree, the
  prime shown is the prime taken while its rules stand; a longer massage is never cheaper.
- Pages: an answer to old filters never wins; the screen catches up with the data;
  an order is carried out once and as shown.

## 2. Modules

| Module | Role |
|---|---|
| `TillAccounts` | abstract: a till is a balance changed by one-step movements |
| `CashLedger` | requests as transactions: begin, lock, fresh read, commit or roll back |
| `MemoryLedger` | the twin of the service that the tests run |
| `Ledgers` | `CashLedger` and `MemoryLedger` side by side |
| `SessionAccounts` | abstract: a session is collected once, into one till, then changed |
| `SessionBilling` | the writers of a session and of its movements |
| `ChairRuntime` | one chair: polls, cache, rows, recovery, handlers |
| `ShopShifts` | abstract: at most one open shift, a deleted one never comes back |
| `Shifts` | every way a shift is opened, closed, reopened, deleted |
| `PrimeRules`, `ShiftPrime` | the rules and the calculation; the syncs of one shift with the tills |
| `TillPage` | the cash page and its routes |
| `Tills` | `ShiftPrime` and `TillPage` side by side |
| `Roster` | staff, accounts, types of shifts, planning |
| `Pricing`, `Figures` | plans and the price of a duration; the sums of all pages |
| `RequestPages` | plan change requests from the pages' side |
| `MassagePages` | `Figures` and `RequestPages` side by side |
| `Screens` | the two live parts of the owner's page, caches and breaker |
| `LedgersProofs`, `SessionBillingProofs`, `ChairRuntimeProofs`, `ShiftsProofs`, `RosterProofs`, `ScreensProofs`, `MassagePagesProofs`, `TillsProofs` | theorems |
| `MC*` | instances for TLC: values, worlds, symmetry, constraints |

Two devices recur. A **world** is a rigid variable chosen in Init: a record that says
which handlers, faults and bounds a behaviour uses. One run then covers several
instances, none of which pays for the others, and a theorem about `Spec` holds in all.
A **part** says that a run looks at one of two components that share no state
(service or twin in `MCCashLedger`, primes or page in `MCTills`, figures or request
pages in `MCFigures`): a behaviour is one of the one or of the other.

**CashLedger.** `balance`, `tracking`, `holder`, `movements` are the columns of
`cash_accounts` and the rows of `cash_movements`; `lock` is the row lock of
`lockAccount`; `pc`, `op`, `seen` are where each request is and what its local
variables hold. A transaction is cut wherever another may act: the reads before
`SELECT ... FOR UPDATE` (`reverse` looks for an earlier reversal there), the lock, the
fresh read, the commit. `Rollback` may happen at each. Amounts are integers
(centimes). `setCashAccountAssignment` locks one till and checks the others without a
lock: the partial unique index decides at the commit.

**MemoryLedger.** What a method does before `withLock` is the step of its call; the
rest runs later, in one piece, in the order of the calls for the same till
(`waiting`). A test that awaits its calls is the world without `overlap`.

**SessionBilling.** `row` holds the billing columns and a `stamp` for `updated_at`;
`ledger` what the code can see of the movements of a session (their sum, the number
of SESSION_PAYMENTs, their tills). A writer is a worker that reads a row in one step
and writes in a later one; its transaction updates the session row before it touches
the ledger, and the lock on that row makes update, ledger and commit one step,
whereas what it read before may be stale. `finish` is chosen once: which plan the
duration will match and which tills are tracked by then. `engine` says that the
polling loop still has the session in memory. `staffTill` moves freely.

**ChairRuntime.** `chair` and `session` are rows, `mem` the object in the cache, `task`
one record per poll in progress and one for the loading at start, `api` the handler in
progress, `streak` a history variable with the readings processed so far. A poll that
still holds an object the cache has replaced owns a copy (`holds`, `own`). Powers are
three classes (below the stop threshold, at or above the start threshold, between),
stamps are absent, recent or older than the delay they are compared with, and
`timePasses` makes recent ones old. A row write and the event written with it are one
step, as are a transaction and its statements. The faults `slowPoll`, `slowHandler`
and `slowLoad` are the timing assumptions, made explicit.

**Shifts.** Time is in quarters of an hour, the period of the job. A check, an
opening by an admin, an assistant's start and a close are `task`s that read in one
step and write in later ones; the partial unique index on open shifts and the one on
(date, schedule) decide. `massage` and `starting` are what recovery needs of the
sessions. `calm` is a history variable: a lone check, after which nothing changed.

**PrimeRules, ShiftPrime.** A rule is a row that is switched off and replaced, never
rewritten. A creation is three statements without a transaction: the query for the active
rules it replaces (`BeginRule`, `BeginBonus`), their update (`SealFound`), the insertion
(`InsertRow`); `creating` holds what it has found and will write. A patch is one statement
or one transaction, and does not look for other active rules. A sync is cut at: the calculation (on another connection, before the lock),
the look at the movements that decides which till to lock, the lock, the commit.
`net` is what the prime has taken from each till.

**TillPage.** `book` is the movements of all tills in order; the page's functions are
`task`s with an answer that may be late, fail or be given up while the server goes on
(`late`). Date and account are read in one step; the loading flag is display only.

**Roster.** A handler is two steps, `Ask` (reads and checks) and `Write`: `request`
holds the write that the checks have allowed, and Postgres (unique indexes, foreign
keys, the CHECK on users) has the last word. The shifts and bonus rules that
also block the deletion of a type (`archive.service.ts:285`) are not kept: the model
deletes where the code may refuse. One day of the week stands for all.

**Pricing, Figures.** Plans, rules and rows with `now` counted in hours; the home page
is streamed in batches (`request` has the cursor), the other pages are operators over
the rows, each translated from its own service. `calculateSessionPrice` is `Calculated`,
or the fallback of its `catch`: any end of a massage may find a query that fails.
`PrimeRules` is instantiated for the prime the till pays: the owner edits, while the
massages go on, the same rules (`CommissionRules`, `BonusRules`, `RuleCreation`) from
which the home page takes those that are active and the calculation those in force.

**RequestPages.** The assistant's page, one review page per reviewer, the dialogs with
the row they were opened with, the orders under way, and the rows they change.

**Screens.** Data are versions: what a page shows is the version it has seen, and a
fill of a cache is split into its read and its write. `page` is the part of the page
followed. React's effect for a change of filters runs before any later answer.

## 3. Runs

| Run | Instance | Shows |
|---|---|---|
| `ledger` | 2 tills, 1 staff member, 2 requests, 2 movements per till before a request; twin: ≤ 3 movements, ≤ 2 calls waiting | no lost update, overdraft, second opening or second till; both refine `TillAccounts`; the twin reverses once and, where its calls do not overlap, settles primes and sessions |
| `ledger_reverse` | 1 till | **violated**: a movement reversed twice |
| `billing` | 1 session, 2 writers, 2 plans, 2 tills, 2 requests; worlds Racing, Reviewed, Alone | collected once in one till; one request, decided once; alone: the ledger follows the row; refines `SessionAccounts` |
| `billing_stale` | 1 request, 2 workers | **violated**: approved against a changed session |
| `chair` | worlds Polls, Shifted, Handled, Faulty, Overlapping | types, cache and rows agree (`CacheAgrees` in Polls and Shifted, `SwitchedCacheAgrees` in Handled), rows lead to the session, debounce, one running session |
| `chair_live` | undisturbed polls, fairness | sessions start and end |
| `shifts` | days of 4 quarters, 2 shifts, 1 massage, 1 check, 1 request, fairness | one open shift (refines `ShopShifts`), kept ends, spared current shift, outlived shifts close, a lone check settles |
| `tills` | primes: 2 requests, or 1 and a move of till, or 1 and the owner's rules; page: 7 worlds | the prime is taken once; the page shows the day, counts orders once, pages through the history |
| `prime_rules` | 1 request, the rule replaced | **violated**: the commission of old massages is given back |
| `screens` | 1 change, 1–2 troubles, 2 requests of the page, 2 filters, fairness | an old answer never wins; the screen catches up |
| `roster` | 2 of everything, 2 requests, 7 worlds | access and planning stay right |
| `figures` | 2 chairs, 2 shifts, ≤ 4 massages, ≤ 3 edits of massages and rules, 9 worlds; pages: 1 massage, ≤ 2 requests, 2 reviewers, 6 worlds | the figures agree; the prime shown is the one taken while the rules stand, the commission shown never less than paid; longer is never cheaper; changes are made as shown |

**Bounds, and why they are enough.** Two requests are what a lost update, a double
withdrawal or two assignments need; three movements are an income, a withdrawal and a
rival. Two writers hold any two stale reads; three updates (four alone) let an amount
go to zero and back; the second plan matters in the racing worlds by its price only, so
no session ends under it there. Session rows of a chair are reused once nothing refers
to them, so two stand for any number; `VIEW ServerState` leaves `streak` out of a state
where no property looks at it. The world Overlapping has a plug that always answers, a
shift that is open and a spare session row; the others have silent plugs, closed shifts
and, but for Handled, powers between the thresholds. Shifted is Polls with the handlers
that open shifts and a till that refuses payments. Four quarters are a closed hour, two
adjoining periods and a closed hour; the run goes into the next day, where an outlived
shift shows. `PeopleFirst`: no request once a massage is on, except that one starts.
Prime amounts and rates are chosen so that the target and a commission both matter.
`PageSize` 1, `BatchSize` 2 and ranges of 2 days put every boundary of the history
within three movements. Figures has days of 2 hours, weeks of 2 days and months of 1
and 2 days, so that four hours cross each kind of boundary; a shift spans midnight;
the server's midnight is an hour off. The worlds that
bill, correct and archive look at 13 filters of the home page, those that stream it at
up to three. In the two worlds where the owner edits the rules of the primes (`Bounds`:
the commission of one plan) there is one massage, rules in force, switched off, sealed,
renewed, doubled, before and after it. `MaxWire` 1 and one push are enough to deliver an
old message after a new fetch. Every bound is a constant or an operator of the module
that names it.

`CHECK_DEADLOCK FALSE` is set where a bound stops new requests (ledger, billing, tills,
roster, screens, figures and the violations); chair, chair_live and shifts are checked
for deadlock. Symmetry is used in runs without liveness only.

**Fairness.** `chair_live`: the timer starts a poll every few seconds, and calls of
database and cloud are answered or time out, hence weak fairness of the work of a poll,
of the loading at start and of a handler that has begun; the clock goes on. `shifts`:
the job runs every quarter and its calls end; a massage ends; the clock goes on.
`screens`: calls end, timers fire, entries expire, a connection is attempted again.
Nothing is assumed of users and of what a poll reads: the properties say "if the
readings stay high (low) and the plug answers", or "if the data no longer change".

## 4. Proofs

Proved for every value of the constants allowed by the named ASSUMEs, that is for any
number of tills, requests, sessions, shifts, staff members, workers, plans, worlds.

| Module | Theorems (the property a run checks) |
|---|---|
| `LedgersProofs` | `SoundTills` (TillsAreSound), `LedgerImplementsTillAccounts` (ImplementsTillAccounts) and the parts they consist of; `TwinInvariant` and `TestsSeeTheAccounts` (TwinKeepsAccounts) |
| `SessionBillingProofs` | `BillingTypes` (TypeOK), `CollectedOnceInOneTill` (OneCollection), `OneRequestWaits` (OnePendingPerSession), `DecisionsAreFinal` (DecidedOnce), `BillingImplementsAccounts` (ImplementsSessionAccounts), `LedgerSaysWhatTheRowSays` (AloneLedgerFollowsRow), `RecordedCollectionIsKept` (AlonePlanChangeKeepsCollection) |
| `ChairRuntimeProofs` | `RuntimeTypes` (TypeOK), `OneSessionRuns` (OneActiveSession), `RowsLeadBack` (RowsLeadToSession), `CacheKeepsUp` (CacheAgrees), `SessionsDebounce` (PollsDebounce) |
| `ShiftsProofs` | `ShiftsTyped` (TypeOK), `ShiftsImplementShop` (ImplementsShopShifts), `ClosesKeepTheEnd` (AutoCloseKeepsTheEnd), `ChecksKeepCurrentShift` (CheckKeepsCurrentShift) |
| `RosterProofs` | `RosterTyped` (TypeOK), `AccessStaysRight` (AccessIsRight), `RotaNeverClashes` (RotaDoesNotClash) |
| `ScreensProofs` | `ScreensTypes` (TypeOK), `NewerFiltersWin` (FiltersWin) |
| `MassagePagesProofs` | `PricesTyped`, `FiguresStayTyped` (TypeOK of `Figures`), `LongerIsNeverCheaper` (LongerNeverCheaper), `EachIsCountedOnce` (EveryMassageCountsOnce), `PagesShowTheSameMoney` (FiguresAgree), `PrimesShownAreTaken` (PrimeShownIsPrimeTaken), `RequestPagesTypes` (TypeOK of `RequestPages`), `MassagePagesTypes` (PartsTypeOK), `ChangesMadeAsShown` (ChangesAreMadeAsShown) |
| `TillsProofs` | `PrimeInvariant` (PrimeInv), `PrimeIsTakenOnce` (PrimeTakenOnce), `PageTypes`, `PartsKeepTheirTypes` (PartsTypeOK), `OrdersAreCountedOnce` (OrdersCountedOnce), `DayOnThePageAddsUp` (DayAddsUp), `HistoryOnThePage` (HistoryIsThePage) |

**The arguments.**

- *Tills.* `LedgerInv` is inductive: the types, the lock discipline (who has read
  holds the lock, and the balance read is the balance), the chain, and what requests
  in flight rely on: a withdrawal checked is still covered, a till to be opened still
  has no movement. Without that last part "no overdraft" and "opened first" are not
  inductive. `OneTillPerStaff` needs only the unique index. One lemma per writing step
  gives the refinement.
- *Twin of the tests.* `TwinInv`: a call that waits for its lock still asks what its method
  checked (`SoundCall`), the movements that are counted are all that there are, and where
  calls are awaited what a session's call will post is still what the session lacks
  (`Settles`), as no other call is under way. What has been paid is a fold over the
  movements of all tills that follows CHOOSE, and so is the number of calls that wait:
  `NetMoves` says that one movement more adds its amount, hence the call that posts
  leaves the session or the shift with what was asked for. With movements of
  sessions and shifts read as SYNC, each turn that posts is a step of `TillAccounts`.
- *Billing, any number of writers.* `BillingInv` adds to the properties what a worker
  carries (its session, a target that is a natural number, the ticket it has claimed)
  and that a ledger without a till is empty. The lemma on `Synced` does the work:
  whatever previous target a writer computed from a stale row, the ledger it leaves
  has the till it had, one payment, and the target as its sum.
- *Billing, one writer.* `FollowInv`, inductive in the worlds where `OneWriter` holds:
  every ledger says what its row says, except where the writer is about to bring it in
  line, and what the writer read is still what the row holds. So a write computes the
  target of the row it leaves (`SyncedFollows`), and a plan change, which keeps the
  recorded amount, moves nothing.
- *Chairs.* `OneActiveSession` needs no timing: every action leaves the rows alone,
  changes one without making it ACTIVE, or starts one while none is. `RowsLeadToSession`
  is stated for `Calm` worlds, where no polls overlap, the first load is not slow, and
  nobody disables the chair or closes a shift; `RowInv` says for each place a poll can be in
  which of memory, row and session is ahead of the others. `CacheAgrees` and
  `PollsDebounce` are stated for `Steady` worlds, where besides the server keeps running
  and reaches its database: there `SteadyInv` says that the object of the cache and the
  rows agree, or will when the poll or handler at work is through, unless a handler has
  left a request to reconcile; that no stamp is older than the streak of readings it
  stands for (but for the last reading of a poll under way, `Rising`); and that the load
  at the start is over before anything else has begun (`Early`). A confirmed start or
  end reads such a stamp, hence the debounce. `chair` checks the same properties, and
  the others, in all its worlds.
- *Shifts.* The open shift is unique because only a create and a reopen open one, and
  both meet the index; a close by a check is conditional. `CheckKeepsCurrentShift` needs
  that what a check decided is still true one quarter later: the invariant relates
  its time, the window it found and the rows. It has the hypothesis
  `NoRoundTheClock`: with a period that lasts the whole day two overlapping checks can
  close the current shift (5).
- *Roster.* `AccessInv` and `RotaInv` say of each write in flight that it is still
  allowed; in the worlds with one request nothing can have intervened.
- *Screens.* A fetch whose answer may still be taken asks for the filters shown
  (`AsksForFilters`); the abort and the sequence number keep the others out.
- *Pricing.* The matched plan is the shortest one that covers the duration with its
  grace, or the minimum plan of the rule; it grows with the duration (`MatchedGrows`),
  and so does the price where the list is ordered (`OrderedPlans`, part of the
  property: an owner may enter any prices). Induction is by least counterexample
  (`LeastNumber`, from the well-foundedness of < on the naturals; `FiniteHasGreatest`
  by cardinality), because the library's induction theorems take an operator as a
  parameter.
- *Home page.* `CountInv`, while batches are read: a row keeps its place in the order
  whatever is written to it; those before the cursor that matched throughout have been
  counted, but for as many as cursors were skipped (`CountsSoFar`); none behind it has
  been counted, and none twice. What a query returns is a sorted list of the rows it
  finds; that there is one is shown by a set of rows of least size that has none.
- *Figures.* Every sum of the pages is a fold that follows CHOOSE. `Adds` says of such a
  sum that one more row adds its amount; from it the lemmas on groups and images follow:
  a sum over chairs, bars or shifts of sums over their rows is the sum over all rows.
  Each day is in one month and each massage in one bar, the server's midnight lies in
  the business day of today (past its hour), and `TimesInv` says that no row is of the
  future and that a cancelled one is archived. Then two pages that differ in how they
  select and group add up the same rows, but for those the property names.
- *Shown primes.* `PrimesTyped` says of the rules, whatever the owner does, that they are
  numbered rows with natural amounts and positive targets. A rule that the calculation
  finds in force is one of the active ones of the plan, which pay alike by `OneRate`: so
  massage by massage the card shows what is paid or, where no rule is in force, no less
  (`CommissionIs`), and sums of larger amounts are larger (`SumsGrow`). By `RatesStand` a
  rule in force is found whenever one is active, hence equality. By `TargetsStand` the
  bonuses active are the ones in force as the shift opened, and those of the highest target
  reached have one amount (`BonusIs`); and the completed rows of a shift bring what its
  revenue counts, once corrections in review are excluded.
- *Requests.* `AskInv`. Whoever writes a massage gives it the next stamp, and a request
  never changes what it asks for (`Onward`); so what a list, a dialog or an order shows
  of a request stays true while the massage has the stamp the request was made for
  (`Shows`), and an approval finds that stamp. What was approved last is what the massage
  has until it is changed again (`DoneInv`); the check of a new request wants something
  else than that, hence a request for the same is made for another stamp (`Files`,
  `AskedInv`). A page is saving while exactly one order is under way for its dialog
  (`OneWaits`), and the requests are numbered in the order they are filed.
- *Primes of the till.* `PrimeInv`: a till is locked by the request that is about to post to it;
  while the staff keeps its till no other till is locked, so the sum that was read
  under the lock is still the sum when the difference is posted (`OneTillKept`); with
  one request at a time the till it chose is the only one that holds the prime
  (`OneServed`). Without the second read under the lock `taken` would be stale and the
  step of `Post` fails. The sum over the tills is a fold that follows CHOOSE: that
  adding d to one till adds d to the sum (`TotalMoves`) is shown by a set of tills of
  least size for which it would not.
- *Page of the tills.* `PageTyped` ties what a function under way has read to its step.
  `OrdersInv`: while an order is under way it is the only one and the buttons are blocked;
  orders posted, given up and about to be posted are never more than dialogs opened and
  failures. The book only grows (`BookGrows`), so what was read of its first n movements
  stays true of them (`BookStays`); `DayInv` and `PagesInv` say that of lists and pages,
  and of what functions half way have read, as long as nothing was posted meanwhile
  (`quiet`). No movement is of a later date than today, hence the opening of a day is the
  sum of the days before. Sums over types, staff members and tills are regrouped by
  `SumByGroups`; a movement stands on the page that its rank, counted from the latest,
  divided by the page size gives (`PlaceIs`).

**Assumptions.** The ASSUMEs of the modules: amounts are numbers (natural ones in the
tills; so are targets, primes and dates of the twin, `TwinAssumption`), null is none of the values, a till exists, days have quarters and periods lie
within the opening hours and do not overlap, staff and entries are different rows, the
breaker opens after at least one failure. The set of plans is finite for Pricing, and so
are the chairs for Figures, the tills of the twin, the tills and the requests for the primes, the tills and the
staff for the page. The page has a till to list first, its sizes are positive, and what is
posted as a withdrawal elsewhere takes nothing in, as `withdraw` negates the amount
(`PageAssumption`). None of what the pages of the requests keep is null, and no reviewer
has the name of the assistant's page (`PagesAssumption`). The calendar has
months of at least a day and covers the days of the clock and of the filters
(`CalendarAssumption`). Rates, bonuses and targets are natural numbers, targets positive as
the forms require (`PrimeAssumption`); nothing is assumed of which rules are active or
when they are in force. The hypotheses that a theorem adds are in its statement: `Calm`,
`Steady`, `OneWriter`, `NoRoundTheClock`, `overlap`; for the primes shown `OneRate`,
`RatesStand` and `TargetsStand`, each met and each broken in the worlds of `figures` where
the owner edits the rules. TLC evaluates each of them in a run.

**Only model-checked.** `SwitchedCacheAgrees` (chair): that a disabled and enabled chair
agrees with its rows depends on how long a handler takes, and the invariant would have to
carry the ages of what it read. Out of the prover's reach: liveness (`SessionsFollowPower`, `OutlivedShiftsClose`,
`CheckSettles`, `ScreenCatchesUp`), as fairness and ENABLED are, and the library's
induction theorems, which take an operator: where a proof needs induction it takes a
least counterexample.

## 5. Where code and documents disagree

Checked by a run and listed under "findings": the double reversal (`ledger_reverse`),
the approval of a stale request (`billing_stale`), the commission rules of today applied
to old massages (`prime_rules`). Met while modelling, and kept out of the runs; a
property that would be violated by one of them is stated with the hypothesis that
excludes it, which is named in its comment.

**Chairs.**
- Disabling a MAYBE_ACTIVE chair leaves its row as it is; enabled later, its first high
  reading is confirmed by the old stamp (`modules/settings/settings.service.ts:147`
  against `docs/DATABASE_ARCHITECTURE.md:137`).
- A chair may be disabled while a poll creates its session
  (`session-stale-recovery.service.ts:230`); recovery does not look at the sessions of
  disabled chairs (`shelly-sync.job.ts:112`).
- The patch of the memory after a recovery may hit a newer session
  (`session-stale-recovery.service.ts:163`); the job that closes shifts asks for no
  reconciliation (`auto-shift.service.ts:117`).
- The second silent reading in a row marks a chair online (`chair-state.service.ts:152`),
  and the session of a plug that stays silent is never reviewed (`:606` against
  `docs/DATABASE_ARCHITECTURE.md:130`).
- A start block outlives the shift that an admin opens (`chair-runtime-cache.ts:342`). A
  shift may close between its lookup and the creation of a session
  (`chair-state.service.ts:388`).
- A first load slower than the first poll undoes what that poll did.

**Billing and tills.**
- A plan change that read the row before a correction committed moves the ledger away
  from the recorded amount (`session-plan-change.service.ts:279` against the comment
  at `:315`): hence one writer in `AlonePlanChangeKeepsCollection`.
- An amount corrected while the session runs is ignored when it ends
  (`session-finalize.service.ts:139` against `session-cash-sync.ts:3`).
- A session is collected in the till its staff member holds now, not in the snapshot
  of the shift (`cash.service.ts:466` against `prisma/schema.prisma:98`).
- A REVERSAL of a manual income or of a withdrawal counts as session income in the
  statement of the day (`cash.logic.ts:377`); a statement of a past date or of one
  staff member starts from the balance of now (`cash.service.ts:771`).
- The twin of the tests plans a session's movement before its lock, the service after:
  two overlapping syncs pay twice in the twin only. The twin refuses a second reversal
  that the service lets through.
- Deleting a shift leaves its prime movements in the ledger
  (`shift.service.ts:611`). A reversal, an archive or a change of rule does
  not sync the prime. Of two overlapping syncs the one that computed first may post last.

**Cash page** (`web/app/caisses/page.tsx`).
- The controller's list of types (`cash.controller.ts:81`) lacks PRIME_DEDUCTION, which
  the page offers: the filter "Prime" shows all types.
- Loadings carry no sequence number, and the buttons stay enabled while one is under
  way; pages shift when movements are posted between two loads; the page number stays
  after a failed one.
- A range of several days reads the first 50 movements of each; more than 31 days are
  cut silently; a reversed range has no date filter.
- A credit whose answer times out and is tried again is posted twice.
- Balances are read before movements, so that an opening may be off by a movement
  posted in between. `mapFetchError` looks for `AbortError`, `AbortSignal.timeout`
  raises `TimeoutError`.

**Shifts.**
- An assistant who starts after the planned end gets an `endedAt` before `startedAt`.
- A manual close is unconditional (`shift.service.ts:485`), and a planned shift closed
  by hand is opened again by the next check.
- With a period that lasts the whole day, two overlapping checks can close the current
  shift; a shop that closes before a period ends opens and closes it in turn.
- An admin's shift without business date makes the creation of the job fail; the
  close of STALE shifts is bypassed by BEFORE_NEW_OPEN.

**Figures and prices.**
- The month chart drops the days past the end of its first month
  (`session-metrics.logic.test.ts:236` says that charts total the summary).
- TOO_LONG under the policy ANOMALY is CALCULATED and paid; `docs/PRICING_RULES.md:56`
  and `server/docs/PRIME_CALCULATION.md:50` say PENDING and excluded.
- "Only one rule may be active", but two upserts that find none both insert
  (`settings.service.ts:402`). A failing price query leaves a session unpriced
  (`Calculated` is what `LongerNeverCheaper` is about).
- The home page takes any active rule (`home-dashboard.service.ts:308`), the calculation one
  in force at the massage (`prime-calculation.service.ts:107`), and each edit stamps
  `validFrom` with now: after an edit in the middle of a shift the two primes differ. The
  comment at `prime-settings.service.ts:284` wants one active rule per plan; a patch that
  switches an old rule on (`:335`) or replaces one as active (`:363`), and two creations
  that overlap, leave two. Hence `OneRate`, `RatesStand` and `TargetsStand` in
  `PrimeShownIsPrimeTaken`.
- Corrected rows in review count as revenue; manual bonuses count only for shifts with a session in the range; the card
  of the open shift excludes bonuses.
- A cursor row archived between two batches skips a row; a deleted one loses the rest.
- Chair page and live counters use the server's midnight, the others the shop's. An ACTIVE
  row with a correction counts 0 on the home page and its amount on others.

**People.**
- Restoring an archived entry, and restoring or switching on a type of shift, skip the
  check for overlaps (against `server/docs/AUTO_SHIFT_AUTOMATION.md:49`); an update of
  a staff member may reactivate an archived one.
- Two administrators who disable each other at once leave none
  (`user-settings.service.ts:88`). Archives race with every check-then-write: the two
  properties hold one request at a time.

**Pages.**
- A dialog's success timer of 700 ms closes whatever dialog is open by then
  (`PlanChangeReviewModal.tsx:70`, `AssistantPlanChangeRequestModal.tsx:116`).
- An approval applies the price the plan has now, the dialog shows the price at the
  time of the request. A retry after a lost answer files a request again if the first
  was refused meanwhile. A request that repeats an approved one can be filed with an old
  stamp; it cannot be approved.
- With the circuit open and no cached value the dashboard shows revenue 0, no shift and
  "live" (against `dashboard.service.ts:88`); the branch "unavailable" of
  `useDashboard.ts:45` is dead, as the client throws a plain Error.
- A slower answer may overwrite a newer update from the socket; the next heartbeat
  repairs it.

## 6. Not modelled, and what is left

Left out for good: seeds and migrations, routing and transport, texts, validation of
formats, tokens and passwords, the layout of pages, the maintenance scripts run by hand, the
Shelly HTTP exchange, the simulation. The status of each part, with what is left out of
it, is in `PROJECT.json`: the flush of power metrics, the audit request of a direct plan
change, the cutover tool, the legacy till, the worker lock, the settings pages.

Left to prove: `SwitchedCacheAgrees`, with the ages of stamps in the part of a handler.
