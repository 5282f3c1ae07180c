--------------------------- MODULE SessionBilling ---------------------------
(***************************************************************************)
(* The money of a massage session: the row of chair_sessions that says     *)
(* what is due, the movements of the cash ledger that refer to it, and the *)
(* writers that change both: the end of the session, stale recovery, the   *)
(* correction of the amount, the change of plan, the approval of a change  *)
(* an assistant asked for, archiving, and the deletion of the shift.       *)
(*                                                                         *)
(* Each writer reads first and writes later.  Its transaction updates the  *)
(* session row before it touches the ledger, and Postgres keeps that row   *)
(* locked until the commit, so everything from the update to the commit is *)
(* one step here; what was read before the update may be stale by then.    *)
(* A transaction may be rolled back before its commit.                     *)
(*                                                                         *)
(* Of the movements of a session only what the code looks at is kept:      *)
(* their sum, how many are SESSION_PAYMENTs, and the tills they are on.    *)
(***************************************************************************)
EXTENDS Integers

CONSTANTS
  Session,        \* rows of chair_sessions, one staff member's work
  Plan,           \* active pricing plans
  Price,          \* [Plan -> Nat \ {0}], pricing_plans.price_amount
  PaidAmount,     \* amounts an admin or an assistant may enter
  Till,           \* physical tills
  Ticket,         \* plan-change requests that can be made
  Worker,         \* what runs at the same time: HTTP handlers, the poll loop
  None,           \* null
  World           \* the worlds to look at, see AllWorlds

ASSUME PriceAssumption  == Price \in [Plan -> Nat \ {0}]
ASSUME PaidAssumption   == PaidAmount \subseteq Nat
ASSUME TillAssumption   == Till # {}
ASSUME NoneAssumption   == /\ None \notin Int \cup Plan \cup Till
                           /\ None \notin Ticket \cup Session

(***************************************************************************)
(* A world: whether amounts are corrected before the session ends, whether *)
(* the prime of a shift may find no till to come from, the workers and the *)
(* requests there are, and how often a row has been updated when the last  *)
(* writer starts on it.                                                    *)
(***************************************************************************)
AllWorlds == [earlyCorrections: BOOLEAN, primeRefusals: BOOLEAN, workers: SUBSET Worker,
              tickets: SUBSET Ticket, updates: Nat]

ASSUME WorldAssumption == World \subseteq AllWorlds

VARIABLES
  world,          \* the world this is; rigid
  row,            \* [Session -> SessionRow]
  ledger,         \* [Session -> SessionLedger]
  shift,          \* [Session -> [attached: BOOLEAN, till: Till \cup {None}]]
  staffTill,      \* the till the staff member holds now, or None
  finish,         \* [Session -> End], when the massage ends; rigid
  engine,         \* [Session -> BOOLEAN], the runtime memory holds the session
  ticket,         \* [Ticket -> TicketRow], session_plan_change_requests
  task            \* [Worker -> Task], what each worker is in the middle of

vars == <<world, row, ledger, shift, staffTill, finish, engine, ticket, task>>

-----------------------------------------------------------------------------
Amount == Nat \cup {None}

SessionRow ==
  [status: {"ACTIVE", "COMPLETED", "CANCELLED", "UNCERTAIN"},
   archived: BOOLEAN, ended: BOOLEAN, plan: Plan \cup {None},
   expected: Amount, corrected: Amount,
   billing: {"PENDING", "CALCULATED", "CORRECTED", "DISPUTED"}, stamp: Nat]

SessionLedger == [net: Int, payments: Nat, tills: SUBSET Till]

(***************************************************************************)
(* A request: what it asks for, the plan and update stamp of the session   *)
(* when it was made, and (for the properties) the stamp it was applied to. *)
(***************************************************************************)
TicketRow ==
  [state: {"FREE", "PENDING", "APPROVED", "REJECTED"},
   session: Session \cup {None}, plan: Plan \cup {None}, paid: Amount,
   atPlan: Plan \cup {None}, atStamp: Nat, appliedTo: Nat \cup {None}]

FreeTicket == [state |-> "FREE", session |-> None, plan |-> None, paid |-> None,
               atPlan |-> None, atStamp |-> 0, appliedTo |-> None]

Step == {"idle", "ending", "recovering", "reviewing", "correcting", "archiving",
         "planChecked", "planRead", "paidRead", "requesting", "approving"}

(***************************************************************************)
(* What a worker carries between its steps: its arguments (plan, paid,     *)
(* ticket), the row it read if it uses it later, and for stale recovery    *)
(* whether the session had a shift.                                        *)
(***************************************************************************)
Task ==
  [step: Step, session: Session \cup {None}, ticket: Ticket \cup {None},
   plan: Plan \cup {None}, paid: Amount, row: SessionRow \cup {None},
   attached: BOOLEAN]

Idle == [step |-> "idle", session |-> None, ticket |-> None, plan |-> None,
         paid |-> None, row |-> None, attached |-> FALSE]

(***************************************************************************)
(* The moment a massage ends settles two things: the plan its duration     *)
(* matches (None: too short, price 0), and which tills were already        *)
(* tracked.                                                                *)
(***************************************************************************)
End == [plan: Plan \cup {None}, covered: SUBSET Till]

TypeOK ==
  /\ world \in AllWorlds
  /\ row \in [Session -> SessionRow]
  /\ ledger \in [Session -> SessionLedger]
  /\ shift \in [Session -> [attached: BOOLEAN, till: Till \cup {None}]]
  /\ staffTill \in Till \cup {None}
  /\ finish \in [Session -> End]
  /\ engine \in [Session -> BOOLEAN]
  /\ ticket \in [Ticket -> TicketRow]
  /\ task \in [Worker -> Task]

(***************************************************************************)
(* The sessions are running.  Each one has the shift it was started in,    *)
(* with the till its staff member held then (none for a shift opened       *)
(* before tills were assigned), or no shift.                               *)
(***************************************************************************)
NewRow == [status |-> "ACTIVE", archived |-> FALSE, ended |-> FALSE,
           plan |-> None, expected |-> None, corrected |-> None,
           billing |-> "PENDING", stamp |-> 0]

Init ==
  /\ world \in World
  /\ row = [s \in Session |-> NewRow]
  /\ ledger = [s \in Session |-> [net |-> 0, payments |-> 0, tills |-> {}]]
  /\ staffTill \in Till \cup {None}
  /\ \E started \in [Session -> BOOLEAN] :
       shift = [s \in Session |->
                 [attached |-> started[s],
                  till |-> IF started[s] THEN staffTill ELSE None]]
  /\ finish \in [Session -> End]
  /\ engine = [s \in Session |-> TRUE]
  /\ ticket = [q \in Ticket |-> FreeTicket]
  /\ task = [w \in Worker |-> Idle]

-----------------------------------------------------------------------------
(***************************************************************************)
(* The ledger side of a writer.                                            *)
(***************************************************************************)
ZeroIsUnset(corrected, expected) ==        \* mutant of resolveSessionPaidTarget
  IF corrected # None /\ corrected # 0 THEN corrected
  ELSE IF expected # None THEN expected ELSE 0

resolveSessionPaidTarget(corrected, expected) ==
  IF corrected # None THEN corrected ELSE IF expected # None THEN expected ELSE 0

(***************************************************************************)
(* The till of a session: the one that already has its movements, else the *)
(* one its staff member holds now, else the one the shift remembers.       *)
(***************************************************************************)
ProspectiveTill(l, s) ==
  IF l.tills # {} THEN l.tills
  ELSE IF shift[s].attached
       THEN {IF staffTill # None THEN staffTill ELSE shift[s].till}
       ELSE {None}

(***************************************************************************)
(* shouldAllowSessionCashCredit: a first credit needs a session that ended *)
(* after the cutover of the till.                                          *)
(***************************************************************************)
shouldAllowSessionCashCredit(l, s, t, ended) ==
  l.tills # {} \/ (t # None /\ ended /\ t \in finish[s].covered)

(***************************************************************************)
(* assertNewSessionCashCreditAllowed: 422 for a session that ended after   *)
(* the first cutover of the shop and has no shift or no till to go to.     *)
(***************************************************************************)
assertNewSessionCashCreditAllowed(l, s, t, ended, target) ==
  ~ /\ target > 0 /\ l.tills = {} /\ ended /\ finish[s].covered # {}
    /\ ~shift[s].attached \/ t = None

(***************************************************************************)
(* planSessionPaidSync: the movement that brings the ledger to the target. *)
(***************************************************************************)
PaymentFromZero(l, target) == l.net = 0 /\ target > 0   \* mutant of FirstRecording

FirstRecording(l, target) == l.payments = 0 /\ l.net = 0 /\ target > 0

DeltaOfTargets(l, previousTarget, target) ==                 \* mutant of Delta
  target - previousTarget

Delta(l, previousTarget, target) == target - l.net

planSessionPaidSync(l, t, previousTarget, target) ==
  [net |-> l.net + Delta(l, previousTarget, target), tills |-> l.tills \cup {t},
   payments |-> IF FirstRecording(l, target) THEN l.payments + 1 ELSE l.payments]

(***************************************************************************)
(* syncSessionCashLedgerInTx with syncSessionPaidAmount: the ledgers a     *)
(* session may have after the call, none if it throws.                     *)
(***************************************************************************)
Synced(l, s, previousTarget, target, ended) ==
  IF previousTarget = 0 /\ target = 0 THEN {l}
  ELSE UNION {
    IF ~assertNewSessionCashCreditAllowed(l, s, t, ended, target) THEN {}
    ELSE IF Delta(l, previousTarget, target) = 0 \/ ~shouldAllowSessionCashCredit(l, s, t, ended) THEN {l}
    ELSE IF ~shift[s].attached THEN {}
    ELSE {planSessionPaidSync(l, t, previousTarget, target)} : t \in ProspectiveTill(l, s)}

-----------------------------------------------------------------------------
(***************************************************************************)
(* Common parts of the writers.  Start: a free worker reads a row, and     *)
(* some remember it.  GoOn: it reads the row again.  Done: its transaction *)
(* is over.  Update: updated_at moves with every write.                    *)
(***************************************************************************)
Remembering == {"correcting", "archiving", "requesting"}

Start(w, s, step, plan, paid, q) ==
  /\ w \in world.workers /\ task[w].step = "idle"
  /\ row[s].stamp < world.updates
  /\ task' = [task EXCEPT ![w] =
       [step |-> step, session |-> s, ticket |-> q, plan |-> plan, paid |-> paid,
        row |-> IF step \in Remembering THEN row[s] ELSE None,
        attached |-> step = "recovering" /\ shift[s].attached]]

GoOn(w, step) == task' = [task EXCEPT ![w].step = step, ![w].row = row[task[w].session]]

Done(w) == task' = [task EXCEPT ![w] = Idle]

Update(s, r) == row' = [row EXCEPT ![s] = [r EXCEPT !.stamp = @ + 1]]

Rollback(w) ==
  /\ task[w].step # "idle"
  /\ Done(w)
  /\ UNCHANGED <<world, row, ledger, shift, staffTill, finish, engine, ticket>>

-----------------------------------------------------------------------------
(***************************************************************************)
(* The end of a session.  The poll loop ends a session it has in memory    *)
(* (its ticks may overlap: nothing waits for the one before), stale        *)
(* recovery one it finds ACTIVE in the database.                           *)
(***************************************************************************)
EndSession(w, s) ==
  /\ engine[s]
  /\ Start(w, s, "ending", finish[s].plan, None, None)
  /\ UNCHANGED <<world, row, ledger, shift, staffTill, finish, engine, ticket>>

recoverChairSession(w, s) ==
  /\ row[s].status = "ACTIVE"
  /\ Start(w, s, "recovering", finish[s].plan, None, None)
  /\ UNCHANGED <<world, row, ledger, shift, staffTill, finish, engine, ticket>>

(***************************************************************************)
(* finalizeActiveSession: whatever the row has become since it was read,   *)
(* it is COMPLETED with the price of the session, and the ledger follows   *)
(* that price.  Recovery leaves the ledger of a session without a shift    *)
(* alone; the poll loop does not, and fails if the ledger refuses.  The    *)
(* prime of the shift is deducted after the commit; if the staff member    *)
(* has no till for it by then, the call fails and the memory keeps the     *)
(* session.                                                                *)
(***************************************************************************)
PrimeRefused(s) == world.primeRefusals /\ shift[s].attached /\ staffTill = None

PriceOf(p) == IF p = None THEN 0 ELSE Price[p]

FinalizedWithAnomaly(r, p) ==                           \* mutant of Finalized
  [r EXCEPT !.status = "COMPLETED", !.ended = TRUE, !.plan = p,
            !.expected = PriceOf(p),
            !.billing = IF p = None THEN "TOO_SHORT" ELSE "CALCULATED"]

Finalized(r, p) ==
  [r EXCEPT !.status = "COMPLETED", !.ended = TRUE, !.plan = p,
            !.expected = PriceOf(p),
            !.billing = IF p = None THEN "PENDING" ELSE "CALCULATED"]

finalizeActiveSession(w) ==
  LET s == task[w].session
      p == task[w].plan
      skipCashSync == task[w].step = "recovering" /\ ~task[w].attached
  IN  /\ task[w].step \in {"ending", "recovering"}
      /\ Update(s, Finalized(row[s], p))
      /\ \E l \in IF skipCashSync THEN {ledger[s]}
                   ELSE Synced(ledger[s], s, 0, PriceOf(p), TRUE) :
           ledger' = [ledger EXCEPT ![s] = l]
      /\ \/ engine' = [engine EXCEPT ![s] = FALSE]
         \/ ~skipCashSync /\ PrimeRefused(s) /\ UNCHANGED engine
      /\ Done(w)
      /\ UNCHANGED <<world, shift, staffTill, finish, ticket>>

(***************************************************************************)
(* markSessionNeedsReview: recovery gives up on a session without a shift  *)
(* for which no end can be told.                                           *)
(***************************************************************************)
giveUp(w, s) ==
  /\ row[s].status = "ACTIVE"
  /\ ~shift[s].attached
  /\ Start(w, s, "reviewing", None, None, None)
  /\ UNCHANGED <<world, row, ledger, shift, staffTill, finish, engine, ticket>>

markSessionNeedsReview(w) ==
  LET s == task[w].session IN
    /\ task[w].step = "reviewing"
    /\ Update(s, [row[s] EXCEPT !.status = "UNCERTAIN", !.billing = "DISPUTED"])
    /\ engine' = [engine EXCEPT ![s] = FALSE]
    /\ Done(w)
    /\ UNCHANGED <<world, ledger, shift, staffTill, finish, ticket>>

(***************************************************************************)
(* hydrateRuntimeCache: from time to time the memory is rebuilt from the   *)
(* database, also after a restart.                                         *)
(***************************************************************************)
hydrateRuntimeCache(s) ==
  /\ engine' = [engine EXCEPT ![s] = row[s].status = "ACTIVE"]
  /\ UNCHANGED <<world, row, ledger, shift, staffTill, finish, ticket, task>>

-----------------------------------------------------------------------------
(***************************************************************************)
(* correctSession: an admin sets the amount paid, or clears it (None).     *)
(***************************************************************************)
startCorrection(w, s) ==
  /\ row[s].ended \/ world.earlyCorrections
  /\ \E a \in PaidAmount \cup {None} : Start(w, s, "correcting", None, a, None)
  /\ UNCHANGED <<world, row, ledger, shift, staffTill, finish, engine, ticket>>

CorrectedBilling(read, paid) ==
  IF paid # None THEN "CORRECTED"
  ELSE IF read.expected # None THEN "CALCULATED" ELSE "PENDING"

correctSession(w) ==
  LET s == task[w].session
      read == task[w].row
      paid == task[w].paid
  IN  /\ task[w].step = "correcting"
      /\ Update(s, [row[s] EXCEPT !.corrected = paid,
                                  !.billing = CorrectedBilling(read, paid)])
      /\ \E l \in Synced(ledger[s], s,
                         resolveSessionPaidTarget(read.corrected, read.expected),
                         resolveSessionPaidTarget(paid, read.expected),
                         row[s].ended) :
           ledger' = [ledger EXCEPT ![s] = l]
      /\ Done(w)
      /\ UNCHANGED <<world, shift, staffTill, finish, engine, ticket>>

(***************************************************************************)
(* deleteSession: every session the engine started has events, so it is    *)
(* archived; it is cancelled if it was running when it was read.           *)
(***************************************************************************)
startArchive(w, s) ==
  /\ ~row[s].archived
  /\ Start(w, s, "archiving", None, None, None)
  /\ UNCHANGED <<world, row, ledger, shift, staffTill, finish, engine, ticket>>

deleteSession(w) ==
  LET s == task[w].session IN
    /\ task[w].step = "archiving"
    /\ Update(s, [row[s] EXCEPT !.archived = TRUE,
                     !.status = IF task[w].row.status = "ACTIVE" THEN "CANCELLED" ELSE @])
    /\ Done(w)
    /\ UNCHANGED <<world, ledger, shift, staffTill, finish, engine, ticket>>

-----------------------------------------------------------------------------
(***************************************************************************)
(* Changes of plan and of paid amount, direct or asked for.                *)
(***************************************************************************)
assertSessionEligibleForPlanChange(r) == r.status = "COMPLETED" /\ ~r.archived

assertPlanIsDifferent(r, p) == p # r.plan

\* The amounts are compared as they are stored: 0 is not the same as unset.
assertPaidAmountIsDifferent(r, a) == a # r.corrected

\* A plan, an amount or both, where 0 is an amount.
validateModificationRequestInput(p, a) == p # None \/ a # None

assertRequestStillPending(q) == ticket[q].state = "PENDING"

Pending(s) == {q \in Ticket : ticket[q].state = "PENDING" /\ ticket[q].session = s}

(***************************************************************************)
(* changePlanDirect checks that no request is pending, then reads the row  *)
(* once more (applySessionPlanChangeInTx), then writes.                    *)
(***************************************************************************)
changePlanDirect(w, s) ==
  /\ assertSessionEligibleForPlanChange(row[s])
  /\ Pending(s) = {}
  /\ \E p \in Plan :
       /\ assertPlanIsDifferent(row[s], p)
       /\ Start(w, s, "planChecked", p, None, None)
  /\ UNCHANGED <<world, row, ledger, shift, staffTill, finish, engine, ticket>>

readForPlanChange(w) ==
  /\ task[w].step = "planChecked"
  /\ assertSessionEligibleForPlanChange(row[task[w].session])
  /\ assertPlanIsDifferent(row[task[w].session], task[w].plan)
  /\ GoOn(w, "planRead")
  /\ UNCHANGED <<world, row, ledger, shift, staffTill, finish, engine, ticket>>

(***************************************************************************)
(* createRequest: the assistant of the session's shift asks for a plan, a  *)
(* paid amount or both; one pending request per session is checked before, *)
(* and enforced by a unique index when the request is inserted.            *)
(***************************************************************************)
startRequest(w, s, q) ==
  /\ q \in world.tickets /\ ticket[q].state = "FREE"
  /\ assertSessionEligibleForPlanChange(row[s])
  /\ shift[s].attached
  /\ Pending(s) = {}
  /\ \E p \in Plan \cup {None}, a \in PaidAmount \cup {None} :
       /\ validateModificationRequestInput(p, a)
       /\ p # None => assertPlanIsDifferent(row[s], p)
       /\ a # None => assertPaidAmountIsDifferent(row[s], a)
       /\ Start(w, s, "requesting", p, a, q)
  /\ UNCHANGED <<world, row, ledger, shift, staffTill, finish, engine, ticket>>

NoPendingIndex(s) == TRUE                          \* mutant of OnePendingIndex

OnePendingIndex(s) == Pending(s) = {}

createRequest(w) ==
  LET s == task[w].session
      q == task[w].ticket
  IN  /\ task[w].step = "requesting"
      /\ ticket[q].state = "FREE"
      /\ OnePendingIndex(s)
      /\ ticket' = [ticket EXCEPT ![q] =
           [state |-> "PENDING", session |-> s, plan |-> task[w].plan,
            paid |-> task[w].paid, atPlan |-> task[w].row.plan,
            atStamp |-> task[w].row.stamp, appliedTo |-> None]]
      /\ Done(w)
      /\ UNCHANGED <<world, row, ledger, shift, staffTill, finish, engine>>

(***************************************************************************)
(* approveRequest: refused if the session was changed since the request    *)
(* was made; then the request is claimed with a conditional update, whose  *)
(* row lock keeps other reviewers out until the commit, and the session is *)
(* read again to apply the request to it.                                  *)
(***************************************************************************)
assertRequestNotStale(q, r) ==
  /\ ticket[q].atPlan # None => r.plan = ticket[q].atPlan
  /\ r.stamp = ticket[q].atStamp

approveRequest(w, q) ==
  LET s == ticket[q].session IN
    /\ assertRequestStillPending(q)
    /\ assertSessionEligibleForPlanChange(row[s])
    /\ assertRequestNotStale(q, row[s])
    /\ Start(w, s, "approving", ticket[q].plan, ticket[q].paid, q)
    /\ UNCHANGED <<world, row, ledger, shift, staffTill, finish, engine, ticket>>

ClaimWithoutLock(q) == ticket[q].state = "PENDING"       \* mutant of Claimable

Claimable(q) ==
  /\ ticket[q].state = "PENDING"
  /\ \A w \in Worker : task[w].step \in {"planRead", "paidRead"} => task[w].ticket # q

claimRequest(w) ==
  LET s == task[w].session IN
    /\ task[w].step = "approving"
    /\ Claimable(task[w].ticket)
    /\ assertSessionEligibleForPlanChange(row[s])
    /\ IF task[w].plan # None
       THEN assertPlanIsDifferent(row[s], task[w].plan) /\ GoOn(w, "planRead")
       ELSE assertPaidAmountIsDifferent(row[s], task[w].paid) /\ GoOn(w, "paidRead")
    /\ UNCHANGED <<world, row, ledger, shift, staffTill, finish, engine, ticket>>

Approved(q, stamp) ==
  IF q = None THEN ticket
  ELSE [ticket EXCEPT ![q].state = "APPROVED", ![q].appliedTo = stamp]

(***************************************************************************)
(* applySessionPlanChangeInTx writes the plan and its price and moves the  *)
(* ledger to the target computed with the corrected amount it has read.    *)
(***************************************************************************)
buildPlanChangeSessionUpdate(r, p) ==
  [r EXCEPT !.plan = p, !.expected = Price[p], !.billing = "CALCULATED"]

PriceCollected(l, s, read, p) ==                 \* mutant of LedgersAfterPlan
  Synced(l, s, resolveSessionPaidTarget(read.corrected, read.expected),
         Price[p], TRUE)

LedgersAfterPlan(l, s, read, p) ==
  Synced(l, s, resolveSessionPaidTarget(read.corrected, read.expected),
         resolveSessionPaidTarget(read.corrected, Price[p]), TRUE)

applySessionPlanChangeInTx(w) ==
  LET s == task[w].session
      p == task[w].plan
  IN  /\ task[w].step = "planRead"
      /\ task[w].paid = None
      /\ Update(s, buildPlanChangeSessionUpdate(row[s], p))
      /\ \E l \in LedgersAfterPlan(ledger[s], s, task[w].row, p) :
           ledger' = [ledger EXCEPT ![s] = l]
      /\ ticket' = Approved(task[w].ticket, row[s].stamp)
      /\ Done(w)
      /\ UNCHANGED <<world, shift, staffTill, finish, engine>>

(***************************************************************************)
(* applyPaidAmountChangeInTx, when the request asks for an amount only.    *)
(***************************************************************************)
buildPaidAmountSessionUpdate(r, a) ==
  [r EXCEPT !.corrected = a, !.billing = "CORRECTED"]

LedgersAfterPaid(l, s, read, a) ==
  Synced(l, s, resolveSessionPaidTarget(read.corrected, read.expected), a, TRUE)

applyPaidAmountChangeInTx(w) ==
  LET s == task[w].session
      a == task[w].paid
  IN  /\ task[w].step = "paidRead"
      /\ Update(s, buildPaidAmountSessionUpdate(row[s], a))
      /\ \E l \in LedgersAfterPaid(ledger[s], s, task[w].row, a) :
           ledger' = [ledger EXCEPT ![s] = l]
      /\ ticket' = Approved(task[w].ticket, row[s].stamp)
      /\ Done(w)
      /\ UNCHANGED <<world, shift, staffTill, finish, engine>>

(***************************************************************************)
(* Both: the second change reads the row the first one has written and     *)
(* still has locked, and is refused like the first one.                    *)
(***************************************************************************)
applyPlanThenPaid(w) ==
  LET s == task[w].session
      p == task[w].plan
      a == task[w].paid
      between == buildPlanChangeSessionUpdate(row[s], p)
  IN  /\ task[w].step = "planRead"
      /\ a # None
      /\ assertSessionEligibleForPlanChange(between)
      /\ assertPaidAmountIsDifferent(between, a)
      /\ Update(s, buildPaidAmountSessionUpdate(between, a))
      /\ \E l \in LedgersAfterPlan(ledger[s], s, task[w].row, p) :
           \E m \in LedgersAfterPaid(l, s, between, a) :
             ledger' = [ledger EXCEPT ![s] = m]
      /\ ticket' = Approved(task[w].ticket, row[s].stamp)
      /\ Done(w)
      /\ UNCHANGED <<world, shift, staffTill, finish, engine>>

rejectRequest(q) ==
  /\ assertRequestStillPending(q)
  /\ Claimable(q)
  /\ ticket' = [ticket EXCEPT ![q].state = "REJECTED"]
  /\ UNCHANGED <<world, row, ledger, shift, staffTill, finish, engine, task>>

-----------------------------------------------------------------------------
(***************************************************************************)
(* What goes on beside the writers: setCashAccountAssignment moves the     *)
(* staff member to another till or to none, and deleteShift detaches the   *)
(* sessions of the shift.                                                  *)
(***************************************************************************)
setCashAccountAssignment ==
  /\ staffTill' \in (Till \cup {None}) \ {staffTill}
  /\ UNCHANGED <<world, row, ledger, shift, finish, engine, ticket, task>>

deleteShift(s) ==
  /\ shift[s].attached
  /\ row[s].stamp < world.updates
  /\ shift' = [shift EXCEPT ![s] = [attached |-> FALSE, till |-> None]]
  /\ Update(s, row[s])
  /\ UNCHANGED <<world, ledger, staffTill, finish, engine, ticket, task>>

-----------------------------------------------------------------------------
Begin(w, s) ==
  \/ EndSession(w, s) \/ recoverChairSession(w, s) \/ giveUp(w, s)
  \/ startCorrection(w, s) \/ startArchive(w, s) \/ changePlanDirect(w, s)
  \/ \E q \in Ticket : startRequest(w, s, q)

Continue(w) ==
  \/ finalizeActiveSession(w) \/ markSessionNeedsReview(w) \/ correctSession(w)
  \/ deleteSession(w) \/ readForPlanChange(w) \/ createRequest(w)
  \/ claimRequest(w) \/ applySessionPlanChangeInTx(w)
  \/ applyPaidAmountChangeInTx(w) \/ applyPlanThenPaid(w) \/ Rollback(w)

Next ==
  \/ \E w \in Worker : Continue(w) \/ (\E s \in Session : Begin(w, s))
                                   \/ (\E q \in Ticket : approveRequest(w, q))
  \/ \E q \in Ticket : rejectRequest(q)
  \/ \E s \in Session : hydrateRuntimeCache(s) \/ deleteShift(s)
  \/ setCashAccountAssignment

Spec == Init /\ [][Next]_vars

-----------------------------------------------------------------------------
(***************************************************************************)
(* A session is collected once: however often its amount is changed, by    *)
(* however many writers, its ledger has one SESSION_PAYMENT, and the other *)
(* movements are corrections and reversals of it.  The code sees to that   *)
(* by itself; the unique index of the database is a second line.           *)
(***************************************************************************)
OnePaymentPerSession ==
  \A s \in Session : /\ ledger[s].payments <= 1
                     /\ ledger[s].payments = 0 => ledger[s].net = 0

(***************************************************************************)
(* "Sticky till": the money of a session is in one till and stays there,   *)
(* also when its staff member moves to another till between two changes.   *)
(***************************************************************************)
OneTillPerSession ==
  \A s \in Session : \A t, u \in ledger[s].tills : t = u

(***************************************************************************)
(* The ledger never holds less than nothing for a session, whichever       *)
(* writers worked from whichever stale amounts.                            *)
(***************************************************************************)
NeverBelowZero == \A s \in Session : ledger[s].net >= 0

(***************************************************************************)
(* Sessions that ended before the cutover of the till are never credited   *)
(* to it, by no later correction, change of plan or approval either.       *)
(***************************************************************************)
LegacyStaysOut ==
  \A s \in Session : ledger[s].tills \subseteq finish[s].covered
                     /\ (ledger[s].tills # {} => row[s].ended)

(***************************************************************************)
(* However many writers race, a session has one payment, in one till, and  *)
(* never takes more back than it paid; and what ended before a till kept   *)
(* its book stays out of that till.                                        *)
(***************************************************************************)
OneCollection ==
  OnePaymentPerSession /\ OneTillPerSession /\ NeverBelowZero /\ LegacyStaysOut

(***************************************************************************)
(* At most one request waits for a decision on a session.                  *)
(***************************************************************************)
OnePendingPerSession ==
  \A q, u \in Ticket :
    /\ ticket[q].state = "PENDING" /\ ticket[u].state = "PENDING"
    /\ ticket[q].session = ticket[u].session
    => q = u

(***************************************************************************)
(* A request is decided once: two reviewers never both decide it, and what *)
(* was decided stays.                                                      *)
(***************************************************************************)
DecidedOnce ==
  [][\A q \in Ticket : ticket[q].state \in {"APPROVED", "REJECTED"}
                       => ticket'[q] = ticket[q]]_vars

(***************************************************************************)
(* "Bring ledger net for a ChairSession to paidTarget = correctedAmount    *)
(* ?? expectedAmount": the ledger of a finished session says what its row  *)
(* says, if all tills were tracked when it ended and it has its shift.     *)
(***************************************************************************)
LedgerFollowsRow ==
  \A s \in Session :
    row[s].ended /\ finish[s].covered = Till /\ shift[s].attached
    => ledger[s].net = IF row[s].corrected = None THEN row[s].expected
                                                  ELSE row[s].corrected

(***************************************************************************)
(* One writer at a time, who corrects amounts only once the session has    *)
(* ended, while no prime is refused: the way the code is meant to be used. *)
(***************************************************************************)
OneWriter ==
  /\ ~world.earlyCorrections /\ ~world.primeRefusals
  /\ \E w \in Worker : world.workers = {w}

(***************************************************************************)
(* With one writer at a time: what the ledger holds is what the row says.  *)
(***************************************************************************)
AloneLedgerFollowsRow == OneWriter => LedgerFollowsRow

(***************************************************************************)
(* With one writer at a time: a change of plan moves no money of a session *)
(* whose paid amount is recorded ("correctedAmount intentionally           *)
(* untouched (recorded collection / correction preserved)").               *)
(***************************************************************************)
AlonePlanChangeKeepsCollection ==
  [][\A w \in Worker, s \in Session :
       /\ OneWriter /\ applySessionPlanChangeInTx(w) /\ task[w].session = s
       /\ row[s].corrected # None /\ finish[s].covered = Till /\ shift[s].attached
       => ledger'[s] = ledger[s]]_vars

(***************************************************************************)
(* "A request is stale when the session's matched plan (or update stamp)   *)
(* diverged from the values captured when the request was created": an     *)
(* approved request was applied to the row it was made for.                *)
(***************************************************************************)
ApprovedAsRequested ==
  \A q \in Ticket : ticket[q].state = "APPROVED" => ticket[q].appliedTo = ticket[q].atStamp

(***************************************************************************)
(* The money of the sessions behaves as if every writer took effect in one *)
(* step.                                                                   *)
(***************************************************************************)
Accounts == INSTANCE SessionAccounts WITH
  collected <- [s \in Session |-> ledger[s].net],
  account   <- [s \in Session |-> ledger[s].tills]

ImplementsSessionAccounts == Accounts!AccountsSpec
=============================================================================
