----------------------------- MODULE CashLedger -----------------------------
(***************************************************************************)
(* The cash ledger of server/modules/cash: physical tills whose balance is *)
(* changed only by appending a movement, each in one Postgres transaction  *)
(* (READ COMMITTED) that several HTTP requests run at the same time.       *)
(*                                                                         *)
(* A transaction is cut where another one may slip in: the reads it does   *)
(* before the row lock, SELECT ... FOR UPDATE on the till, the fresh read  *)
(* of the till under that lock, and the writes with the commit.  It may be *)
(* rolled back at each of these points (a refused statement, a lost        *)
(* connection, the interactive-transaction timeout, a crash of the         *)
(* process), which releases the lock and leaves no trace.                  *)
(*                                                                         *)
(* Amounts are whole centimes, as toCents makes them.                      *)
(***************************************************************************)
EXTENDS Integers, Sequences

CONSTANTS
  Till,           \* the physical tills (PHYSICAL_CASH_CODES)
  Staff,          \* staff members a till can be assigned to
  Request,        \* HTTP requests being served, one transaction each
  Amount,         \* amounts of incomes and withdrawals
  Desired,        \* balances an adjustment may ask for
  Counted,        \* amounts an opening count may find
  MaxMovements,   \* bound: no new request on a till that has this many movements
  NoOne           \* stands for null: no staff member, no lock holder

ASSUME AmountAssumption  == Amount \subseteq Nat \ {0}
ASSUME DesiredAssumption == Desired \subseteq Int
ASSUME CountedAssumption == Counted \subseteq Nat
ASSUME NoOneAssumption   == NoOne \notin Staff /\ NoOne \notin Request
ASSUME BoundAssumption   == MaxMovements \in Nat

VARIABLES
  balance,        \* [Till -> Int], cash_accounts.current_balance
  tracking,       \* [Till -> BOOLEAN], cash_tracking_started_at is set
  holder,         \* [Till -> Staff \cup {NoOne}], cash_accounts.staff_member_id
  movements,      \* [Till -> Seq(Movement)], cash_movements in commit order
  lock,           \* [Till -> Request \cup {NoOne}], the row lock of the till
  pc,             \* [Request -> Phase], how far the transaction has come
  op,             \* [Request -> Operation], what it was asked to do
  seen            \* [Request -> Int], the balance it read under the lock

vars == <<balance, tracking, holder, movements, lock, pc, op, seen>>

-----------------------------------------------------------------------------
MovementType == {"INITIAL_BALANCE", "MANUAL_INCOME", "WITHDRAWAL",
                 "ADMIN_ADJUSTMENT", "REVERSAL"}

Movement == [type: MovementType, amount: Int, before: Int, after: Int,
             reverses: Nat]

Phase == {"idle", "begun", "locked", "read"}

(***************************************************************************)
(* A request: amount is the signed amount of the movement to post, or, for *)
(* an adjustment, the balance asked for; reverses is the place of the      *)
(* movement to undo; staff is the new holder of an assignment.             *)
(***************************************************************************)
Operation == [type: MovementType \cup {"ASSIGNMENT"}, till: Till, amount: Int,
              reverses: Nat, staff: Staff \cup {NoOne}]

Asked(type, t, amount, i, s) ==
  [type |-> type, till |-> t, amount |-> amount, reverses |-> i, staff |-> s]

Idle == Asked("IDLE", NoOne, 0, 0, NoOne)

TypeOK ==
  /\ balance \in [Till -> Int]
  /\ tracking \in [Till -> BOOLEAN]
  /\ holder \in [Till -> Staff \cup {NoOne}]
  /\ movements \in [Till -> Seq(Movement)]
  /\ lock \in [Till -> Request \cup {NoOne}]
  /\ pc \in [Request -> Phase]
  /\ op \in [Request -> Operation \cup {Idle}]
  /\ \A r \in Request : pc[r] # "idle" => op[r] \in Operation
  /\ seen \in [Request -> Int]

Init ==
  /\ balance = [t \in Till |-> 0]
  /\ tracking = [t \in Till |-> FALSE]
  /\ holder = [t \in Till |-> NoOne]
  /\ movements = [t \in Till |-> << >>]
  /\ lock = [t \in Till |-> NoOne]
  /\ pc = [r \in Request |-> "idle"]
  /\ op = [r \in Request |-> Idle]
  /\ seen = [r \in Request |-> 0]

-----------------------------------------------------------------------------
(***************************************************************************)
(* Pre-lock half of a transaction: the request is accepted and whatever    *)
(* the code reads before it asks for the lock is read here.                *)
(***************************************************************************)
Begin(r, o) ==
  /\ pc[r] = "idle"
  /\ Len(movements[o.till]) < MaxMovements
  /\ pc' = [pc EXCEPT ![r] = "begun"]
  /\ op' = [op EXCEPT ![r] = o]
  /\ UNCHANGED <<balance, tracking, holder, movements, lock, seen>>

creditManualIncome(r) ==
  \E t \in Till, a \in Amount : Begin(r, Asked("MANUAL_INCOME", t, a, 0, NoOne))

withdraw(r) ==
  \E t \in Till, a \in Amount : Begin(r, Asked("WITHDRAWAL", t, -a, 0, NoOne))

adjust(r) ==
  \E t \in Till, d \in Desired : Begin(r, Asked("ADMIN_ADJUSTMENT", t, d, 0, NoOne))

setInitialBalance(r) ==
  \E t \in Till, c \in Counted : Begin(r, Asked("INITIAL_BALANCE", t, c, 0, NoOne))

setCashAccountAssignment(r) ==
  \E t \in Till, s \in Staff \cup {NoOne} : Begin(r, Asked("ASSIGNMENT", t, 0, 0, s))

(***************************************************************************)
(* reverse looks for an earlier REVERSAL of the movement before it locks   *)
(* the till, and never again.  planReversal refuses a movement of 0.       *)
(***************************************************************************)
AlreadyReversed(t, i) ==
  \E j \in 1..Len(movements[t]) : movements[t][j].reverses = i

reverse(r) ==
  \E t \in Till : \E i \in 1..Len(movements[t]) :
    LET original == movements[t][i] IN
      /\ original.type # "REVERSAL"
      /\ ~AlreadyReversed(t, i)
      /\ original.amount # 0
      /\ Begin(r, Asked("REVERSAL", t, -original.amount, i, NoOne))

-----------------------------------------------------------------------------
(***************************************************************************)
(* lockAccount: SELECT id FROM cash_accounts WHERE id = ... FOR UPDATE.    *)
(***************************************************************************)
LockIgnored(t) == TRUE                                   \* mutant of LockFree

LockFree(t) == lock[t] = NoOne

lockAccount(r) ==
  LET t == op[r].till IN
    /\ pc[r] = "begun"
    /\ LockFree(t)
    /\ lock' = [lock EXCEPT ![t] = r]
    /\ pc' = [pc EXCEPT ![r] = "locked"]
    /\ UNCHANGED <<balance, tracking, holder, movements, op, seen>>

(***************************************************************************)
(* The end of a transaction: its locks go, its local variables with them.  *)
(***************************************************************************)
End(r) ==
  /\ lock' = [t \in Till |-> IF lock[t] = r THEN NoOne ELSE lock[t]]
  /\ pc' = [pc EXCEPT ![r] = "idle"]
  /\ op' = [op EXCEPT ![r] = Idle]
  /\ seen' = [seen EXCEPT ![r] = 0]

(***************************************************************************)
(* The checks made on the fresh row.                                       *)
(***************************************************************************)
WithdrawUnchecked(t, amount) == amount < 0      \* mutant of assertWithdrawAmount

assertWithdrawAmount(t, amount) == -amount <= balance[t]

planAdjustment(t, desired) == desired # balance[t]

planInitialBalance(t) == movements[t] = << >> /\ balance[t] = 0

planStaffAssignment(t, s) ==
  s # NoOne => \A u \in Till \ {t} : holder[u] # s

Accepted(o) ==
  /\ o.type = "WITHDRAWAL" => assertWithdrawAmount(o.till, o.amount)
  /\ o.type = "ADMIN_ADJUSTMENT" => planAdjustment(o.till, o.amount)
  /\ o.type = "INITIAL_BALANCE" => planInitialBalance(o.till)
  /\ o.type = "ASSIGNMENT" => planStaffAssignment(o.till, o.staff)

ReadFresh(r) ==
  /\ pc[r] = "locked"
  /\ Accepted(op[r])
  /\ seen' = [seen EXCEPT ![r] = balance[op[r].till]]
  /\ pc' = [pc EXCEPT ![r] = "read"]
  /\ UNCHANGED <<balance, tracking, holder, movements, lock, op>>

(***************************************************************************)
(* The writes and the commit: the movement with the balances around it,    *)
(* then the balance itself, and the lock goes with the commit.             *)
(***************************************************************************)
PlannedAmount(r) ==
  IF op[r].type = "ADMIN_ADJUSTMENT" THEN op[r].amount - seen[r] ELSE op[r].amount

postMovementInTx(r) ==
  LET t == op[r].till
      after == seen[r] + PlannedAmount(r)
  IN  /\ pc[r] = "read"
      /\ op[r].type \in MovementType
      /\ movements' = [movements EXCEPT ![t] = Append(@,
             [type |-> op[r].type, amount |-> PlannedAmount(r),
              before |-> seen[r], after |-> after, reverses |-> op[r].reverses])]
      /\ balance' = [balance EXCEPT ![t] = after]
      /\ tracking' = [tracking EXCEPT ![t] = @ \/ op[r].type = "INITIAL_BALANCE"]
      /\ End(r)
      /\ UNCHANGED holder

(***************************************************************************)
(* The assignment commits only if the partial unique index on the staff    *)
(* member of an active till lets it: two transactions that both passed     *)
(* planStaffAssignment hold the locks of different tills.                  *)
(***************************************************************************)
UniqueActiveStaff(t, s) ==
  s # NoOne => \A u \in Till \ {t} : holder[u] # s

CommitAssignment(r) ==
  LET t == op[r].till
      s == op[r].staff
  IN  /\ pc[r] = "read"
      /\ op[r].type = "ASSIGNMENT"
      /\ UniqueActiveStaff(t, s)
      /\ holder' = [holder EXCEPT ![t] = s]
      /\ End(r)
      /\ UNCHANGED <<balance, tracking, movements>>

(***************************************************************************)
(* Rollback: a check or an index refuses the transaction, or it fails at   *)
(* any point before its commit.                                            *)
(***************************************************************************)
Rollback(r) ==
  /\ pc[r] # "idle"
  /\ End(r)
  /\ UNCHANGED <<balance, tracking, holder, movements>>

Accept(r) ==
  \/ creditManualIncome(r) \/ withdraw(r) \/ adjust(r)
  \/ setInitialBalance(r) \/ reverse(r) \/ setCashAccountAssignment(r)

Finish(r) == postMovementInTx(r) \/ CommitAssignment(r) \/ Rollback(r)

Next == \E r \in Request : Accept(r) \/ lockAccount(r) \/ ReadFresh(r) \/ Finish(r)

Spec == Init /\ [][Next]_vars

-----------------------------------------------------------------------------
(***************************************************************************)
(* The row lock does what postMovementInTx relies on: from the fresh read  *)
(* to the commit the transaction holds the lock of its till, and the       *)
(* balance it read is still the balance of the till.                       *)
(***************************************************************************)
ReadStaysFresh ==
  \A r \in Request :
    /\ pc[r] \in {"locked", "read"} => lock[op[r].till] = r
    /\ pc[r] = "read" => seen[r] = balance[op[r].till]

(***************************************************************************)
(* The ledger of a till is one unbroken chain: the first movement starts   *)
(* from 0, each next one from the balance the previous one left, and the   *)
(* last one leaves the balance the till shows.  No interleaving of         *)
(* requests loses a movement or counts one twice.                          *)
(***************************************************************************)
BalanceBefore(t, i) == IF i = 1 THEN 0 ELSE movements[t][i - 1].after

BalanceChains ==
  \A t \in Till :
    /\ \A i \in 1..Len(movements[t]) :
         /\ movements[t][i].before = BalanceBefore(t, i)
         /\ movements[t][i].after = movements[t][i].before + movements[t][i].amount
    /\ balance[t] = BalanceBefore(t, Len(movements[t]) + 1)

(***************************************************************************)
(* assertWithdrawAmount: no withdrawal takes more than the till holds,     *)
(* whatever other withdrawals and reversals run beside it.                 *)
(***************************************************************************)
WithdrawalsCovered ==
  \A t \in Till : \A i \in 1..Len(movements[t]) :
    movements[t][i].type = "WITHDRAWAL" => movements[t][i].after >= 0

(***************************************************************************)
(* planInitialBalance: the opening count of a till is its first movement   *)
(* or it has none, so that no till is opened twice or after trading, and   *)
(* the till is tracked from the moment it is opened and not before.        *)
(***************************************************************************)
OpeningComesFirst ==
  \A t \in Till :
    /\ \A i \in 1..Len(movements[t]) :
         movements[t][i].type = "INITIAL_BALANCE" => i = 1
    /\ tracking[t] <=> /\ movements[t] # << >>
                       /\ movements[t][1].type = "INITIAL_BALANCE"

(***************************************************************************)
(* What a request in flight may rely on.  The first part holds from the    *)
(* moment it is accepted, the second from its checks under the lock until  *)
(* it commits: no other transaction makes a check that passed false.       *)
(***************************************************************************)
SoundRequest(o) ==
  /\ o.type = "MANUAL_INCOME" => o.amount > 0
  /\ o.type = "WITHDRAWAL" => o.amount < 0
  /\ o.type = "INITIAL_BALANCE" => o.amount >= 0
  /\ o.type = "REVERSAL" =>
       /\ o.reverses \in 1..Len(movements[o.till])
       /\ movements[o.till][o.reverses].type # "REVERSAL"
       /\ o.amount = -movements[o.till][o.reverses].amount

ChecksStillHold(r) ==
  LET o == op[r] IN
    /\ o.type = "WITHDRAWAL" => seen[r] + o.amount >= 0
    /\ o.type = "ADMIN_ADJUSTMENT" => o.amount # seen[r]
    /\ o.type = "INITIAL_BALANCE" => movements[o.till] = << >>

RequestsInFlight ==
  \A r \in Request :
    /\ pc[r] # "idle" => SoundRequest(op[r])
    /\ pc[r] = "read" => ChecksStillHold(r)

(***************************************************************************)
(* setCashAccountAssignment: a staff member holds at most one till, even   *)
(* when two requests assign her to two tills at the same time.             *)
(***************************************************************************)
OneTillPerStaff ==
  \A t, u \in Till : holder[t] = holder[u] /\ holder[t] # NoOne => t = u

(***************************************************************************)
(* The accounts an owner reads off the tills, with any requests in flight: *)
(* unbroken chains, covered withdrawals, one opening count that comes      *)
(* first, and one till for a staff member.                                 *)
(***************************************************************************)
TillsAreSound ==
  BalanceChains /\ WithdrawalsCovered /\ OpeningComesFirst /\ OneTillPerStaff

(***************************************************************************)
(* The comment above reverse: "idempotent per original id".                *)
(***************************************************************************)
ReversedOnce ==
  \A t \in Till : \A i, j \in 1..Len(movements[t]) :
    /\ movements[t][i].type = "REVERSAL"
    /\ movements[t][j].reverses = movements[t][i].reverses
    => i = j

(***************************************************************************)
(* The tills behave as if every request took effect in one step.           *)
(***************************************************************************)
Tills == INSTANCE TillAccounts WITH cash <- balance, history <- movements

ImplementsTillAccounts == Tills!TillsSpec
=============================================================================
