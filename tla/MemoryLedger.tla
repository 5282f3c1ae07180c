----------------------------- MODULE MemoryLedger -----------------------------
(***************************************************************************)
(* MemoryCashLedger (cash.logic.ts): the ledger in memory that the tests   *)
(* of the cash module run instead of the transactions of CashLedger.  A    *)
(* test shows something of the service only as far as the two promise the  *)
(* same, so this one is held against TillAccounts as well.                 *)
(*                                                                         *)
(* Its methods are asynchronous.  What a method does before withLock runs  *)
(* when it is called; the rest runs later, in one piece, in the order of   *)
(* the calls for the same till.  A test awaits each call, or does not.     *)
(*                                                                         *)
(* The movements that follow a session and those that follow a shift are   *)
(* about one session and one shift.                                        *)
(***************************************************************************)
EXTENDS Integers, Sequences, FiniteSets, FiniteSetsExt

CONSTANTS
  Till, FirstTill, \* the tills, and the first in the order of the map
  Staff,
  Amount, Desired, Counted, \* amounts, balances asked for, counts: as in CashLedger
  Target,          \* what a session may have to pay
  Prime,           \* what the prime of the shift may be
  Moment,          \* the dates of sessions, shifts and cutovers
  MaxMovements,    \* bound on the movements of all tills
  MaxWaiting,      \* bound on the calls that wait
  World,           \* what a test may do: the methods it calls, and whether it awaits
  None

VARIABLES
  test,            \* the world, chosen once: methods, overlap (calls are not awaited)
  balance,         \* [Till -> Int]
  movements,       \* [Till -> Seq(Movement)]
  holder,          \* [Till -> Staff or None]
  tracking,        \* [Till -> cashTrackingStartedAt or None]
  waiting          \* [Till -> Seq(Call)], the calls behind the lock of the till

vars == <<test, balance, movements, holder, tracking, waiting>>

-----------------------------------------------------------------------------
Movement == [type: {"INITIAL_BALANCE", "SESSION_PAYMENT", "MANUAL_INCOME", "WITHDRAWAL",
                    "ADMIN_ADJUSTMENT", "CORRECTION", "REVERSAL", "PRIME_DEDUCTION"},
             amount: Int, before: Int, after: Int, reverses: Nat,
             ref: {"session", "shift", "receipt", None}]

\* A call: what is asked, for what reference, of which movement, since when.
Call(kind, amount, ref) ==
  [kind |-> kind, type |-> None, amount |-> amount, ref |-> ref, of |-> 0, at |-> 0,
   paid |-> FALSE, target |-> 0]

allMovements == {p \in Till \X (1..MaxMovements) : p[2] <= Len(movements[p[1]])}
Of(ref) == {p \in allMovements : movements[p[1]][p[2]].ref = ref}
Net(ref) == MapThenSumSet(LAMBDA p : movements[p[1]][p[2]].amount, Of(ref))

\* The till of the first movement there is, and the till a staff member holds.
stickyTill(ref) ==
  LET tills == {p[1] : p \in Of(ref)} IN
    IF tills = {} THEN None
    ELSE IF FirstTill \in tills THEN FirstTill ELSE CHOOSE t \in tills : TRUE

resolveCashAccountForStaff(s) ==
  IF s # None /\ \E t \in Till : holder[t] = s THEN CHOOSE t \in Till : holder[t] = s ELSE None

FirstOf(a, b, c) == IF a # None THEN a ELSE IF b # None THEN b ELSE c

\* All that a test may be.
Tests ==
  [methods: SUBSET {"credit", "withdraw", "adjust", "open", "reverse", "post", "prime",
                    "assign", "track"},
   overlap: BOOLEAN]

Init ==
  /\ test \in World
  /\ balance = [t \in Till |-> 0]
  /\ movements = [t \in Till |-> << >>]
  /\ holder = [t \in Till |-> None]
  /\ tracking = [t \in Till |-> 0]
  /\ waiting = [t \in Till |-> << >>]

-----------------------------------------------------------------------------
(***************************************************************************)
(* The part of a call that runs at once.                                   *)
(***************************************************************************)
Pending == MapThenSumSet(LAMBDA t : Len(waiting[t]), Till)

MayCall(method) == method \in test.methods /\ (test.overlap \/ Pending = 0)

withLock(t, c) ==
  /\ MayCall(c.kind)
  /\ Pending < MaxWaiting
  /\ Pending + Cardinality(allMovements) < MaxMovements
  /\ waiting' = [waiting EXCEPT ![t] = Append(@, c)]
  /\ UNCHANGED <<test, balance, movements, holder, tracking>>

credit(t) ==
  \E a \in Amount, ref \in {"receipt", None} : withLock(t, Call("credit", a, ref))

withdraw(t) == \E a \in Amount : withLock(t, Call("withdraw", a, None))

adjust(t) == \E d \in Desired : withLock(t, Call("adjust", d, None))

setInitialBalance(t) == \E c \in Counted : withLock(t, Call("open", c, None))

reverse(t) ==
  \E i \in DOMAIN movements[t] : withLock(t, [Call("reverse", 0, None) EXCEPT !.of = i])

setCashTrackingStartedAt(t) ==
  /\ MayCall("track")
  /\ \E at \in Moment \cup {None} : tracking' = [tracking EXCEPT ![t] = at]
  /\ UNCHANGED <<test, balance, movements, holder, waiting>>

assignStaffToCashAccount(t) ==
  /\ MayCall("assign")
  /\ \E s \in Staff \cup {None} :
       /\ s # None => \A u \in Till \ {t} : holder[u] # s
       /\ holder' = [holder EXCEPT ![t] = s]
  /\ UNCHANGED <<test, balance, movements, tracking, waiting>>

(***************************************************************************)
(* syncSessionPaid plans everything before it asks for the lock.  Without  *)
(* a plan, a staff member or a till it throws, or returns, with no effect. *)
(***************************************************************************)
planSessionPaidSync(target, allow) ==
  LET net == Net("session")
      paid == \E p \in Of("session") : movements[p[1]][p[2]].type = "SESSION_PAYMENT"
  IN
  IF target = net \/ ~allow THEN None
  ELSE IF ~paid /\ net = 0 THEN "SESSION_PAYMENT"
  ELSE IF target = 0 THEN "REVERSAL" ELSE "CORRECTION"

shouldAllowSessionCashCredit(t, at) ==
  \/ Of("session") # {}
  \/ t # None /\ tracking[t] # None /\ at >= tracking[t]

syncSessionPaid ==
  \E given \in Till \cup {None}, s \in Staff, target \in Target, at \in Moment :
    LET t == FirstOf(stickyTill("session"), given, resolveCashAccountForStaff(s))
        type == planSessionPaidSync(target, shouldAllowSessionCashCredit(t, at))
    IN
    /\ type # None /\ t # None
    /\ withLock(t, [Call("post", target - Net("session"), "session") EXCEPT
                      !.type = type, !.target = target])

\* syncShiftPrime chooses the till before the lock, and plans under it.
syncShiftPrime ==
  \E given \in Till \cup {None}, s \in Staff \cup {None}, d \in Prime, at \in Moment,
     paid \in BOOLEAN :
    LET t == FirstOf(stickyTill("shift"), resolveCashAccountForStaff(s), given) IN
      /\ t # None
      /\ withLock(t, [Call("prime", d, "shift") EXCEPT !.at = at, !.paid = paid])

-----------------------------------------------------------------------------
(***************************************************************************)
(* The part behind the lock: the movement it posts, or none.               *)
(***************************************************************************)
Posting(type, amount) == {[type |-> type, amount |-> amount]}

planIdempotentCredit(c) ==
  IF c.ref # None /\ Of(c.ref) # {} THEN {} ELSE Posting("MANUAL_INCOME", c.amount)

assertWithdrawAmount(t, c) ==
  IF c.amount > balance[t] THEN {} ELSE Posting("WITHDRAWAL", -c.amount)

planAdjustment(t, c) ==
  IF c.amount = balance[t] THEN {} ELSE Posting("ADMIN_ADJUSTMENT", c.amount - balance[t])

planInitialBalance(t, c) ==
  IF movements[t] # << >> \/ balance[t] # 0 THEN {} ELSE Posting("INITIAL_BALANCE", c.amount)

ReverseAReversal(t, c) ==                                \* mutant of planReversal
  LET original == movements[t][c.of]
      already == \E i \in DOMAIN movements[t] : movements[t][i].reverses = c.of
  IN IF already \/ original.amount = 0 THEN {} ELSE Posting("REVERSAL", -original.amount)

planReversal(t, c) ==
  LET original == movements[t][c.of]
      already == \E i \in DOMAIN movements[t] : movements[t][i].reverses = c.of
  IN IF original.type = "REVERSAL" \/ already \/ original.amount = 0 THEN {}
     ELSE Posting("REVERSAL", -original.amount)

shouldAllowShiftPrimeDeduction(t, c) ==
  \/ Of("shift") # {} \/ c.paid
  \/ tracking[t] # None /\ c.at >= tracking[t]

planShiftPrimeSync(t, c) ==
  IF c.amount = -Net("shift") \/ ~shouldAllowShiftPrimeDeduction(t, c) THEN {}
  ELSE Posting("PRIME_DEDUCTION", -Net("shift") - c.amount)

Plan(t, c) ==
  CASE c.kind = "credit"   -> planIdempotentCredit(c)
    [] c.kind = "withdraw" -> assertWithdrawAmount(t, c)
    [] c.kind = "adjust"   -> planAdjustment(t, c)
    [] c.kind = "open"     -> planInitialBalance(t, c)
    [] c.kind = "reverse"  -> planReversal(t, c)
    [] c.kind = "prime"    -> planShiftPrimeSync(t, c)
    [] c.kind = "post"     -> Posting(c.type, c.amount)

\* The lock is passed on, whatever the call came to.
Leaves(t) ==
  /\ waiting[t] # << >>
  /\ waiting' = [waiting EXCEPT ![t] = Tail(@)]
  /\ UNCHANGED <<test, holder>>

post(t) ==
  LET c == Head(waiting[t]) IN
  /\ Leaves(t)
  /\ \E m \in Plan(t, c) :
       LET after == balance[t] + m.amount IN
       /\ movements' = [movements EXCEPT ![t] =
            Append(@, [type |-> m.type, amount |-> m.amount, before |-> balance[t],
                       after |-> after, reverses |-> c.of, ref |-> c.ref])]
       /\ balance' = [balance EXCEPT ![t] = after]
  /\ tracking' = IF c.kind = "open"
                 THEN [tracking EXCEPT ![t] = Cardinality(allMovements) + 1] ELSE tracking

\* Refused, nothing to do, or told to fail (failAfterLock).
PostsNothing(t) ==
  /\ Leaves(t)
  /\ Plan(t, Head(waiting[t])) = {} \/ Head(waiting[t]).kind = "credit"
  /\ UNCHANGED <<balance, movements, tracking>>

Next ==
  \/ syncSessionPaid \/ syncShiftPrime
  \/ \E t \in Till :
       \/ credit(t) \/ withdraw(t) \/ adjust(t) \/ setInitialBalance(t) \/ reverse(t)
       \/ setCashTrackingStartedAt(t) \/ assignStaffToCashAccount(t)
       \/ post(t) \/ PostsNothing(t)

Spec == Init /\ [][Next]_vars

-----------------------------------------------------------------------------
(***************************************************************************)
(* The variables have their types, and a ledger whose calls are awaited    *)
(* never has two of them under way.                                        *)
(***************************************************************************)
TypeOK ==
  /\ balance \in [Till -> Int]
  /\ \A t \in Till : \A i \in DOMAIN movements[t] : movements[t][i] \in Movement
  /\ holder \in [Till -> Staff \cup {None}]
  /\ tracking \in [Till -> Nat \cup {None}]
  /\ test.overlap \/ Pending <= 1

\* The movements as TillAccounts has them: those of a session or a shift are SYNC.
Entries(t) ==
  [i \in DOMAIN movements[t] |->
     LET m == movements[t][i] IN
       [type |-> IF m.ref \in {"session", "shift"} THEN "SYNC" ELSE m.type,
        amount |-> m.amount, before |-> m.before, after |-> m.after,
        reverses |-> m.reverses]]

Tills == INSTANCE TillAccounts WITH cash <- balance, history <- [t \in Till |-> Entries(t)]

ReversedOnce ==
  \A t \in Till : \A i, j \in DOMAIN movements[t] :
    movements[t][i].reverses = movements[t][j].reverses /\ movements[t][i].reverses # 0
      => i = j

\* The call of that kind that posts in this step, if there is one.
PostsNow(t, kind) ==
  waiting[t] # << >> /\ Head(waiting[t]).kind = kind /\ movements'[t] # movements[t]

PrimesAreSettled ==
  [][\A t \in Till : PostsNow(t, "prime") => Net("shift")' = -Head(waiting[t]).amount]_vars

SessionsAreSettled ==
  [][\A t \in Till : ~test.overlap /\ PostsNow(t, "post")
       => Net("session")' = Head(waiting[t]).target]_vars

(***************************************************************************)
(* The ledger the tests run keeps its types and the accounts that          *)
(* CashLedger implements, and in any order of its calls a movement is      *)
(* reversed once and a prime that is posted leaves the shift with the      *)
(* prime asked for; what a session has paid is the target only if the      *)
(* calls are awaited.                                                      *)
(***************************************************************************)
TwinKeepsAccounts ==
  Tills!TillsSpec /\ []TypeOK /\ []ReversedOnce /\ PrimesAreSettled /\ SessionsAreSettled
=============================================================================
