---------------------------- MODULE TillAccounts ----------------------------
(***************************************************************************)
(* What the cash module promises of the physical tills, with no locks, no  *)
(* requests in flight and no failures: every operation on a till is one    *)
(* indivisible movement that starts from the balance the previous one      *)
(* left.  CashLedger, which has all of them, is shown to implement this    *)
(* specification.                                                          *)
(***************************************************************************)
EXTENDS Integers, Sequences

CONSTANT Till     \* the physical tills (PHYSICAL_CASH_CODES)

VARIABLES
  cash,           \* [Till -> Int], what each till should hold
  history         \* [Till -> Seq(Entry)], the movements of each till, oldest first

tillVars == <<cash, history>>

EntryType == {"INITIAL_BALANCE", "MANUAL_INCOME", "WITHDRAWAL",
              "ADMIN_ADJUSTMENT", "REVERSAL", "SYNC"}

(***************************************************************************)
(* reverses is the place, in the same till, of the movement a REVERSAL     *)
(* undoes, and 0 in every other entry.  SYNC stands for the movements that *)
(* follow a session or the prime of a shift.                               *)
(***************************************************************************)
Entry == [type: EntryType, amount: Int, before: Int, after: Int, reverses: Nat]

TillsInit ==
  /\ cash = [t \in Till |-> 0]
  /\ history = [t \in Till |-> << >>]

(***************************************************************************)
(* The rule each type of movement obeys at the moment it takes effect.     *)
(***************************************************************************)
Allowed(t, e) ==
  \/ e.type = "MANUAL_INCOME"    /\ e.amount > 0
  \/ e.type \in {"ADMIN_ADJUSTMENT", "SYNC"} /\ e.amount # 0
  \/ e.type = "INITIAL_BALANCE"  /\ e.amount >= 0 /\ history[t] = << >>
  \/ e.type = "WITHDRAWAL"       /\ e.amount < 0 /\ e.after >= 0
  \/ /\ e.type = "REVERSAL"
     /\ e.reverses \in 1..Len(history[t])
     /\ history[t][e.reverses].type # "REVERSAL"
     /\ e.amount = -history[t][e.reverses].amount

(***************************************************************************)
(* One movement, which may be any entry that the rules allow.              *)
(***************************************************************************)
Post(t) ==
  LET e == history'[t][Len(history'[t])] IN
    /\ Len(history'[t]) = Len(history[t]) + 1
    /\ e \in Entry
    /\ e.before = cash[t]
    /\ e.after = cash[t] + e.amount
    /\ Allowed(t, e)
    /\ cash' = [cash EXCEPT ![t] = e.after]
    /\ history' = [history EXCEPT ![t] = Append(@, e)]

TillsNext == \E t \in Till : Post(t)

TillsSpec == TillsInit /\ [][TillsNext]_tillVars
=============================================================================
