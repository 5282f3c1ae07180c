--------------------------- MODULE SessionAccounts ---------------------------
(***************************************************************************)
(* What the cash ledger promises of the money of one massage session, with *)
(* no transactions and no interleaving: it is collected once, into one     *)
(* till; after that the amount may be changed as often as wanted, down to  *)
(* zero and up again, and it stays in that till.                           *)
(***************************************************************************)
EXTENDS Integers

CONSTANTS Session, Till

VARIABLES
  collected,      \* [Session -> Nat], what the ledger holds for the session
  account         \* [Session -> SUBSET Till], the till it is in, or {}

accountVars == <<collected, account>>

AccountsInit ==
  /\ collected = [s \in Session |-> 0]
  /\ account = [s \in Session |-> {}]

(***************************************************************************)
(* The amount may be 0: an approval that changes the plan and the amount   *)
(* paid collects the price of the plan and takes it back at once.          *)
(***************************************************************************)
Collect(s, t) ==
  /\ account[s] = {}
  /\ collected'[s] >= 0
  /\ collected' = [collected EXCEPT ![s] = collected'[s]]
  /\ account' = [account EXCEPT ![s] = {t}]

Change(s) ==
  /\ account[s] # {}
  /\ collected'[s] >= 0
  /\ collected' = [collected EXCEPT ![s] = collected'[s]]
  /\ UNCHANGED account

AccountsNext == \E s \in Session : Change(s) \/ \E t \in Till : Collect(s, t)

AccountsSpec == AccountsInit /\ [][AccountsNext]_accountVars
=============================================================================
