------------------------------- MODULE Ledgers -------------------------------
(***************************************************************************)
(* The two ledgers of the cash module: the transactions of the service     *)
(* (CashLedger) and the ledger in memory that its tests run instead        *)
(* (MemoryLedger).  They have no state in common.                          *)
(***************************************************************************)
EXTENDS CashLedger, FiniteSets

CONSTANTS
  TwinTill, FirstTill, TwinStaff, Target, Prime, Moment, TwinMovements, MaxWaiting,
  TwinWorld        \* as Till, ..., World of MemoryLedger; Amount, Desired and Counted
                   \* are those of CashLedger, and null is NoOne

VARIABLES test, cash, book, assigned, since, waiting

Twin == INSTANCE MemoryLedger WITH
  balance <- cash, movements <- book, holder <- assigned, tracking <- since,
  Till <- TwinTill, Staff <- TwinStaff, MaxMovements <- TwinMovements,
  World <- TwinWorld, None <- NoOne

ASSUME TwinAssumption ==
  /\ IsFiniteSet(TwinTill) /\ FirstTill \in TwinTill
  /\ NoOne \notin TwinTill \cup {"session", "shift", "receipt"}
  /\ Target \subseteq Nat /\ Prime \subseteq Nat /\ Moment \subseteq Nat
  /\ TwinMovements \in Nat
  /\ TwinWorld \subseteq Twin!Tests

-----------------------------------------------------------------------------
(***************************************************************************)
(* The ledger that the tests of the cash module run (MemoryCashLedger)     *)
(* promises what the service promises; see MemoryLedger.                   *)
(***************************************************************************)
TwinKeepsAccounts == Twin!TwinKeepsAccounts
=============================================================================
