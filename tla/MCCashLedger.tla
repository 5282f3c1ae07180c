---------------------------- MODULE MCCashLedger ----------------------------
(***************************************************************************)
(* Small instances for the tills: the transactions of the service          *)
(* (CashLedger) and the ledger in memory that the tests run (MemoryLedger).*)
(* They have no state in common, so a behaviour is one of the one or one   *)
(* of the other, and part says which.                                      *)
(***************************************************************************)
EXTENDS Ledgers, TLC

CONSTANT Part     \* the parts that an instance looks at

VARIABLE part

twinVars == <<test, cash, book, assigned, since, waiting>>

-----------------------------------------------------------------------------
(***************************************************************************)
(* Tests for the ledger in memory: all that is done to a till by hand;     *)
(* sessions; the prime of a shift.                                         *)
(***************************************************************************)
Awaiting(methods) == [methods |-> methods, overlap |-> FALSE]
Overlapping(methods) == [methods |-> methods, overlap |-> TRUE]

MCTwinWorld ==
  {Overlapping({"credit", "withdraw", "adjust", "open", "reverse"}),
   Awaiting({"post", "assign", "track", "open"}), Overlapping({"post", "assign", "reverse"}),
   Awaiting({"prime", "track"}), Overlapping({"prime", "assign", "reverse"})}

-----------------------------------------------------------------------------
MCInit ==
  /\ part \in Part
  /\ Init
  /\ Twin!Init
  /\ part # "twin" => test = Awaiting({"prime", "track"})

ServiceDoes(A) == part = "service" /\ A /\ UNCHANGED <<part, twinVars>>
TwinDoes(A) == part = "twin" /\ A /\ UNCHANGED <<part, vars>>

MCNext ==
  \/ \E r \in Request :
       \/ ServiceDoes(Accept(r)) \/ ServiceDoes(lockAccount(r))
       \/ ServiceDoes(ReadFresh(r)) \/ ServiceDoes(Finish(r))
  \/ TwinDoes(Twin!syncSessionPaid) \/ TwinDoes(Twin!syncShiftPrime)
  \/ \E t \in TwinTill :
       \/ TwinDoes(Twin!credit(t)) \/ TwinDoes(Twin!withdraw(t)) \/ TwinDoes(Twin!adjust(t))
       \/ TwinDoes(Twin!setInitialBalance(t)) \/ TwinDoes(Twin!reverse(t))
       \/ TwinDoes(Twin!setCashTrackingStartedAt(t))
       \/ TwinDoes(Twin!assignStaffToCashAccount(t))
       \/ TwinDoes(Twin!post(t)) \/ TwinDoes(Twin!PostsNothing(t))

MCSpec == MCInit /\ [][MCNext]_<<part, vars, twinVars>>

Symmetry == Permutations(Till) \cup Permutations(Request) \cup Permutations(Staff)
=============================================================================
