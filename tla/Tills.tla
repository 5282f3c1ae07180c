-------------------------------- MODULE Tills --------------------------------
(***************************************************************************)
(* What is built on the tills: the prime of a shift that is taken from     *)
(* them (ShiftPrime) and the page of the tills (TillPage), side by side.   *)
(* The prime knows the till of one staff member and the sums of one shift, *)
(* the page all tills and all movements, so that each keeps its own.       *)
(***************************************************************************)
EXTENDS ShiftPrime, Sequences

CONSTANTS
  PageTill, FirstTill, PageStaff, Task, PageSize, BatchSize, MaxRangeDays,
  PageWorld      \* the worlds of the page; see TillPage

VARIABLES
  pageWorld, book, holder, today, list, history, form, showHistory, historyLoading,
  page, dialog, busy, task, late, tally

Page == INSTANCE TillPage WITH
  world <- pageWorld, Till <- PageTill, Staff <- PageStaff, World <- PageWorld

-----------------------------------------------------------------------------
(***************************************************************************)
(* What the page sends and shows is made of numbers and of tills, staff    *)
(* members and types that the shop has; None is none of these.  What is    *)
(* posted elsewhere as a withdrawal takes money out (withdraw negates it).  *)
(***************************************************************************)
Holder == PageStaff \cup {None}
Kind == {"credit", "withdraw", "assign"}
OrderSet == [kind: Kind, till: PageTill, amount: Nat, staff: Holder]
DialogSet == [kind: Kind, till: PageTill \cup {None}, amount: Nat, staff: Holder,
              step: {"form", "confirm"}]
ListSet == [date: Nat, total: Int, rows: [PageTill -> Page!DayStats],
            holder: [PageTill -> Holder], at: Nat, quiet: BOOLEAN]

PageWorldSet ==
  [tasks: SUBSET Task, tills: SUBSET PageTill, staff: SUBSET Holder,
   posted: SUBSET [type: Page!MovementType, amount: Int], orders: SUBSET Kind,
   amounts: SUBSET Nat, forms: SUBSET Page!Filter, lists: BOOLEAN, maxBook: Nat,
   lastDay: Nat, maxTroubles: Nat, maxDialogs: Nat]

ASSUME PageAssumption ==
  /\ PageWorld \subseteq PageWorldSet
  /\ \A w \in PageWorld : \A p \in w.posted : p.type = "WITHDRAWAL" => p.amount <= 0
  /\ FirstTill \in PageTill
  /\ IsFiniteSet(PageTill) /\ IsFiniteSet(PageStaff)
  /\ PageSize \in Nat \ {0} /\ BatchSize \in Nat \ {0} /\ MaxRangeDays \in Nat \ {0}
  /\ None \notin OrderSet \cup DialogSet \cup ListSet \cup Page!HistoryPage
  /\ None \notin Nat \cup Page!MovementType \cup PageTill \cup PageStaff

-----------------------------------------------------------------------------
(***************************************************************************)
(* Each part keeps its types.                                              *)
(***************************************************************************)
PartsTypeOK == TypeOK /\ Page!TypeOK

(***************************************************************************)
(* The figures of the day shown on the page are those of the book          *)
(* (listAccountsWithDayStats, getDayStats); see TillPage.                  *)
(***************************************************************************)
DayAddsUp == Page!DayAddsUp

(***************************************************************************)
(* A dialog of the page posts its order once, whatever the owner clicks    *)
(* (submitCredit, submitWithdraw, submitAssign); see TillPage.             *)
(***************************************************************************)
OrdersCountedOnce == Page!OrdersCountedOnce

(***************************************************************************)
(* A page of the history is the part of the book that the filters ask for  *)
(* (loadMovements, listMovements); see TillPage.                           *)
(***************************************************************************)
HistoryIsThePage == Page!HistoryIsThePage
=============================================================================
