------------------------------- MODULE MCTills ------------------------------
(***************************************************************************)
(* Instances of Tills: the primes of MCShiftPrime and the page.  They      *)
(* share no state, so a behaviour is one of the one or of the other, and   *)
(* part says which.                                                        *)
(***************************************************************************)
EXTENDS MCShiftPrime, Tills

VARIABLE part

pageVars == <<pageWorld, book, holder, today, list, history, form, showHistory,
              historyLoading, page, dialog, busy, task, late, tally>>

-----------------------------------------------------------------------------
(***************************************************************************)
(* Worlds for the page.  One movement a page, two a request for a range of *)
(* days, and ranges of two days.                                           *)
(***************************************************************************)
Asks(from, to, type, till) ==
  [from |-> from, to |-> to, type |-> type, staff |-> None, till |-> till]

Everything == Asks(None, None, None, None)
Sold == [type |-> "SESSION_PAYMENT", amount |-> 1]
Paid == [type |-> "PRIME_DEDUCTION", amount |-> -1]
Bank == [type |-> "WITHDRAWAL", amount |-> -1]

Still == [tasks |-> {"k1"}, tills |-> {"CASH_1"}, staff |-> {None}, posted |-> {},
         orders |-> {}, amounts |-> {}, forms |-> {}, lists |-> TRUE, maxBook |-> 3,
         lastDay |-> 1, maxTroubles |-> 0, maxDialogs |-> 0]

MCPageWorld ==
  {Still,
   [Still EXCEPT !.staff = {None, "ana"}, !.posted = {Sold, Paid, Bank}, !.lastDay = 2],
   [Still EXCEPT !.tasks = {"k1", "k2"}, !.posted = {Sold}, !.orders = {"credit", "withdraw"},
                !.amounts = {1}, !.maxBook = 2, !.maxTroubles = 1, !.maxDialogs = 2],
   [Still EXCEPT !.tasks = {"k1", "k2"}, !.tills = {"CASH_1", "CASH_2"}, !.orders = {"assign"},
                !.maxTroubles = 1, !.maxDialogs = 2],
   [Still EXCEPT !.orders = {"credit"}, !.amounts = {1}, !.maxBook = 2, !.maxDialogs = 2,
                !.maxTroubles = 1, !.forms = {Everything}],
   [Still EXCEPT !.lists = FALSE, !.posted = {Sold, Bank},
                !.forms = {Asks(None, None, "SESSION_PAYMENT", "CASH_1")}],
   [Still EXCEPT !.lists = FALSE, !.posted = {Sold}, !.lastDay = 2,
                !.forms = {Asks(1, 2, None, None), Asks(None, 1, None, None)}]}

MCPageTill == {"CASH_1", "CASH_2"}
MCFirstTill == "CASH_1"
MCPageStaff == {"ana"}
MCTask == {"k1", "k2"}

-----------------------------------------------------------------------------
MCInit ==
  /\ part \in {"prime", "page"}
  /\ Init
  /\ Page!Init
  /\ part # "prime" => /\ world = Ruled /\ assigned = None /\ ~shift.tracked
                      /\ rules[1].is = Tenth
  /\ part # "page" => pageWorld = Still

PrimeDoes(A) == part = "prime" /\ A /\ UNCHANGED <<part, pageVars>>
PageDoes(A) == part = "page" /\ A /\ UNCHANGED <<part, vars>>

MCNext ==
  \/ \E w \in Worker, p \in Profile : PrimeDoes(EndMassage(w, p))
  \/ \E w \in Worker, m \in massages, a \in Amount : PrimeDoes(CorrectMassage(w, m, a))
  \/ \E m \in massages : PrimeDoes(ArchiveMassage(m))
  \/ \E w \in Worker, a \in Manual : PrimeDoes(AddBonus(w, a))
  \/ PrimeDoes(DeleteShift) \/ PrimeDoes(Tick)
  \/ \E t \in Till \cup {None} : PrimeDoes(Reassign(t))
  \/ \E o \in Owner, on \in BOOLEAN :
       \/ \E p \in Plan, c \in Commission : PrimeDoes(BeginRule(o, p, c, on) /\ OnSettingsPage)
       \/ \E b \in Bonus : PrimeDoes(BeginBonus(o, b, on) /\ OnSettingsPage)
  \/ \E o \in Owner :
       \/ PrimeDoes(SealFound(o) /\ OnSettingsPage)
       \/ PrimeDoes(InsertRow(o) /\ OnSettingsPage)
  \/ \E i \in DOMAIN rules, on \in BOOLEAN :
       \/ PrimeDoes(SwitchRule(i, on) /\ OnSettingsPage)
       \/ \E c \in Commission : PrimeDoes(ReplaceRule(i, c, on) /\ OnSettingsPage)
  \/ \E i \in DOMAIN bonuses, on \in BOOLEAN :
       \/ PrimeDoes(SwitchBonus(i, on) /\ OnSettingsPage)
       \/ \E b \in Bonus : PrimeDoes(ReplaceBonus(i, b, on) /\ OnSettingsPage)
  \/ \E w \in Worker :
       \/ PrimeDoes(Recalculate(w)) \/ PrimeDoes(CloseShift(w)) \/ PrimeDoes(Summarise(w))
       \/ PrimeDoes(SaveSummary(w)) \/ PrimeDoes(Calculate(w)) \/ PrimeDoes(Lock(w))
       \/ PrimeDoes(Post(w)) \/ PrimeDoes(CloseRow(w))
  \/ PageDoes(Page!Elsewhere) \/ PageDoes(Page!Midnight) \/ PageDoes(Page!ServeLate)
  \/ PageDoes(Page!hideHistory) \/ PageDoes(Page!setFilters)
  \/ PageDoes(Page!fillForm) \/ PageDoes(Page!chooseStaff)
  \/ PageDoes(Page!backToForm) \/ PageDoes(Page!closeModals)
  \/ \E kind \in {"credit", "withdraw", "assign"} : PageDoes(Page!openDialog(kind))
  \/ \E k \in Task :
       \/ PageDoes(Page!ServeOrder(k)) \/ PageDoes(Page!RefuseOrder(k))
       \/ PageDoes(Page!ReadAccounts(k)) \/ PageDoes(Page!listAccountsWithDayStats(k))
       \/ \E r \in Page!Reads(task[k].filters) : PageDoes(Page!ReadHistory(k, r))
       \/ PageDoes(Page!loadList(k)) \/ PageDoes(Page!loadMovements(k))
       \/ PageDoes(Page!Confirmed(k)) \/ PageDoes(Page!Refused(k))
       \/ PageDoes(Page!GiveUpOrder(k)) \/ PageDoes(Page!GiveUpList(k))
       \/ PageDoes(Page!GiveUpHistory(k))
       \/ PageDoes(Page!refreshAll(k)) \/ PageDoes(Page!openHistory(k))
       \/ PageDoes(Page!applyFilters(k)) \/ PageDoes(Page!resetFilters(k))
       \/ PageDoes(Page!turnPage(k)) \/ PageDoes(Page!submit(k))

MCSpec == MCInit /\ [][MCNext]_<<part, vars, pageVars>>
=============================================================================
