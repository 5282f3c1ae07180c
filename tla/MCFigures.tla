------------------------------ MODULE MCFigures -----------------------------
(***************************************************************************)
(* Instances of MassagePages: the figures the pages show and the changes    *)
(* they ask for.  They share no state, so a behaviour is one of the one or  *)
(* of the other, and part says which.                                       *)
(***************************************************************************)
EXTENDS MassagePages

CONSTANTS c1, c2, s1, s2, w1, w2, p1, p2

VARIABLE part

pagesVars == <<pagesWorld, session, plan, filed, assistant, reviewer, order>>

-----------------------------------------------------------------------------
(***************************************************************************)
(* Worlds for Figures: days of two hours, weeks of two days, a month of one *)
(* day and one of two.  The first shift spans a midnight of the shop.       *)
(***************************************************************************)
MCShiftAt == [t \in 0 .. 5 |-> CASE t \in {3, 4} -> s1 [] t = 5 -> s2 [] OTHER -> None]
MCShiftStaff == s1 :> w1 @@ s2 :> w2
MCManualBonus == s1 :> 0 @@ s2 :> 3
MCMonths == <<1, 2>>

Tenth == [type |-> "PERCENTAGE", value |-> 10]
Five == [type |-> "FIXED_AMOUNT", value |-> 5]
Low == [target |-> 30, amount |-> 7]
Low8 == [target |-> 30, amount |-> 8]
High == [target |-> 60, amount |-> 9]
Always(fields) == fields @@ [active |-> TRUE, from |-> 0, to |-> 6]
MCFirstRules == <<Always([plan |-> p1, is |-> Tenth]), Always([plan |-> p2, is |-> Five])>>
MCFirstBonuses == <<Always([is |-> Low]), Always([is |-> High])>>
MCCommission == {Tenth, Five}
MCBonus == {Low, Low8, High}

Plan1(on) == [duration |-> 10, price |-> 20, active |-> on]
Plan2(on) == [duration |-> 20, price |-> 30, active |-> on]
Cheap == [duration |-> 15, price |-> 20, active |-> TRUE]
MCPlanForm == {Plan1(TRUE), Plan1(FALSE), Plan2(TRUE), Plan2(FALSE), Cheap}
Rule(floor, policy) == [minimum |-> 3, grace |-> 2, floor |-> floor, policy |-> policy]
MCRuleForm ==
  {Rule(p1, "ANOMALY"), Rule(p2, "ANOMALY"), Rule(None, "NEXT_PLAN"), Rule(p2, "EXTRA_MINUTE")}

Listed == p1 :> Plan1(TRUE) @@ p2 :> Plan2(TRUE)
\* The filters of the home page: the whole shop, and one changed at a time.
Whole == [preset |-> "custom", dates |-> <<0, 2>>, status |-> All, staff |-> All, shift |-> All,
        chair |-> All, window |-> All, chart |-> "year"]
MCRawFilter ==
  {Whole, [Whole EXCEPT !.staff = w1, !.chart = "day"], [Whole EXCEPT !.chair = c1, !.chart = "week"],
   [Whole EXCEPT !.shift = s1, !.chart = "month"]} \cup
  {[Whole EXCEPT !.status = status] : status \in {"ACTIVE", "PENDING", "CORRECTED", "ANOMALY"}} \cup
  {[Whole EXCEPT !.window = <<1, 2>>], [Whole EXCEPT !.dates = <<1, 0>>],
   [Whole EXCEPT !.preset = "today", !.shift = s1], [Whole EXCEPT !.preset = "yesterday"],
   [Whole EXCEPT !.preset = "month", !.chart = "month"]}
AWorld(handlers, first, sessions, many, size, filters) ==
  [handlers |-> handlers, first |-> first, sessions |-> sessions, edits |-> many,
   batch |-> size, filters |-> filters, plans |-> Listed, tariff |-> Rule(p1, "ANOMALY")]

Money == {"start", "finalize", "review", "correct", "plan", "archive"}
NoMassages == AWorld({"prices"}, 2, 0, 0, 1, {})
MCWorld ==
  {AWorld({"start", "review", "archive", "home"}, 2, 3, 2, 1,
          {Whole, [Whole EXCEPT !.status = "ACTIVE"], [Whole EXCEPT !.window = <<1, 2>>]}),
   AWorld({"start", "archive", "home", "disable"}, 3, 4, 2, 2, {Whole}),
   AWorld(Money \cup {"tick"}, 2, 1, 3, 1, MCRawFilter),
   AWorld(Money \cup {"tick", "disable"}, 2, 2, 1, 1, MCRawFilter),
   AWorld({"start", "finalize", "correct"}, 3, 2, 3, 1, MCRawFilter),
   AWorld({"start", "finalize", "tick", "commissions"}, 4, 1, 3, 1, {}),
   AWorld({"start", "finalize", "tick", "bonuses"}, 4, 1, 3, 1, {}),
   NoMassages,
   [NoMassages EXCEPT !.tariff = None]}

-----------------------------------------------------------------------------
(***************************************************************************)
(* Worlds for RequestPages: one massage that is paid with 1 or not at all,  *)
(* two plans.  Only where answers are lost there are two requests and two   *)
(* orders of the assistant's dialog.                                        *)
(***************************************************************************)
Reviews(reviewers, wanted, events) ==
  [reviewers |-> reviewers, wanted |-> wanted, events |-> events]

MCPagesWorld ==
  {Reviews({"o1"}, {}, {"reject", "lose"}), Reviews({"o1"}, {}, {"dismiss"}),
   Reviews({"o1", "o2"}, {}, {"correct"}), Reviews({"o1"}, {p2}, {"correct", "archive"}),
   Reviews({"o1"}, {p2}, {"plan"}),
   Reviews({"o1"}, {p2}, {"prices"})}

-----------------------------------------------------------------------------
MCInit ==
  /\ part \in {"figures", "pages"}
  /\ Init
  /\ Pages!Init
  /\ \A s \in Session : session[s].plan = p1
  /\ \A p \in Plan : plan[p].price = 2
  /\ part # "figures" => world = NoMassages
  /\ part # "pages" => pagesWorld = Reviews({"o1"}, {}, {"dismiss"})

FiguresDo(A) == part = "figures" /\ A /\ UNCHANGED <<part, pagesVars>>
PagesDo(A) == part = "pages" /\ A /\ UNCHANGED <<part, vars>>

MCNext ==
  \/ \E c \in enabled : FiguresDo(start(c)) \/ FiguresDo(disable(c))
  \/ \E i \in DOMAIN rows :
       \/ FiguresDo(finalize(i)) \/ FiguresDo(review(i))
       \/ FiguresDo(correct(i)) \/ FiguresDo(deleteSession(i))
       \/ \E p \in Plan : FiguresDo(changePlan(i, p))
  \/ FiguresDo(Tick)
  \/ FiguresDo(Tariffs)
  \/ FiguresDo(CommissionRules)
  \/ FiguresDo(BonusRules)
  \/ FiguresDo(RuleCreation)
  \/ \E raw \in world.filters : FiguresDo(Open(raw))
  \/ FiguresDo(NextBatch)
  \/ \E v \in Pages!Pages : PagesDo(Pages!load(v)) \/ PagesDo(Pages!onClose(v)) \/ PagesDo(Pages!close(v))
  \/ \E v \in Reviewer :
       \/ PagesDo(Pages!setReview(v)) \/ PagesDo(Pages!setConfirming(v)) \/ PagesDo(Pages!submit(v))
  \/ PagesDo(Pages!openRequest) \/ PagesDo(Pages!handleSubmit)
  \/ PagesDo(Pages!findSession) \/ PagesDo(Pages!carryOut) \/ PagesDo(Pages!handleError)
  \/ PagesDo(Pages!setDone) \/ PagesDo(Pages!setError) \/ PagesDo(Pages!giveUp)
  \/ \E s \in Session :
       \/ PagesDo(Pages!correctSession(s)) \/ PagesDo(Pages!changeSessionPlan(s))
       \/ PagesDo(Pages!deleteSession(s))
  \/ PagesDo(Pages!updatePricingPlan)

MCSpec == MCInit /\ [][MCNext]_<<part, vars, pagesVars>>

\* One dialog about to close at a time, one request unless answers are lost, and
\* the owner works on the commission of one plan.
Bounds ==
  /\ \A v \in Pages!Pages : Pages!Page(v)'.closing <= 1
  /\ "lose" \notin pagesWorld.events => Cardinality(Pages!Rows') <= 1
  /\ \A k \in DOMAIN rules' : rules'[k].plan = p1 => k = 1 /\ rules'[1] = rules[1]
  /\ \A o \in Owner : creating'[o] # None /\ creating'[o].table = "rules" =>
       creating'[o].row.plan = p2
=============================================================================
