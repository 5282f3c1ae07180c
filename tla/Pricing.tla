------------------------------ MODULE Pricing -------------------------------
(***************************************************************************)
(* What a massage costs: the plans and the pricing rule of the settings    *)
(* page (settings.service) and the price of a measured duration            *)
(* (pricing.service).  Nothing keeps two rules from being active: the      *)
(* handler that writes the rule reads the active ones first, and two       *)
(* handlers that find none both insert.                                    *)
(*                                                                         *)
(* Durations are in minutes, prices in dirhams.                            *)
(***************************************************************************)
EXTENDS Integers, FiniteSets, FiniteSetsExt, Sequences

CONSTANTS
  Plan,          \* the pricing plans
  PlanForm,      \* what a plan may be set to: [duration, price, active]
  RuleForm,      \* what the rule may be set to: [minimum, grace, floor, policy]
  Duration,      \* the measured durations
  Editor,        \* the requests that may be editing the rule
  MaxRules,      \* bound: the pricing rules ever created
  None

ASSUME PricingAssumption ==
  /\ PlanForm \subseteq [duration: Nat, price: Nat, active: BOOLEAN]
  /\ RuleForm \subseteq
       [minimum: Nat, grace: Nat, floor: Plan \cup {None},
        policy: {"ANOMALY", "NEXT_PLAN", "EXTRA_MINUTE"}]
  /\ Duration \subseteq Nat
  /\ MaxRules \in Nat \ {0}
  /\ IsFiniteSet(Plan)
  /\ None \notin Plan

VARIABLES
  plans,     \* the rows of pricing_plans, None where there is none
  tariffs,   \* the rows of pricing_rules, in the order of creation
  upserting  \* per request: the active rules it has read, or None

pricingVars == <<plans, tariffs, upserting>>

Tariff == [is: RuleForm, active: BOOLEAN]

PricingTypeOK ==
  /\ plans \in [Plan -> PlanForm \cup {None}]
  /\ tariffs \in Seq(Tariff)
  /\ upserting \in [Editor -> (SUBSET (1 .. MaxRules)) \cup {None}]

-----------------------------------------------------------------------------
(* settings.service.ts *)

ActivePlans == {p \in Plan : plans[p] # None /\ plans[p].active}
ActiveTariffs == {t \in DOMAIN tariffs : tariffs[t].active}

\* createPricingPlan, updatePricingPlan: the massages billed keep their price.
SetPlan(p, form) ==
  /\ plans' = [plans EXCEPT ![p] = form]
  /\ UNCHANGED <<tariffs, upserting>>

\* upsertPricingRule, its first query.
ReadTariff(e) ==
  /\ upserting[e] = None
  /\ upserting' = [upserting EXCEPT ![e] = ActiveTariffs]
  /\ UNCHANGED <<plans, tariffs>>

\* upsertPricingRule, the rest: of the active rules it read all but the latest
\* are switched off and the latest is rewritten; it inserts if it read none.
WriteTariff(e, form) ==
  LET read == upserting[e] IN
  /\ read # None
  /\ IF read = {}
     THEN /\ Len(tariffs) < MaxRules
          /\ tariffs' = Append(tariffs, [is |-> form, active |-> TRUE])
     ELSE tariffs' = [t \in DOMAIN tariffs |->
                        CASE t = Max(read)               -> [tariffs[t] EXCEPT !.is = form]
                          [] t \in read \ {Max(read)}    -> [tariffs[t] EXCEPT !.active = FALSE]
                          [] OTHER                       -> tariffs[t]]
  /\ upserting' = [upserting EXCEPT ![e] = None]
  /\ UNCHANGED plans

-----------------------------------------------------------------------------
(* pricing.service.ts *)

\* The first plan of the list, sorted by duration, among those in S.
Shortest(S) == CHOOSE p \in S : \A q \in S : plans[p].duration <= plans[q].duration
Longest(S) == CHOOSE p \in S : \A q \in S : plans[q].duration <= plans[p].duration

\* The plan that covers the duration, or the minimum plan if it is longer.
Matched(rule, d) ==
  LET matched == Shortest({p \in ActivePlans : d <= plans[p].duration + rule.grace})
  IN  IF /\ rule.floor \in ActivePlans
         /\ plans[matched].duration < plans[rule.floor].duration
      THEN rule.floor ELSE matched

Fallback == [plan |-> None, amount |-> 0, billing |-> "PENDING", anomaly |-> {}]

Price(rule, d) ==
  LET covering == {p \in ActivePlans : d <= plans[p].duration + rule.grace}
      Billed(p, anomaly) ==
        [plan |-> p, amount |-> plans[p].price, billing |-> "CALCULATED", anomaly |-> anomaly]
  IN  IF ActivePlans = {} THEN Fallback
      ELSE IF d < rule.minimum
      THEN [plan |-> None, amount |-> 0, billing |-> "PENDING", anomaly |-> {"TOO_SHORT"}]
      ELSE IF covering # {} THEN Billed(Matched(rule, d), {})
      ELSE Billed(Longest(ActivePlans), IF rule.policy = "NEXT_PLAN" THEN {} ELSE {"TOO_LONG"})

\* What a massage of duration d is billed: the query takes any active rule.
Calculated(d) ==
  IF ActiveTariffs = {} THEN {Fallback}
  ELSE {Price(tariffs[t].is, d) : t \in ActiveTariffs}

\* A query that fails is answered by Fallback, too.
calculateSessionPrice(d) == Calculated(d) \cup {Fallback}

-----------------------------------------------------------------------------
\* The price list makes sense: a longer plan does not cost less.
OrderedPlans ==
  \A p, q \in ActivePlans :
    p # q => /\ plans[p].duration # plans[q].duration
             /\ plans[p].duration < plans[q].duration => plans[p].price <= plans[q].price

(***************************************************************************)
(* A longer massage never costs less, whatever the owner has done to the   *)
(* plans, to the grace, to the minimum plan (even one that is switched off *)
(* since) and to the overtime policy, as long as the list of plans is      *)
(* ordered, one rule is active and no query fails (pricing.service.ts,     *)
(* calculateSessionPrice without its catch).                               *)
(***************************************************************************)
LongerNeverCheaper ==
  OrderedPlans /\ Cardinality(ActiveTariffs) = 1 =>
    \A d, e \in Duration :
      d <= e => \A a \in Calculated(d), b \in Calculated(e) : a.amount <= b.amount
=============================================================================
