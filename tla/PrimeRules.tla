----------------------------- MODULE PrimeRules -----------------------------
(***************************************************************************)
(* The rules by which a staff member earns a prime, and the calculation of *)
(* the prime of one shift.  The owner keeps the rules on the settings page  *)
(* (prime-settings.service.ts): a commission rule per plan and bonus rules  *)
(* per revenue target, each a row that is never rewritten but switched off  *)
(* and replaced, with the instants from which and until which it is valid.  *)
(* calculateShiftPrimeSummary reads them for every massage of the shift.    *)
(*                                                                         *)
(* Amounts are in cents; one shift type; one bonus target.                  *)
(***************************************************************************)
EXTENDS Integers, FiniteSets, FiniteSetsExt

CONSTANTS
  Plan,          \* the pricing plans
  Owner,         \* the requests of the settings page that may be in flight
  Commission,    \* the commissions an owner may set: [type, value]
  Bonus,         \* the bonuses an owner may set: [target, amount]
  MaxRules,      \* bound: the commission rules ever created
  MaxBonuses,    \* bound: the bonus rules ever created
  LastInstant,   \* bound: the last instant of the clock
  None

VARIABLES
  now,           \* the clock of the server
  rules,         \* the rows of commission_rules, in the order of creation
  bonuses,       \* the rows of shift_target_bonus_rules
  creating       \* per request: the rule it is creating, or None

ruleVars == <<rules, bonuses, creating>>

Instant == 0 .. LastInstant
Forever == LastInstant + 1        \* a null validTo

RuleRow == [plan: Plan, is: Commission, active: BOOLEAN,
            from: Instant, to: Instant \cup {Forever}]
BonusRow == [is: Bonus, active: BOOLEAN,
             from: Instant, to: Instant \cup {Forever}]

\* A rule being created: the rows to switch off first, and the row to insert.
Draft == [table: {"rules"}, sealing: SUBSET Nat, row: RuleRow]
           \cup [table: {"bonuses"}, sealing: SUBSET Nat, row: BonusRow]

-----------------------------------------------------------------------------
(* prime-settings.service.ts *)

SwitchedOff(row, at) == [row EXCEPT !.active = FALSE, !.to = at]

SealAll(table, which, at) ==
  [i \in DOMAIN table |-> IF i \in which THEN SwitchedOff(table[i], at) ELSE table[i]]

Added(table, row) ==
  [i \in 1 .. Cardinality(DOMAIN table) + 1 |->
     IF i \in DOMAIN table THEN table[i] ELSE row]

ActiveRules(plan) == {i \in DOMAIN rules : rules[i].active /\ rules[i].plan = plan}
ActiveBonuses(target) == {i \in DOMAIN bonuses : bonuses[i].active /\ bonuses[i].is.target = target}

Room(table, bound) == Cardinality(DOMAIN table) < bound

Creating(o, draft) ==
  /\ creating[o] = None
  /\ creating' = [creating EXCEPT ![o] = draft]
  /\ UNCHANGED <<rules, bonuses>>

\* createCommissionRule, its query: an active rule replaces those of its plan.
BeginRule(o, plan, c, on) ==
  /\ Room(rules, MaxRules)
  /\ Creating(o, [table |-> "rules", sealing |-> IF on THEN ActiveRules(plan) ELSE {},
                  row |-> [plan |-> plan, is |-> c, active |-> on, from |-> now, to |-> Forever]])

\* createTargetBonusRule, its query: it replaces those with the same target.
BeginBonus(o, b, on) ==
  /\ Room(bonuses, MaxBonuses)
  /\ Creating(o, [table |-> "bonuses", sealing |-> IF on THEN ActiveBonuses(b.target) ELSE {},
                  row |-> [is |-> b, active |-> on, from |-> now, to |-> Forever]])

\* The rows that were found are switched off, whatever they are by now...
SealFound(o) ==
  LET d == creating[o] IN
  /\ d # None
  /\ d.sealing # {}
  /\ rules' = IF d.table = "rules" THEN SealAll(rules, d.sealing, d.row.from) ELSE rules
  /\ bonuses' = IF d.table = "bonuses" THEN SealAll(bonuses, d.sealing, d.row.from) ELSE bonuses
  /\ creating' = [creating EXCEPT ![o].sealing = {}]

\* ...and then the new one is inserted: three statements, no transaction.
InsertRow(o) ==
  LET d == creating[o] IN
  /\ d # None
  /\ d.sealing = {}
  /\ IF d.table = "rules" THEN Room(rules, MaxRules) ELSE Room(bonuses, MaxBonuses)
  /\ rules' = IF d.table = "rules" THEN Added(rules, d.row) ELSE rules
  /\ bonuses' = IF d.table = "bonuses" THEN Added(bonuses, d.row) ELSE bonuses
  /\ creating' = [creating EXCEPT ![o] = None]

\* patchCommissionRule with nothing but isActive: the window of a rule that
\* is switched on again stays sealed.
SwitchRule(i, on) ==
  /\ rules' = [rules EXCEPT ![i] =
                 IF ~on /\ @.active THEN SwitchedOff(@, now) ELSE [@ EXCEPT !.active = on]]
  /\ UNCHANGED <<bonuses, creating>>

\* patchCommissionRule with a new type or value: one transaction that
\* switches the rule off and inserts the next version, active unless the
\* request, or the old version, says otherwise.
ReplaceRule(i, c, on) ==
  /\ Room(rules, MaxRules)
  /\ rules' = Added(SealAll(rules, {i}, now),
                    [plan |-> rules[i].plan, is |-> c, active |-> on,
                     from |-> now, to |-> Forever])
  /\ UNCHANGED <<bonuses, creating>>

\* patchTargetBonusRule.
SwitchBonus(i, on) ==
  /\ bonuses' = [bonuses EXCEPT ![i] =
                   IF ~on /\ @.active THEN SwitchedOff(@, now) ELSE [@ EXCEPT !.active = on]]
  /\ UNCHANGED <<rules, creating>>

ReplaceBonus(i, b, on) ==
  /\ Room(bonuses, MaxBonuses)
  /\ bonuses' = Added(SealAll(bonuses, {i}, now),
                      [is |-> b, active |-> on, from |-> now, to |-> Forever])
  /\ UNCHANGED <<rules, creating>>

-----------------------------------------------------------------------------
(* prime-calculation.service.ts *)

\* A massage as the calculation sees it: expected and corrected are None when
\* the columns are null, plan is None when no plan matched; no is its identity.
resolveFinalAmount(m) ==
  IF m.corrected # None THEN m.corrected
  ELSE IF m.expected # None THEN m.expected ELSE 0

isEligibleForCommission(m) ==
  /\ resolveFinalAmount(m) > 0
  /\ m.plan # None
  /\ m.anomaly # "TOO_SHORT"
  /\ \/ m.billing \in {"CALCULATED", "CORRECTED"}
     \/ m.billing = "PENDING" /\ m.anomaly = "TOO_LONG"

ValidAt(row, t) == row.active /\ row.from <= t /\ t < row.to

Candidates(plan, t) == {i \in DOMAIN rules : rules[i].plan = plan /\ ValidAt(rules[i], t)}

\* The newest valid rule; of two created at one instant the sort keeps the first.
findValidRule(plan, t) ==
  CHOOSE i \in Candidates(plan, t) :
    \A j \in Candidates(plan, t) :
      rules[j].from < rules[i].from \/ (rules[j].from = rules[i].from /\ i <= j)

applyCommissionRule(c, amount) ==
  IF c.type = "PERCENTAGE" THEN (amount * c.value + 50) \div 100 ELSE c.value

CommissionOf(m) ==
  IF isEligibleForCommission(m) /\ Candidates(m.plan, m.start) # {}
  THEN applyCommissionRule(rules[findValidRule(m.plan, m.start)].is, resolveFinalAmount(m))
  ELSE 0

GrossRevenue(massages) == MapThenSumSet(resolveFinalAmount, massages)

\* Of the bonus rules valid when the shift opened, the highest target reached.
TargetBonus(opened, gross) ==
  LET reached == {i \in DOMAIN bonuses :
                    ValidAt(bonuses[i], opened) /\ bonuses[i].is.target <= gross}
  IN  IF reached = {} THEN {0}
      ELSE {bonuses[i].is.amount : i \in {j \in reached :
              \A k \in reached : bonuses[k].is.target <= bonuses[j].is.target}}

\* calculateShiftPrimeSummary: the totals it may return (findFirst leaves open
\* which of two bonus rules with one target it takes).
calculateShiftPrimeSummary(massages, opened, manual) ==
  LET gross == GrossRevenue(massages)
  IN  {[gross |-> gross,
        prime |-> MapThenSumSet(CommissionOf, massages) + b + manual] :
         b \in TargetBonus(opened, gross)}
=============================================================================
