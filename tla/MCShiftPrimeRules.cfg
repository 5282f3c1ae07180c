\* One request at a time while the owner replaces the commission rule.
SPECIFICATION Spec
CONSTANTS
  w1 = w1
  w2 = w2
  plan = plan
  None = None
  Plan = {plan}
  Owner = {}
  Commission <- Rates
  Bonus <- FromTwenty
  MaxRules = 2
  MaxBonuses = 0
  LastInstant = 1
  Till = {t1}
  Worker = {w1}
  Profile <- OneKind
  Amount = {0}
  Manual <- Manuals
  MaxMassages = 1
  World <- RuledWorld
PROPERTY OldCommissionsStay
CHECK_DEADLOCK FALSE
