\* Two tills, two requests at a time, up to two movements on a till and the ones
\* in flight: lost updates, overdrafts, a double opening, racing assignments.
SPECIFICATION MCSpec
CONSTANTS
  Till = {till1, till2}
  Staff = {ana}
  Request = {r1, r2}
  Amount = {1, 2}
  Desired = {1}
  Counted = {0, 2}
  MaxMovements = 2
  NoOne = NoOne
  TwinTill = {"CASH_1", "CASH_2"}
  FirstTill = "CASH_1"
  TwinStaff = {"ana"}
  Target = {0, 1, 2}
  Prime = {0, 1, 2}
  Moment = {0, 9}
  TwinMovements = 3
  MaxWaiting = 2
  TwinWorld <- MCTwinWorld
  Part = {"service", "twin"}
SYMMETRY Symmetry
CHECK_DEADLOCK FALSE
INVARIANTS
  TillsAreSound
PROPERTIES
  ImplementsTillAccounts
  TwinKeepsAccounts
