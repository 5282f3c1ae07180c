\* One movement and two requests that reverse it at the same time.
SPECIFICATION MCSpec
CONSTANTS
  Till = {till1}
  Staff = {ana}
  Request = {r1, r2}
  Amount = {1}
  Desired = {0}
  Counted = {1}
  MaxMovements = 2
  NoOne = NoOne
  TwinTill = {"CASH_1", "CASH_2"}
  FirstTill = "CASH_1"
  TwinStaff = {"ana"}
  Target = {0, 1, 2}
  Prime = {0, 1, 2}
  Moment = {0, 9}
  TwinMovements = 3
  MaxWaiting = 2
  TwinWorld <- MCTwinWorld
  Part = {"service"}
CHECK_DEADLOCK FALSE
INVARIANTS
  ReversedOnce
