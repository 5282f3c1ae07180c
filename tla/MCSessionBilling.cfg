\* One session, two tills between which the staff member moves, each tracked or not
\* when the session ended, in each of three worlds.
SPECIFICATION Spec
CONSTANTS
  p1 = p1
  p2 = p2
  Plan <- MCPlan
  Price <- MCPrice
  Session = {s1}
  PaidAmount = {0, 1}
  Till = {t1, t2}
  Ticket = {q1, q2}
  Worker = {w1, w2}
  None = None
  World <- EachWorld
SYMMETRY Symmetry
CHECK_DEADLOCK FALSE
ACTION_CONSTRAINT Bounds
INVARIANTS
  TypeOK
  OneCollection
  OnePendingPerSession
  AloneLedgerFollowsRow
PROPERTIES
  ImplementsSessionAccounts
  DecidedOnce
  AlonePlanChangeKeepsCollection
