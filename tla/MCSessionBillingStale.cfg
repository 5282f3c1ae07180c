\* A session that is changed while a request for it is being approved.
SPECIFICATION Spec
CONSTANTS
  p1 = p1
  p2 = p2
  Plan <- MCPlan
  Price <- MCPrice
  Session = {s1}
  PaidAmount = {1}
  Till = {t1}
  Ticket = {q1}
  Worker = {w1, w2}
  None = None
  World <- StaleWorld
CHECK_DEADLOCK FALSE
INVARIANTS
  ApprovedAsRequested
