\* Two staff members, two accounts, two types of shifts, two entries.
SPECIFICATION Spec
CONSTANTS
  Staff = {s1, s2}
  Account = {u1, u2}
  ShiftType = {m, e}
  Entry = {e1, e2}
  Request = {r1, r2}
  Hours <- MCHours
  World <- EachWorld
  None = None
SYMMETRY Symmetry
INVARIANTS
  TypeOK
  AccessIsRight
  RotaDoesNotClash
CHECK_DEADLOCK FALSE
