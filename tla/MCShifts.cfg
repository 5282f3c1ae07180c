\* One automatic check at a time, one request, one massage, from a day into the next.
SPECIFICATION FairSpec
CONSTANTS
  morning = morning
  evening = evening
  monday = monday
  mondayNight = mondayNight
  Shift = {s1, s2}
  Massage = {m1}
  Type = {morning, evening}
  Schedule = {monday, mondayNight}
  Checker = {c1}
  Handler = {h1}
  Window <- MCWindow
  Rota <- MCRota
  ShopOpen = 1
  ShopClose = 3
  MaxOpen = 2
  DaySlots = 4
  LastSlot = 4
  None = None
INVARIANTS
  TypeOK
ACTION_CONSTRAINT PeopleFirst
PROPERTIES
  ImplementsShopShifts
  AutoCloseKeepsTheEnd
  CheckKeepsCurrentShift
  OutlivedShiftsClose
  CheckSettles
