\* Polls that nobody disturbs: sessions start and end.
SPECIFICATION FairSpec
CONSTANTS
  Session = {s1, s2}
  Tick = {t1}
  Boot = Boot
  None = None
  World <- AloneWorld
PROPERTY SessionsFollowPower
