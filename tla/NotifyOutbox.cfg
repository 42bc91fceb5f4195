CONSTANTS
  Mos = {m1, m2}
  Runners = {loop, task1, task2}
  Loop = loop
  Tries = 2
  NoMo = NoMo
SPECIFICATION FairSpec
INVARIANTS
  OnePoster
  RepeatsNeedALostAnswer
PROPERTIES
  ReceivedIsAnnounced
CHECK_DEADLOCK FALSE
