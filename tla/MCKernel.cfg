CONSTANTS
  t1 = t1
  t2 = t2
  Timer = {t1, t2}
  K = 2
  NumEvents = 1
  StandbyMin = 3
  MinSafe = 1
  MaxSleep = 4
  Farthest = 6
  MaxInterval = 3
  MaxWork = 2
SPECIFICATION Spec
INVARIANTS
  TypeOK
  SleepsWithNothingToDo
  WakesInTime
PROPERTIES
  OverdueFires
