SPECIFICATION FairSpec
CONSTANTS
  Threads = {t1, t2, t3}
  Size = 2
  Addr = {a1, a2}
  AVAILABLE = AVAILABLE
  ERROR = ERROR
  NONE = NONE
INVARIANTS
  TypeOK
  Exclusive
  ReleaseFreesOwnSlot
  NoDanglingUse
  NoLostWakeup
  NothingLeftOpen
PROPERTIES
  ErrorIsForever
  ImplementsLease
  UsableSlotIsTaken
CHECK_DEADLOCK FALSE
