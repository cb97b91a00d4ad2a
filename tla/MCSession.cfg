SPECIFICATION FairSessionSpec
CONSTANTS
  Threads = {t1, t2}
  Size = 2
  Addr = {a1, a2}
  AVAILABLE = AVAILABLE
  ERROR = ERROR
  NONE = NONE
INVARIANTS
  SessionTypeOK
  IdleIsClean
  SuccessIsStored
  RefusedStoresNothing
  HealthyIsNotLeaked
PROPERTIES
  HealthyConnServes
CHECK_DEADLOCK FALSE
