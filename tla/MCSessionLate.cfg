SPECIFICATION SessionSpec
CONSTANTS
  Threads = {t1, t2}
  Size = 1
  Addr = {a1}
  AVAILABLE = AVAILABLE
  ERROR = ERROR
  NONE = NONE
INVARIANTS
  OneThreadPerConn
CHECK_DEADLOCK FALSE
