SPECIFICATION FairSpec
CONSTANTS
  Threads = {t1, t2, t3}
  READER = READER
  CLOSER = CLOSER
  NULL = NULL
  NONE = NONE
INVARIANTS
  TypeOK
  ReplyIsOwn
  RepliesMatchWaiters
  SleepersAreQueued
PROPERTIES
  CommandReturns
  CloseReturns
CHECK_DEADLOCK FALSE
