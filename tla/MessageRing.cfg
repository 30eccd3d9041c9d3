SPECIFICATION Spec
CONSTANTS
  Msg = {m1, m2, m3, bad}
  Malformed = {bad}
  Connect = {m1}
  BUFF_SIZE = 2
  QueueCapacity = 2
  IdleLimit = 5
  NULL = NULL
INVARIANTS
  TypeOK
  NoMissedWakeup
PROPERTIES
  ImplementsMessageQueue
  EventuallyHandled
  ServerEnds
CHECK_DEADLOCK FALSE
