SPECIFICATION Spec
CONSTANTS
  ClientCount = 4
  CLIENT_TIMEOUT_SECONDS = 2
INVARIANTS
  TypeOK
  NothingLeftBehind
  ReportsAreTrue
PROPERTIES
  SignalsAreMeant
  ServerIsStopped
CHECK_DEADLOCK FALSE
