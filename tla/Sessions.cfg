SPECIFICATION Spec
CONSTANTS
  c1 = c1
  c2 = c2
  c3 = c3
  Client = {c1, c2, c3}
  Size = 2
  Capacity = 2
  RingSize = 1
  RW_BUFF_SIZE = 2
  MaxRequests <- MCMaxRequests
  MaxStarts = 2
  NULL = NULL
INVARIANTS
  TypeOK
  TableIsDense
  NothingLeftOver
  AnswersFit
  NoStrangers
  NobodyForgotten
PROPERTIES
  AnswersCome
CHECK_DEADLOCK FALSE
