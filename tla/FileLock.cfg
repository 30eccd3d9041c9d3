SPECIFICATION Spec
CONSTANTS
  Thread = {t1, t2, t3, t4, t5}
  NoThread = NoThread
INVARIANTS
  TypeOK
  Exclusion
  IdleBetweenBatches
  ReadersJoinReaders
  NobodyStuck
PROPERTIES
  NoReaderOvertakes
  BatchEnds
  ImplementsReadersWriters
