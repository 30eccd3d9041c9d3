SPECIFICATION FBSpec
CONSTANTS
  x = x
  y = y
  Thread <- MCThread
  NoThread = NoThread
  RW_BUFF_SIZE = 3
  bad = bad
  Byte <- MCByte
  Nul = Nul
  Packs <- MCPacks
  InitialFile <- MCInitialFile
  BlockSize = 2
  Request <- MCRequest
  MaxText = 3
  MaxRequests = 6
  Garbage = Garbage
  NoReply = NoReply
PROPERTY RequestsAreProcessed
CHECK_DEADLOCK FALSE
