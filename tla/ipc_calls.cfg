CONSTANTS
  Conns = {k1}
  Fds = {f1}
  Topics = {"t"}
  NoConn = NoConn
  NoFd = NoFd
  NoFrame = NoFrame
  MaxEvents = 1
  MaxCalls = 3
  SockCap = 2
SPECIFICATION FairSpec
INVARIANTS RepliesInOrder AnswerStillComing
PROPERTIES OnlyOwnAnswer OutputDrains CallsReturn
CHECK_DEADLOCK FALSE
