CONSTANTS
  Conns = {k1}
  Fds = {f1}
  Topics = {"t"}
  NoConn = NoConn
  NoFd = NoFd
  NoFrame = NoFrame
  MaxEvents = 1
  MaxCalls = 1
  SockCap = 2
SPECIFICATION FairSpec
PROPERTIES ReadIsDispatched
CHECK_DEADLOCK FALSE
