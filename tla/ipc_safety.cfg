CONSTANTS
  Conns = {k1, k2}
  Fds = {f1, f2}
  Topics = {"t"}
  NoConn = NoConn
  NoFd = NoFd
  NoFrame = NoFrame
  MaxEvents = 2
  MaxCalls = 1
  SockCap = 1
SYMMETRY Symmetry
SPECIFICATION Spec
INVARIANTS TypeOK DescriptorsAccounted NothingInherited PollOutMatchesQueue
PROPERTIES ImplementsPubSub
CHECK_DEADLOCK FALSE
