CONSTANTS
  Conns = {c1}
  Menu <- FramingMenu
  MaxSent = 3
  MaxClients = 1
  HeaderSize = 2
  Capacity = 6
  Chunk = 4
  TxWindow = 2
  Signals = {"CHLD", "TERM"}
  MaxChildren = 2
  Faults = {"wait", "ctl", "accept"}
  Fds = {5}
  ListenerFd = 3
  SignalFd = 4
  NoFd = 0
  NoConn = none
SPECIFICATION Spec
INVARIANTS TypeOK RxBounded AnswersInOrder OverflowOnlyWhenPipelining HalfCloseServesOneRead NoForgottenZombie
PROPERTY ImplementsService
