CONSTANTS
  Conns = {c1, c2, c3}
  Menu <- SharingMenu
  MaxSent = 1
  MaxClients = 2
  HeaderSize = 1
  Capacity = 2
  Chunk = 2
  TxWindow = 1
  Signals = {}
  MaxChildren = 0
  Faults = {"wait", "ctl", "accept"}
  MainFaults = {"boot", "reboot"}
  Mounts = 1
  Fds = {5, 6}
  ListenerFd = 3
  SignalFd = 4
  NoFd = 0
  NoConn = none
SPECIFICATION DaemonSpec
INVARIANTS DescriptorsAccounted EventsFresh
PROPERTIES ClosedStaysQuiet NoPanicInService
SYMMETRY ConnSymmetry
