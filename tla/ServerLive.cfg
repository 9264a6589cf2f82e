CONSTANTS
  Conns = {c1, c2}
  Menu <- ServiceMenu
  MaxSent = 1
  MaxClients = 1
  HeaderSize = 1
  Capacity = 2
  Chunk = 2
  TxWindow = 1
  Signals = {"TERM"}
  MaxChildren = 0
  Faults = {"wait", "ctl"}
  MainFaults = {"boot", "reboot"}
  Mounts = 1
  Fds = {5}
  ListenerFd = 3
  SignalFd = 4
  NoFd = 0
  NoConn = none
SPECIFICATION FairDaemon
PROPERTIES FramesServed ShutdownPowersOff
