SPECIFICATION SelectSpec
CONSTANTS
  NoConn = NoConn
  Conns = {c1, c2, c3}
  MaxFd = 3
  RecvMax = 2
  SendRoom = 1
  QueueMax = 2
  MaxSay = 2
  MayReset = TRUE
  Nul = {2}
  MaxClients = 2
SYMMETRY ConnSymmetry
INVARIANTS SelectTypeOK NoBlindRead SlotsDistinct EchoedUpToNul
