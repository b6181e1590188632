SPECIFICATION PollSpec
CONSTANTS
  NoConn = NoConn
  Conns = {c1, c2, c3}
  MaxFd = 2
  RecvMax = 2
  SendRoom = 1
  QueueMax = 2
  MaxSay = 2
  MayReset = TRUE
  Nul = {}
  StackRevents = {FALSE}
SYMMETRY ConnSymmetry
INVARIANTS EchoedInFull FdsExact NoBlindRead
