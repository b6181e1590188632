SPECIFICATION PollFairSpec
CONSTANTS
  NoConn = NoConn
  Conns = {c1, c2}
  MaxFd = 2
  RecvMax = 1
  SendRoom = 1
  QueueMax = 2
  MaxSay = 2
  MayReset = FALSE
  Nul = {}
  StackRevents = {TRUE, FALSE}
PROPERTY EchoEventually
