SPECIFICATION FairSpec
CONSTANTS
  NoConn = NoConn
  StdinConn = stdin
  Conns = {stdin, c1, c2}
  MaxFd = 3
  RecvMax = 1
  SendRoom = 1
  QueueMax = 2
  MaxSay = 1
  MayReset = TRUE
  Nul = {}
  StackRevents = {FALSE}
  MaxEvents = 3
  AddMayFail = TRUE
INVARIANTS TypeOK BlocksOnlyAfterLeavers LoopWatches
PROPERTY EveryoneServed
