SPECIFICATION FairSpec
CONSTANTS
  c1 = c1  c2 = c2  c3 = c3  a = a  ab = ab
  NoConn = NoConn
  Conns = {c1, c2}
  MaxFd = 2
  RecvMax = 8
  SendRoom = 1
  QueueMax = 2
  Names = {a}
  Shorter <- ShorterNames
  Nested = {}
  Lengths = {0, 2}
  IntMax = 2
  HeaderCuts = {}
  Asked <- OneName
  FileBuffer = 0
  MayCut = {c1, c2}
  MayReset = {c1, c2}
  DiskMayFill = TRUE
  MaxKills = 1
  MaxEvents = 2
INVARIANTS TypeOK NoBlindRecv InterestExact
PROPERTIES ImplementsFileStore EveryClientReleased
