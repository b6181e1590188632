SPECIFICATION FairSpec
CONSTANTS
  c1 = c1  c2 = c2  c3 = c3  a = a  ab = ab
  NoConn = NoConn
  Conns = {c1, c2, c3}
  MaxFd = 2
  RecvMax = 8
  SendRoom = 1
  QueueMax = 2
  Names = {a}
  Shorter <- ShorterNames
  Nested = {}
  Lengths = {0, 1}
  IntMax = 1
  HeaderCuts = {}
  Asked <- SmallUpload
  FileBuffer = 1
  MayCut = {}
  MayReset = {c1}
  DiskMayFill = FALSE
  MaxKills = 1
INVARIANTS TypeOK TrackedExactly NoBlindRecv
PROPERTIES ImplementsFileStore EveryClientReleased
