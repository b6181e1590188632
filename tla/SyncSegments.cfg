SPECIFICATION SyncSpec
CONSTANTS
  c1 = c1  c2 = c2  c3 = c3  a = a  ab = ab
  NoConn = NoConn
  Conns = {c1, c2}
  MaxFd = 1
  RecvMax = 8
  SendRoom = 1
  QueueMax = 2
  Names = {a, ab}
  Shorter <- ShorterNames
  Nested = {ab}
  Lengths = {0, 2}
  IntMax = 2
  HeaderCuts = {1, 2, 3, 4, 5, 6}
  Asked <- TwoFiles
  FileBuffer = 2
  MayCut = {c1, c2}
  MayReset = {c1, c2}
  DiskMayFill = FALSE
  MaxKills = 1
SYMMETRY ConnSymmetry
INVARIANTS SyncTypeOK AnsweredInFull
