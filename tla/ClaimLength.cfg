SPECIFICATION SyncSpec
CONSTANTS
  c1 = c1  c2 = c2  c3 = c3  a = a  ab = ab
  NoConn = NoConn
  Conns = {c1, c2}
  MaxFd = 1
  RecvMax = 8
  SendRoom = 1
  QueueMax = 2
  Names = {a, ab}
  Shorter <- ShorterNames
  Nested = {}
  Lengths = {0, 2}
  IntMax = 2
  HeaderCuts = {5, 6}
  Asked <- Long
  FileBuffer = 2
  MayCut = {}
  MayReset = {}
  DiskMayFill = FALSE
  MaxKills = 0
SYMMETRY ConnSymmetry
INVARIANT LengthAwaited
