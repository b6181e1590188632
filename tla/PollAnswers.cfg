SPECIFICATION FairSpec
CONSTANTS
  c1 = c1  c2 = c2  c3 = c3  a = a  ab = ab
  NoConn = NoConn
  Conns = {c1, c2}
  MaxFd = 2
  RecvMax = 8
  SendRoom = 1
  QueueMax = 2
  Names = {a}
  Shorter <- ShorterNames
  Nested = {}
  Lengths = {0, 2}
  IntMax = 2
  HeaderCuts = {}
  Asked <- EmptyToo
  FileBuffer = 2
  MayCut = {}
  MayReset = {c1, c2}
  DiskMayFill = FALSE
  MaxKills = 0
PROPERTIES ServerSurvives EveryAnswerHeard
