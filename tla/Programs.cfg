SPECIFICATION SessionSpec
CONSTANTS
  c1 = c1  c2 = c2
  NoConn = NoConn
  Conns = {c1, c2}
  Kind <- PollAndEpoll
  Message = 3
  MaxFd = 2
  RecvMax = 3
  SendRoom = 3
  QueueMax = 2
  MaxSay = 3
  MayReset = TRUE
  Nul = {}
  MaxEvents = 3
  AddMayFail = FALSE
  UdpClients = {u1, u2}
  MaxCopies = 2
INVARIANTS SessionTypeOK NoBlindRead InterestExact  OneAnswer
PROPERTIES ImplementsEchoEpoll ServerSurvives ClientsEnd EchoEventually SomebodyAnswered
