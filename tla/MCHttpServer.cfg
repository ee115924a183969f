SPECIFICATION TickSpec
CONSTANTS
  Client = {c1, c2}
  Kinds = {"http", "bad"}
  MaxRequests = 2
  SocketFull = TRUE
INVARIANTS
  TypeOK
  ResponsesInOrder
  SolicitedOnly
  ServerInv
PROPERTIES
  ImplementsExchange
  GracefulClose
  EveryRequestTaken
  ClosingEnds
  AnswersEveryone
