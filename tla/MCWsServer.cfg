SPECIFICATION WsSpec
CONSTANTS
  Client = {c1, c2}
  SocketFull = TRUE
  Kinds = {"http", "bad", "upgrade", "badupgrade", "frame", "badframe"}
  MaxRequests = 2
  Pipelines = FALSE
  Shutdowns = TRUE
SYMMETRY Symmetry
\* A panic stops the server.
CHECK_DEADLOCK FALSE
INVARIANTS
  OrderInv
  OneHome
  PendingAlive
  AppKnowsConns
PROPERTIES
  ShutdownForAll
  ImplementsExchange
