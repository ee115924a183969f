SPECIFICATION WsSpec
CONSTANTS
  Client = {c1}
  SocketFull = FALSE
  Kinds = {"upgrade"}
  MaxRequests = 1
  Pipelines = FALSE
  Shutdowns = FALSE
INVARIANT NoPanic
