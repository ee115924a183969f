SPECIFICATION WsTickSpec
CONSTANTS
  Client = {c1, c2}
  SocketFull = FALSE
  Kinds = {"http", "upgrade", "frame", "badframe"}
  MaxRequests = 2
  Pipelines = FALSE
  Shutdowns = FALSE
\* A panic stops the server.
CHECK_DEADLOCK FALSE
PROPERTIES
  EveryMessageTaken
  WsClosingEnds
