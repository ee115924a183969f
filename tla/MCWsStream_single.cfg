SPECIFICATION Spec
CONSTANTS
  Roles = {"client", "server"}
  AutoReconnect = FALSE
  KeepAlive = TRUE
  SocketFull = TRUE
  Remote = {"frag", "last", "ping", "empty ping", "pong", "close", "empty close"}
  Sizes = {1, 2}
  MaxEpoch = 2
  MaxSent = 3
  MaxWritten = 2
INVARIANTS
  MessageIntegrity
  WritesInOrder
PROPERTY DialsOnRequest
