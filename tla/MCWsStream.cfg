SPECIFICATION LiveSpec
CONSTANTS
  Roles = {"client", "server"}
  AutoReconnect = TRUE
  KeepAlive = FALSE
  SocketFull = FALSE
  Remote = {"frag", "last", "ping", "bad"}
  Sizes = {0, 1}
  MaxEpoch = 3
  MaxSent = 2
  MaxWritten = 2
INVARIANTS
  StreamInv
  FramesInOrder
  MessagesInOrder
PROPERTY ShutdownSilences
PROPERTY Reconnects
