SPECIFICATION Spec
CONSTANTS
  Roles = {"server"}
  AutoReconnect = FALSE
  KeepAlive = FALSE
  SocketFull = FALSE
  Remote = {"last"}
  Sizes = {1}
  MaxEpoch = 1
  MaxSent = 1
  MaxWritten = 1
INVARIANT ShutdownRefuses
