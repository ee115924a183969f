SPECIFICATION Spec
CONSTANTS
  Roles = {"client"}
  AutoReconnect = TRUE
  KeepAlive = FALSE
  SocketFull = FALSE
  Remote = {"frag", "last"}
  Sizes = {1}
  MaxEpoch = 3
  MaxSent = 2
  MaxWritten = 2
INVARIANT MessageIntegrity
