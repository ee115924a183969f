SPECIFICATION Spec
CONSTANTS
  RequestStreams <- MCRequestStreams
  ResponseStreams <- MCResponseStreams
  HeaderCap = 5
  MaxBody = 4
  MaxDigits = 2
CHECK_DEADLOCK FALSE
INVARIANTS
  ReaderInv
  MessagesWhole
  NothingHeldBack
  
