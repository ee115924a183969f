SPECIFICATION LiveSpec
CONSTANTS
  Thread = {t1, t2}
  Conn = {c1, c2}
  NoConn = NoConn
  IdleTime = 3
  Timeout = 1
  MaxReads = 2
  Responses = {"sized", "chunked"}
  MaxRequests = 1
INVARIANTS
  ClientInv
  Exclusive
  OwnResponse
  
PROPERTY CallsReturn
