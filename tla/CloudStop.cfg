CONSTANTS
  Requests = {u1}
  MaxClients = 2
SPECIFICATION CloudSpec
CHECK_DEADLOCK FALSE
INVARIANT DisconnectedMeansClosed
