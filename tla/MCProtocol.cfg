\* Two clients, of which one waits in the backlog while the other is served.
SPECIFICATION Spec
CONSTANTS
  c1 = c1
  c2 = c2
  Clients = {c1, c2}
  NoClient = NoClient
  BACKLOG = 1
  SOCKET_BUFFER = 2
  HEADER = 2
  KEY = 1
  READ_SIZE = 2
  MAX_INSERT = 4
  FD_LIMIT = 2
  MAX_DIGITS = 1
  MaxRequests <- MCMaxRequests
  Lines <- MCLines
INVARIANTS TypeOK InStep LeftWaiting OneLateCall SentAsTyped
PROPERTIES ImplementsCalls WholeRequests SignalledStops Answered
CHECK_DEADLOCK FALSE
