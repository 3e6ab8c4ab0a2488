SPECIFICATION TcpFair
CONSTANTS
  MaxConns = 2
  Budgets <- OneFailure
  BufferSize = 1
  MaxAsked = 1
CHECK_DEADLOCK FALSE
PROPERTIES
  RetriesSucceed
