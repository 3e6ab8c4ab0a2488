SPECIFICATION TcpFair
CONSTANTS
  MaxConns = 2
  Budgets <- SmallBudgets
  BufferSize = 2
  MaxAsked = 2
CHECK_DEADLOCK FALSE
INVARIANTS
  
  SessionsAreOwned
  UnregisteredIsSilent
  NoThreadLost
PROPERTIES
  
  DeathIsShown
