SPECIFICATION ProcessSpec
CONSTANTS
  Requests <- OneTenant
  MaxConns = 4
  Queries = 2
  Faults = TRUE
INVARIANTS OneTurnPerConversation  StartupIsSafe
PROPERTIES  StartupCompletes
CHECK_DEADLOCK FALSE
