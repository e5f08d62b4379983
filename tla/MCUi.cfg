SPECIFICATION Spec
CONSTANTS
  None = None
  Conns = {2, 3}
  PidOf <- MCPidOf
  MaxHistory = 2
  MinRows = 1
  Heights = {19}
INVARIANT SelectionShown
PROPERTY NothingLost
PROPERTY PidOrderFixed
PROPERTY RowsFollow
CHECK_DEADLOCK FALSE
