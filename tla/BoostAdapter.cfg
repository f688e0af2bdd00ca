SPECIFICATION Spec
CONSTANTS
  MaxCommands = 4
  MaxErrors = 2
INVARIANT TypeOK
INVARIANT OneOperation
INVARIANT Armed
INVARIANT UseAfterFreeCause
PROPERTY Served
CHECK_DEADLOCK FALSE
