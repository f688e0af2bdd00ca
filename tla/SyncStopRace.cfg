SPECIFICATION Spec
CONSTANTS
  Thread = {t1, t2}
  Main = main
  SlotRange = {1}
  Host = {11}
  PoolSize = 1
  None = None
  MaxCommands = 1
  JoinFirst = FALSE
  Faults = {}
SYMMETRY Symmetry
INVARIANT NoCrash
CHECK_DEADLOCK FALSE
