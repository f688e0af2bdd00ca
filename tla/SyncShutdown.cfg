SPECIFICATION Spec
CONSTANTS
  Thread = {t1, t2, t3}
  Main = main
  SlotRange = {1}
  Host = {11, 12}
  PoolSize = 1
  None = None
  MaxCommands = 1
  JoinFirst = FALSE
  Faults = {"disconnect", "connect", "clusterdown", "asking"}
SYMMETRY Symmetry
INVARIANT NoLostWakeup
INVARIANT DeletedPoolUnused
CHECK_DEADLOCK FALSE
PROPERTY ImplementsConnectionPool
