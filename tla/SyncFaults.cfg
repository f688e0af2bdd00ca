SPECIFICATION Spec
CONSTANTS
  Thread = {t1, t2, t3}
  Main = main
  SlotRange = {1}
  Host = {11, 12}
  PoolSize = 2
  None = None
  MaxCommands = 1
  JoinFirst = TRUE
  Faults = {"disconnect", "connect", "clusterdown", "asking"}
SYMMETRY Symmetry
INVARIANT TypeOK
INVARIANT ConnectionExclusive
INVARIANT HomePool
INVARIANT OwnReply
INVARIANT AskingPaired
INVARIANT NoHoldAndWait
INVARIANT NoLostWakeup
INVARIANT SlotQueuesHealthy
CHECK_DEADLOCK FALSE
PROPERTY ImplementsConnectionPool
