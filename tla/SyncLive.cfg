SPECIFICATION FairSpec
CONSTANTS
  Thread = {t1, t2, t3}
  Main = main
  SlotRange = {1}
  Host = {11, 12}
  PoolSize = 1
  None = None
  MaxCommands = 1
  JoinFirst = TRUE
  Faults = {}
PROPERTY Terminates
