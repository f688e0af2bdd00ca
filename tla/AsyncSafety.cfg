SPECIFICATION Spec
CONSTANTS
  Cmd = {c1, c2, c3}
  SlotRange = {r1, r2}
  Host = {h1, h2}
  None = None
  MaxHops = 2
  Faults = {"connect", "clusterdown", "asking", "break"}
  LeaveLoop = TRUE
SYMMETRY Symmetry
CHECK_DEADLOCK FALSE
INVARIANTS
  TypeOK
  OneToken
  ContextLife
  UseAfterFreeCause
  RedirectionFollowed
  AskingReplyCause
PROPERTY ImplementsCommandService
