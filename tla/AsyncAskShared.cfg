SPECIFICATION Spec
CONSTANTS
  Cmd = {c1, c2}
  SlotRange = {r1}
  Host = {h1}
  None = None
  MaxHops = 1
  Faults = {}
  LeaveLoop = FALSE
CHECK_DEADLOCK FALSE
INVARIANT AskFollowed
