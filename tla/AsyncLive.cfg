SPECIFICATION FairSpec
CONSTANTS
  Cmd = {c1, c2, c3}
  SlotRange = {r1, r2}
  Host = {h1, h2}
  None = None
  MaxHops = 1
  Faults = {"connect", "clusterdown", "asking"}
  LeaveLoop = FALSE
CHECK_DEADLOCK FALSE
PROPERTIES
  Answered
  DisconnectEndsLoop
