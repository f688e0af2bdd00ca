SPECIFICATION Spec
CONSTANTS
  Slot <- Slots
  NotFound = NotFound
  Key <- Keys
  NoKey = NoKey
  SlotOf <- KeySlots
  StandardSlot <- StandardSlots
  SlotRange <- Ranges
  MaxNodes = 3
  Client = {"sync", "async", "null"}
INVARIANT TypeOK
INVARIANT ReplyFreedOnce
INVARIANT OwnedByCluster
INVARIANT RoutedToOwner
INVARIANT SlotIsStandard
CHECK_DEADLOCK FALSE
