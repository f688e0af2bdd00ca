SPECIFICATION Spec
CONSTANTS
  Address <- Addresses
  ErrorText <- ErrorTexts
  MaxCommands = 3
INVARIANT TypeOK
INVARIANT ReplyOnce
INVARIANT FollowsTold
INVARIANT FirstLegChecked
CHECK_DEADLOCK FALSE
