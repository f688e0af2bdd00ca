SPECIFICATION Spec
CONSTANTS
  Cmd = {c1, c2, c3, c4}
  Channel = {ch1, ch2}
  None = None
  MaxMessages = 1
SYMMETRY Symmetry
INVARIANT TypeOK
INVARIANT DanglingCause
INVARIANT LeakCause
INVARIANT OwnReply
CHECK_DEADLOCK FALSE
