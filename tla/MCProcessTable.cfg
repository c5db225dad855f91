SPECIFICATION Spec
CONSTANTS
  MaxPid = 3
  NFrames = 4
  Contexts = {c1, c2}
  None = None
INVARIANT Checked
INVARIANT NoViolation
CHECK_DEADLOCK FALSE
