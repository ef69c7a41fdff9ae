SPECIFICATION Spec
CONSTANTS
  NSIG = 2
  Handler = fun
  Regs = {rbx}
  Values = {0}
  Sites = {main, fun}
  Errors = {22}
  EINTR = 22
  EINVAL = 22
  MaxDepth = 2
  Sigactions <- MCSigactions
  Words <- MCWords
  Nowhere = Nowhere
INVARIANTS
  TypeOK
  MaskKnown
  NotReentered
  JumpLands
  ErrnoOfCall
CHECK_DEADLOCK FALSE
