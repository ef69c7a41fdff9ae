SPECIFICATION SpecCareful
CONSTANTS
  Insns <- MCInsns
  Entry = 2
  End = 9
  Orig <- MCOrig
  Succ <- MCSucc
  Exits <- MCExits
  Blocking <- MCBlocking
  Bytes <- MCBytes
  CC = CC
  Junk = Junk
  mov = mov
  jnz = jnz
  push = push
  exit = exit
  lib = lib
  MaxBreaks = 3
  SetTargets <- MCTargets
INVARIANT RunInv
PROPERTY
  Transparent
  HitIsInt3
CHECK_DEADLOCK FALSE
