SPECIFICATION SpecDistinct
CONSTANTS
  Insns <- MCInsns
  Entry = 2
  End = 7
  Orig <- MCOrig
  Succ <- MCSucc
  Exits <- MCExits
  Blocking <- MCBlocking
  Bytes <- MCBytes
  CC = CC
  Junk = Junk
  push = push
  ret = ret
  call = call
  exit = exit
  low = low
  MaxBreaks = 2
  SetTargets <- MCInsns
PROPERTY HitIsInt3
CHECK_DEADLOCK FALSE
