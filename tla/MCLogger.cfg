SPECIFICATION SpecQuiet
CONSTANTS
  Threads = {t1, t2}
  Fds = {2, 3}
  Paths = {p, q}
  Files = {a, b}
  Terminal = Terminal
  LogFile = LogFile
  None = None
  Ops = {"open", "close", "fclose", "remove", "rename"}
SYMMETRY MCSymmetry
INVARIANTS
  TypeOK
  RecordsReachLog
  LogNotLeaked
  NamesTheFile
PROPERTY Transparent
CHECK_DEADLOCK FALSE
