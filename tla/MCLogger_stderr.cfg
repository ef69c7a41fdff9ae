SPECIFICATION Spec
CONSTANTS
  Threads = {t1, t2}
  Fds = {2, 3, 4}
  Paths = {p}
  Files = {a, b}
  Terminal = Terminal
  LogFile = LogFile
  None = None
  Ops = {"open", "tmpfile", "close", "fclose", "fread"}
INVARIANT NeverAborts
CHECK_DEADLOCK FALSE
