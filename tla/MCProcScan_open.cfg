SPECIFICATION Spec
CONSTANTS
  Pids = {1, 2}
  FdName <- MCFdName
  Files <- MCFiles
  Nothing = Nothing
  Births <- MCBirths
  MaxChanges = 1
  Kind <- MCKind
  Filters <- MCFilters
  Denied = Denied
  home = home
  log = log
INVARIANT OpenFilesListed
CHECK_DEADLOCK FALSE
