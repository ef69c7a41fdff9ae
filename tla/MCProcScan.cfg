SPECIFICATION Spec
CONSTANTS
  Pids = {1, 2}
  FdName <- MCFdName
  Files <- MCFiles
  Nothing = Nothing
  Births <- MCBirths
  MaxChanges = 3
  Kind <- MCKind
  Filters <- MCFilters
  Denied = Denied
  home = home
  log = log
INVARIANTS
  RecInv
  RecordsTrue
  LinksOrNothing
  UntouchedListed
  KeptListed
PROPERTY DirsClosed
CHECK_DEADLOCK FALSE
