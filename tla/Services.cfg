CONSTANTS
  r1 = r1  r2 = r2  r3 = r3  old = old  source = source  key = key  x = x  y = y
  Requests = {r1, r2, r3}
  Old = {old}
  None = None
  Sources = {source}
  Keys = {key}
  Names = {x, y}
  MaxRetryCount = 2
  MaxClock = 3
  InitialRows <- MCInitialRows
SPECIFICATION Spec
SYMMETRY Symmetry
CHECK_DEADLOCK FALSE
INVARIANT RecordsAgree
INVARIANT InsertedWhole
PROPERTY CountsAndStatusesAreKept
PROPERTY RetriesBackOff
PROPERTY ReadStaysRead
PROPERTY ChangesAreLogged
