CONSTANTS
  r1 = r1  r2 = r2
  Requests = {r1, r2}
  None = None
  Now <- MCNow
  MaxChanges = 1
  Slots = 1
  MaxLosses = 1
  Stores <- MCStores
  Operations <- MCOperations
  Arrivals <- MCArrivals
SPECIFICATION ConsoleSpec
CHECK_DEADLOCK FALSE
INVARIANT PostsAreAccountedFor
INVARIANT ReportsFitTheirTables
 
