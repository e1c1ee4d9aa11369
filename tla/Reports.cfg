CONSTANTS
  r1 = r1  r2 = r2
  Requests = {r1, r2}
  None = None
  Now <- MCNow
  MaxChanges = 1
  Stores <- MCStores
  Operations <- MCOperations
  Arrivals <- MCArrivals
SPECIFICATION Spec
CONSTRAINT Alone
CHECK_DEADLOCK FALSE
INVARIANT RowsAreUnique
INVARIANT RiskIsWhole
 
 
 
 
 
