CONSTANTS
  c1 = c1  c2 = c2  r1 = r1  r2 = r2
  Callers = {c1, c2}
  Replays = {r1, r2}
  Merchants = {"m1"}
  Transactions = {"t1"}
  Sources <- MCSources
  None = None
  Scenes <- MCScenes
  Operations <- MCOperations
SPECIFICATION Spec
CHECK_DEADLOCK FALSE
 
INVARIANT EventsAreInOrder
 
PROPERTY ReplaysEnd
