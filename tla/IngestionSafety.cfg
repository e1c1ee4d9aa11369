CONSTANTS
  r1 = r1  r2 = r2  r3 = r3  m1 = m1  m2 = m2  a = a  b = b  c = c  d = d  charge = charge
  Requests = {r1, r2, r3}
  Merchants = {m1, m2}
  Names = {a, b, c, d}
  Nameless = Nameless
  EventNames = {charge}
  None = None
  Inputs <- MCInputs
  InitialSources = {m1}
  Earlier <- MCEarlier
  EarlierSettlements <- MCEarlierSettlements
SPECIFICATION Spec
CHECK_DEADLOCK FALSE
SYMMETRY Symmetry
INVARIANT InsertedOnce
INVARIANT AcknowledgedWebhooksAreRecorded
INVARIANT CompletedJobsAreComplete
PROPERTY DuplicatesChangeNothing
