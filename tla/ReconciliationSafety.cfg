CONSTANTS
  r1 = r1  r2 = r2  r3 = r3  ada = ada  bob = bob  ngn = ngn  usd = usd
  Requests = {r1, r2, r3}
  References = {0, 1, 2, 3, 4}
  Currencies = {ngn, usd}
  Contacts = {ada, bob}
  None = None
  Earlier = {}
  Payments <- MCPayments
  Imports <- MCImports
  Ranges <- MCRanges
SPECIFICATION Spec
CHECK_DEADLOCK FALSE
SYMMETRY Symmetry
 
 
INVARIANT RunsAreComplete
INVARIANT BestScoreWins
INVARIANT DuplicatesLostFairly
