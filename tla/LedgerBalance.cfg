CONSTANTS
  r1 = r1  r2 = r2  r3 = r3  m1 = m1  m2 = m2
  main = main  fee = fee  k1 = k1
  Requests = {r1, r2}
  Merchants = {m1, m2}
  Codes = {main, fee}
  EmptyKey = EmptyKey
  Keys = {k1, EmptyKey}
  None = None
  Inputs <- MCInvalidInputs
  InitialAccounts <- MCInitialAccounts
SPECIFICATION Spec
CHECK_DEADLOCK FALSE
SYMMETRY Symmetry
INVARIANT BalanceFollowsLines
