CONSTANTS
  r1 = r1  r2 = r2  r3 = r3  ngn = ngn
  Requests = {r1, r2, r3}
  Currencies = {ngn}
  None = None
  Window = 7
  Payments <- MCPayments
  Files <- MCFiles
SPECIFICATION Spec
SYMMETRY Symmetry
CHECK_DEADLOCK FALSE
INVARIANT ReportsAreExact
INVARIANT UploadsAreIdempotent
INVARIANT ProcessedRowsAreStored
INVARIANT EntriesHaveTheirImport
