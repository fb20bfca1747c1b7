SPECIFICATION Spec
CONSTANTS
  o1 = o1
  p1 = p1
  p2 = p2
  Requests = {r1, r2}
  Existing = {o1}
  Parts = {p1, p2}
  Days = {1}
  None = None
  Past = Past
  Operations = {"approve"}
  OpenLines <- MCAllLines
  Deltas <- MCDeltas
  InitialStatuses = {"AGUARDANDO_APROVACAO"}
  InitialStock <- MCInitialStock
  ExistingLines <- MCExistingLines
  ExistingNumber <- MCExistingNumber
  StockChecked = FALSE
INVARIANT RefusalReturnsReserved
