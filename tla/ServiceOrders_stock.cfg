SPECIFICATION FairSpec
CONSTANTS
  o1 = o1
  p1 = p1
  p2 = p2
  Requests = {r1, r2}
  Existing = {o1}
  Parts = {p1, p2}
  Days = {1}
  None = None
  Past = Past
  Operations = {"open", "update", "approve", "adjust", "edit", "delete"}
  OpenLines <- MCAllLines
  Deltas <- MCDeltas
  InitialStatuses = {"AGUARDANDO_APROVACAO"}
  InitialStock <- MCInitialStock
  ExistingLines <- MCExistingLines
  ExistingNumber <- MCExistingNumber
  StockChecked = TRUE
INVARIANTS StockAccountedFor
PROPERTIES EveryRequestEnds
