SPECIFICATION Spec
CONSTANTS
  o1 = o1
  p1 = p1
  p2 = p2
  Requests = {r1, r2}
  Existing = {o1}
  Parts = {p1, p2}
  Days = {1}
  None = None
  Past = Past
  Operations = {"open", "update", "approve", "adjust", "edit", "delete"}
  OpenLines <- MCAllLines
  Deltas <- MCDeltas
  InitialStatuses = {"RECEBIDA", "EM_DIAGNOSTICO", "AGUARDANDO_APROVACAO", "EM_EXECUCAO", "FINALIZADA", "ENTREGUE", "ORCAMENTO_RECUSADO"}
  InitialStock <- MCInitialStock
  ExistingLines <- MCExistingLines
  ExistingNumber <- MCExistingNumber
  StockChecked = FALSE
SYMMETRY MCSymmetry
INVARIANTS TypeOK StockAccountedFor StockCoversOrders MarksMatchStatus LocksHaveOwners
PROPERTIES StatusMovesLegally ImplementsOrderBook
