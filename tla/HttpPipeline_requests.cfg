SPECIFICATION Spec
CONSTANTS
  Param = Param
  None = None
  Requests = {r1, r2}
  Traces = {t1}
  Segments <- MCSegments
  DocsSegments = {"docs", "docsets"}
  Routes <- MCRoutes
  Targets <- MCTargets
  Errors = {"InsufficientStockError"}
INVARIANTS TypeOK GaugeMatchesRequests CountersMatchAnswers LinesCarryTheirRequest
PROPERTY EveryRequestAnswered
