SPECIFICATION Spec
CONSTANTS
  Parts = {"bridge", "http", "startup"}
  Thread = {t1, t2}
  Worker = w
  Site = {s1}
  Span = {p1, p2}
  Value = {v1, v2}
  Modes <- MCModes
  RefreshCount = 2
  PromoteCap = 1
  MaxHops = 1
  MaxEntered = 2
  Runner = {t1, t2}
  Call = {c1, c2}
  Boot = {b1, b2}
  Plan <- MCPlan
  Text <- MCText
  Environment <- MCEnvironment
  MaxReloads = 2
INVARIANTS LoopBrokenByTarget LateConsumerResolves SpanCorrelates TraceContinues InstalledIsSound
CHECK_DEADLOCK FALSE
