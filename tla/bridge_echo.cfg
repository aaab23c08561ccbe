SPECIFICATION Spec
CONSTANTS
  Parts = {"bridge"}
  Thread = {t1, t2}
  Worker = w
  Site = {s1}
  Span = {p1, p2}
  Value = {v1, v2}
  Modes <- EchoModes
  RefreshCount = 1
  PromoteCap = 1
  MaxHops = 1
  MaxEntered = 2
  Runner = {t1, t2}
  Call = {c1, c2}
  Boot = {b1, b2}
  Plan <- MCPlan
  Text <- MCText
  Environment <- MCEnvironment
  MaxReloads = 2
INVARIANT LoopBroken
CHECK_DEADLOCK FALSE
