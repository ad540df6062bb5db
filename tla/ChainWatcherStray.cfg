SPECIFICATION Spec
CONSTANTS
  None = None
  m1 = m1
  m2 = m2
  Monitor = {m1, m2}
  Chains <- MCSafetyChains
  StartBlock = None
  MaxRestarts = 0
  MaxFailures = 1
  MaxManual = 0
  Lasting = {}
  MaxPuts = 0
INVARIANT ResolvedWhenOver
CHECK_DEADLOCK FALSE
