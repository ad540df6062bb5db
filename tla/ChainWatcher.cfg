SPECIFICATION Spec
CONSTANTS
  None = None
  m1 = m1
  m2 = m2
  Monitor = {m1, m2}
  Chains <- MCSafetyChains
  StartBlock = None
  MaxRestarts = 1
  MaxFailures = 1
  MaxManual = 0
  Lasting = {}
  MaxPuts = 0
INVARIANTS TypeOK NoReportLost AgreesUnlessStray OneAlertUnlessRestarted
CHECK_DEADLOCK FALSE
