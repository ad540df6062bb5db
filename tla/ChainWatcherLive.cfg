SPECIFICATION FairSpec
CONSTANTS
  None = None
  m1 = m1
  m2 = m2
  Monitor = {m1}
  Chains <- MCSteady
  StartBlock = 1
  MaxRestarts = 0
  MaxFailures = 1
  MaxManual = 1
  Lasting = {m1}
  MaxPuts = 1
PROPERTIES EveryBlockIsProcessed ClosedByHandIsRealerted
CHECK_DEADLOCK FALSE
