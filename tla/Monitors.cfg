SPECIFICATION Spec
CONSTANTS
  None = None
  Tokens <- MCTokens
  Decimals <- MCDecimals
  ExactDigits = 1
  Worlds <- MCWorlds
  Leaves <- LeavesOf
  MaxFailures = 1
INVARIANTS ConditionsAreAlerted OpenIncidentsAreTrue HappeningsAreReported NoReportSwallowed ReplaysReportTheSame
