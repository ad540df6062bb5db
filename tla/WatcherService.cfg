SPECIFICATION Spec
CONSTANTS
  None = None
  Tokens <- MCTokens
  Decimals <- MCDecimals
  Chain = "People"
  Directories <- MCDirectories
  Slots = 2
  MaxBlock = 3
  MaxFailures = 1
  StartBlocks = {None, 2}
  Firings = {{1, 3}}
  RebuildAfter = 1
  ExitAfter = 2
INVARIANTS TypeOK OneWatcherUnlessOvertaken NothingSkipped ToldRight
PROPERTIES BlocksSeeTheConfig EndIsReached
