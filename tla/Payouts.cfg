SPECIFICATION Spec
CONSTANTS
  None = None
  Tokens <- MCTokens
  Decimals <- MCDecimals
  Configurations <- MCConfigurations
  RpcUrls = {"AssetHubPolkadot", "AssetHubKusama", "Polkadot"}
  Secrets = {"first", "second"}
  MatrixUrl = "url"
  Grace = 1
  HistoryDepth = 2
  Overview <- MCOverview
  FirstEra <- MCFirstEra
  LastEra <- MCLastEra
  MaxFaults = 2
INVARIANTS SuccessMeansClaimed FailureHasACause ToldWhatWasClaimed
PROPERTIES EveryPageIsClaimed
