SPECIFICATION FairSpec
CONSTANTS
  Id = {i1}
  Channel = {"room", "escalation"}
  ChannelLists <- MCOneRoom
  Outcome = {"ok", "failed", "unconfirmed"}
  MaxRows = 2
  MaxFaults = 1
INVARIANTS TypeOK SendersDisjoint FirstAttemptsInOrder NoResolutionRepeated
PROPERTY EveryRowReachesItsRoom
