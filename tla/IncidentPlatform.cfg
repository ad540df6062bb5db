SPECIFICATION FairSpec
CONSTANTS
  Id = {i1}
  Channel = {"room", "escalation"}
  CreateReq = {c1}
  AckReq = {}
  ChainReq = {}
  ManualReq = {}
  ChannelOf <- MCChannelOf
  Key = {k1}
  Bodies <- MCPlainBodies
  NotificationChannels <- MCNotificationChannels
  EscalationChannels <- MCNoChannels
  Outcome = {"ok", "failed"}
  MaxRows = 2
  MaxFaults = 1
  None = None
PROPERTIES DeliveryEnvironmentKept AlertArrives FiringEndsInResolution
