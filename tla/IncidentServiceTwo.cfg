SPECIFICATION FairSpec
CONSTANTS
  Id = {i1, i2}
  Channel = {"room", "escalation"}
  CreateReq = {c1, c2}
  AckReq = {}
  ChainReq = {}
  ManualReq = {}
  ChannelOf <- MCChannelOf
  Key = {k1}
  Bodies <- MCBothBodies
  NotificationChannels <- MCNotificationChannels
  EscalationChannels <- MCEscalationChannels
  MaxFaults = 1
  None = None
PROPERTIES UnackedIsEscalated FiringIsResolved
