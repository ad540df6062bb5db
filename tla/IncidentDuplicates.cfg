SPECIFICATION Spec
CONSTANTS
  Id = {i1, i2}
  Channel = {"room", "escalation"}
  CreateReq = {c1, c2}
  AckReq = {}
  ChainReq = {}
  ManualReq = {}
  ChannelOf <- MCChannelOf
  Key = {k1}
  Bodies <- MCBodies
  NotificationChannels <- MCNotificationChannels
  EscalationChannels <- MCEscalationChannels
  MaxFaults = 0
  None = None
INVARIANT OneFiringPerKey
