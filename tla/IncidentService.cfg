SPECIFICATION Spec
CONSTANTS
  Id = {i1}
  Channel = {"room", "escalation"}
  CreateReq = {c1}
  AckReq = {"a1", "a2"}
  ChainReq = {r1}
  ManualReq = {"m1"}
  ChannelOf <- MCChannelOf
  Key = {k1}
  Bodies <- MCBodies
  NotificationChannels <- MCNotificationChannels
  EscalationChannels <- MCEscalationChannels
  MaxFaults = 2
  None = None
INVARIANTS TypeOK ResolutionsAreTrue EscalatedOnce NothingLostWithoutFault
PROPERTY ImplementsLifecycle
