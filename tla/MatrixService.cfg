SPECIFICATION Spec
CONSTANTS
  None = None
  Incidents = {1, 2, 3}
  Rooms = {"r", "s"}
  AlertRooms <- MCAlertRooms
  EscalationRoom = "s"
  NeedsAck = {1}
  Handlers = {1, 2}
  Commands <- MCCommands
  Payloads <- MCPayloads
  MaxFound = 2
  MaxListed = 1
  MaxBytes = 3
  Note = 1
  Configs <- MCConfigs
  MaxFaults = 1
INVARIANTS RepliesAreTrue NothingIsLeftOut DevicesAreKept
PROPERTIES TheBotComesBack
