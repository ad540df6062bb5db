------------------------- MODULE MCIncidentPlatform -------------------------
\* A small instance of IncidentPlatform for TLC: incidents that nobody needs to
\* acknowledge, announced in one room that repeats what is firing.
EXTENDS IncidentPlatform

MCPlainBodies ==
  {[key |-> key, isResolved |-> FALSE, needsAck |-> FALSE, escalates |-> FALSE] :
     key \in Key}

MCNotificationChannels == <<[channel |-> "room", repeats |-> TRUE]>>
MCNoChannels == <<>>
MCChannelOf == [r \in AckReq \union ManualReq |-> "room"]
=============================================================================
