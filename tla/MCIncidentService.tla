------------------------- MODULE MCIncidentService -------------------------
\* Small instances of IncidentService for TLC.
EXTENDS IncidentService

\* An ongoing incident that is escalated unless acknowledged, and a one-time
\* one (created resolved) with the same key.
Ongoing(key) ==
  [key |-> key, isResolved |-> FALSE, needsAck |-> TRUE, escalates |-> TRUE]
OneTime(key) ==
  [key |-> key, isResolved |-> TRUE, needsAck |-> TRUE, escalates |-> FALSE]

MCBodies == {Ongoing(key) : key \in Key}
MCBothBodies == MCBodies \union {OneTime(key) : key \in Key}

Room(c, repeats) == [channel |-> c, repeats |-> repeats]
MCNotificationChannels == <<Room("room", TRUE)>>
MCEscalationChannels == <<Room("escalation", FALSE)>>
MCNoChannels == <<>>

\* Of the acknowledgers one is in the room that is told first and one in that of the
\* escalations; who resolves by hand is in the first.
MCChannelOf ==
  [r \in AckReq \union ManualReq |-> IF r = "a2" THEN "escalation" ELSE "room"]

=============================================================================
