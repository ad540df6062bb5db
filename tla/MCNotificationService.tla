------------------------ MODULE MCNotificationService ------------------------
\* Small instances of NotificationService for TLC: one room, whose notifications
\* are repeated while their incident is firing.
EXTENDS NotificationService

MCOneRoom == {<<[channel |-> "room", repeats |-> TRUE]>>}
=============================================================================
