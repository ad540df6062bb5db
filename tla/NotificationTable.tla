-------------------------- MODULE NotificationTable --------------------------
(***************************************************************************)
(* The columns of the notification table that are written once, by the     *)
(* insert (packages/incident/src/database/schema.ts).  IncidentService     *)
(* inserts the rows; NotificationService keeps what happens to each of     *)
(* them, in columns of its own.                                            *)
(***************************************************************************)
EXTENDS Integers, Sequences

CONSTANTS
  Id,        \* incident ids
  Channel    \* rooms a notification can be sent to

VARIABLE
  notification   \* the table, in the order of its serial primary key

NotificationType == {"Alert", "Resolution", "Escalation"}

\* One entry of a channel list; "repeats" stands for "repeatFiringMs is set".
ChannelEntry == [channel: Channel, repeats: BOOLEAN]

NotificationRow ==
  [incident: Id, channel: Channel, repeats: BOOLEAN, type: NotificationType]

Row == DOMAIN notification

\* createNotifications: one row for each channel of the list, in one insert.
RowsFor(i, channels, type) ==
  [k \in 1 .. Len(channels) |->
     [incident |-> i, channel |-> channels[k].channel,
      repeats |-> channels[k].repeats, type |-> type]]

InsertRows(i, channels, type) ==
  notification' = notification \o RowsFor(i, channels, type)
=============================================================================
