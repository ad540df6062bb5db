-------------------------- MODULE IncidentPlatform --------------------------
(***************************************************************************)
(* The whole incident service: IncidentService, whose handlers and jobs    *)
(* write incidents and queue notifications, and NotificationService, which *)
(* delivers them, in one process that crashes as a whole.  The insert of   *)
(* the one is the Insert of the other, and a resolution written by the one *)
(* is what the repeat query of the other joins.                            *)
(***************************************************************************)
EXTENDS Integers, Sequences

CONSTANTS
  Id, Channel, CreateReq, AckReq, ChainReq, ManualReq, ChannelOf, Key,
  Bodies, NotificationChannels, EscalationChannels, Outcome, MaxRows, MaxFaults, None

VARIABLES
  notification,                                             \* shared table
  incident, req, escalationJob, autoResolveJob, overdue, stale, faults,
  status, passes, pass, retryJob, reached, deliveryFaults

incidentVars == <<incident, req, escalationJob, autoResolveJob, overdue, stale, faults>>
deliveryVars == <<status, passes, pass, retryJob, reached, deliveryFaults>>
vars == <<notification, incidentVars, deliveryVars>>

Incidents == INSTANCE IncidentService

Delivery ==
  INSTANCE NotificationService WITH
    resolved <- {i \in DOMAIN incident : incident[i].resolution # None},
    ChannelLists <- {NotificationChannels, EscalationChannels \o NotificationChannels},
    faults <- deliveryFaults

ASSUME PlatformAssumption ==
  /\ Incidents!ConstantsAssumption /\ Incidents!NoneAssumption /\ Incidents!RequestsAssumption
  /\ Delivery!OutcomeAssumption /\ Delivery!BoundsAssumption

Init == Incidents!Init /\ Delivery!Init

\* A handler or a job takes a step; if it queues rows, a pass is chained.
Handle ==
  /\ Incidents!Work
  /\ \/ notification' = notification /\ UNCHANGED deliveryVars
     \/ /\ notification' # notification
        /\ Delivery!RowsInserted
        /\ UNCHANGED deliveryFaults

Deliver == UNCHANGED incidentVars /\ Delivery!Service

Crash == Incidents!Crash /\ Delivery!Crash

Next == Handle \/ Deliver \/ Crash

Spec == Init /\ [][Next]_vars

FairSpec == Spec /\ Incidents!Fairness /\ Delivery!Fairness

-----------------------------------------------------------------------------
(***************************************************************************)
(* The delivery half sees the environment it was specified for: each step  *)
(* of a handler inserts one list of rows, resolves one incident or changes *)
(* nothing of its, and a Resolution row is inserted only for an incident   *)
(* that is resolved by then.                                               *)
(***************************************************************************)
DeliveryEnvironmentKept == Delivery!Spec

Arrived(i, type) ==
  \E k \in reached : notification[k].incident = i /\ notification[k].type = type

Exists == DOMAIN incident
Firing == {i \in Exists : incident[i].resolution = None}

(***************************************************************************)
(* The alert of every incident that is stored reaches a room, however often *)
(* the messenger fails, unless a crash or a failed call lost its row.       *)
(***************************************************************************)
AlertArrives == \A i \in Id : i \in Exists ~> Arrived(i, "Alert") \/ faults > 0

(***************************************************************************)
(* A firing incident is resolved in the end, by the 30-day policy if by     *)
(* nobody else, and the resolution reaches a room, with the same proviso.   *)
(***************************************************************************)
FiringEndsInResolution ==
  \A i \in Id : i \in Firing ~> Arrived(i, "Resolution") \/ faults > 0
=============================================================================
