---------------------- MODULE IncidentPlatform_proofs ----------------------
(***************************************************************************)
(* Proofs about the incident service as a whole: that the handlers and     *)
(* jobs of IncidentService are the environment that NotificationService    *)
(* was specified for, and what therefore holds of the delivery in the      *)
(* whole service.                                                          *)
(***************************************************************************)
EXTENDS IncidentPlatform, TLAPS

\* What is proved of the two halves.
I == INSTANCE IncidentService_proofs
D ==
  INSTANCE NotificationService_proofs WITH
    resolved <- {i \in DOMAIN incident : incident[i].resolution # None},
    ChannelLists <- {NotificationChannels, EscalationChannels \o NotificationChannels},
    faults <- deliveryFaults

\* The bound of the environment of NotificationService, which IncidentService does
\* not have.
TableInBound == Len(notification) <= MaxRows

-----------------------------------------------------------------------------
(***************************************************************************)
(* The halves of IncidentPlatform are those the proofs are about.          *)
(***************************************************************************)
LEMMA SameAssumptions ==
  /\ I!ConstantsAssumption /\ I!NoneAssumption /\ I!RequestsAssumption
  /\ D!OutcomeAssumption /\ D!ListsAssumption /\ D!BoundsAssumption
<1>1. I!ConstantsAssumption /\ I!NoneAssumption /\ I!RequestsAssumption
  BY PlatformAssumption
     DEF Incidents!ConstantsAssumption, I!ConstantsAssumption, Incidents!NoneAssumption,
         I!NoneAssumption, Incidents!RequestsAssumption, I!RequestsAssumption,
         Incidents!Body, I!Body, Incidents!ChannelEntry, I!ChannelEntry, Incidents!Req, I!Req,
         Incidents!Resolution, I!Resolution
<1>2. D!OutcomeAssumption /\ D!BoundsAssumption
  BY PlatformAssumption
     DEF Delivery!OutcomeAssumption, Delivery!BoundsAssumption, D!OutcomeAssumption,
         D!BoundsAssumption
<1>3. D!ListsAssumption
  <2>1. NotificationChannels \in Seq(D!ChannelEntry) /\ EscalationChannels \in Seq(D!ChannelEntry)
    BY <1>1 DEF I!ConstantsAssumption, I!ChannelEntry, D!ChannelEntry
  <2> QED
    BY <2>1 DEF D!ListsAssumption
<1> QED
  BY <1>1, <1>2, <1>3

LEMMA SameInit == (Incidents!Init <=> I!Init) /\ (Delivery!Init <=> D!Init)
  BY DEF Incidents!Init, I!Init, Incidents!NoJob, I!NoJob, Incidents!Req, I!Req,
         Delivery!Init, D!Init, Delivery!Resting, D!Resting, Delivery!NoRetry, D!NoRetry

LEMMA SameCrash == Incidents!Crash <=> I!Crash
  BY DEF Incidents!Crash, I!Crash, Incidents!NoJob, I!NoJob, Incidents!Req, I!Req,
         Incidents!Done, I!Done

LEMMA SameWork == Incidents!Work <=> I!Work
  BY DEF
     Incidents!ChannelEntry, I!ChannelEntry, Incidents!NotificationType,
     I!NotificationType, Incidents!NotificationRow, I!NotificationRow,
     Incidents!Row, I!Row, Incidents!RowsFor, I!RowsFor, Incidents!InsertRows,
     I!InsertRows, Incidents!Body, I!Body, Incidents!Req, I!Req, Incidents!Exists,
     I!Exists, Incidents!IsAcked, I!IsAcked, Incidents!IsResolved, I!IsResolved,
     Incidents!Firing, I!Firing, Incidents!NoJob, I!NoJob, Incidents!Goto, I!Goto,
     Incidents!Begin, I!Begin, Incidents!Done, I!Done, Incidents!Finish, I!Finish,
     Incidents!ServiceSideVars, I!ServiceSideVars, Incidents!SameIncident,
     I!SameIncident, Incidents!CreateRead, I!CreateRead, Incidents!NewRow, I!NewRow,
     Incidents!CreateInsert, I!CreateInsert, Incidents!Announce, I!Announce,
     Incidents!HasNotification, I!HasNotification, Incidents!AckRead, I!AckRead,
     Incidents!Authorize, I!Authorize, Incidents!AckUpdate, I!AckUpdate,
     Incidents!ResolveRead, I!ResolveRead, Incidents!ResolveUpdate, I!ResolveUpdate,
     Incidents!RequestFails, I!RequestFails, Incidents!ToEscalate, I!ToEscalate,
     Incidents!EscalationTick, I!EscalationTick, Incidents!EscalateUpdate,
     I!EscalateUpdate, Incidents!EscalateNotify, I!EscalateNotify,
     Incidents!EscalationJobFails, I!EscalationJobFails, Incidents!AutoResolveTick,
     I!AutoResolveTick, Incidents!AutoResolveUpdate, I!AutoResolveUpdate,
     Incidents!AutoResolveNotify, I!AutoResolveNotify,
     Incidents!AutoResolveJobFails, I!AutoResolveJobFails, Incidents!BecomeOverdue,
     I!BecomeOverdue, Incidents!BecomeStale, I!BecomeStale, Incidents!Create,
     I!Create, Incidents!Acknowledge, I!Acknowledge, Incidents!ResolveByChain,
     I!ResolveByChain, Incidents!ResolveManually, I!ResolveManually,
     Incidents!Escalate, I!Escalate, Incidents!AutoResolve, I!AutoResolve,
     Incidents!Work, I!Work

LEMMA SameDelivery == [Delivery!Next]_Delivery!vars <=> [D!Next]_D!vars
  BY DEF
     Delivery!NotificationType, D!NotificationType, Delivery!Row, D!Row,
     Delivery!RowsFor, D!RowsFor, Delivery!InsertRows, D!InsertRows,
     Delivery!workers, D!workers, Delivery!Queued, D!Queued, Delivery!Resting,
     D!Resting, Delivery!Walking, D!Walking, Delivery!NoRetry, D!NoRetry,
     Delivery!RowsInserted, D!RowsInserted, Delivery!Insert, D!Insert,
     Delivery!Resolve, D!Resolve, Delivery!IsDue, D!IsDue, Delivery!StartPass,
     D!StartPass, Delivery!Posted, D!Posted, Delivery!PassSend, D!PassSend,
     Delivery!Record, D!Record, Delivery!PassUpdate, D!PassUpdate,
     Delivery!SettlePass, D!SettlePass, Delivery!EndPass, D!EndPass,
     Delivery!RetryTick, D!RetryTick, Delivery!IsRepeatable, D!IsRepeatable,
     Delivery!RepeatQuery, D!RepeatQuery, Delivery!RepeatSend, D!RepeatSend,
     Delivery!RepeatUpdate, D!RepeatUpdate, Delivery!EndRetryJob, D!EndRetryJob,
     Delivery!RepeatEnd, D!RepeatEnd, Delivery!Elapse, D!Elapse, Delivery!Fault,
     D!Fault, Delivery!PassFails, D!PassFails, Delivery!RetryJobFails,
     D!RetryJobFails, Delivery!DeliveryFails, D!DeliveryFails, Delivery!LoseWorkers,
     D!LoseWorkers, Delivery!Crash, D!Crash, Delivery!Deliver, D!Deliver,
     Delivery!Retry, D!Retry, Delivery!Service, D!Service, Delivery!Environment,
     D!Environment, Delivery!Next, D!Next, Delivery!vars, D!vars

-----------------------------------------------------------------------------
(***************************************************************************)
(* The handlers and jobs run as IncidentService has them: the delivery     *)
(* never writes what is theirs.                                            *)
(***************************************************************************)
LEMMA DeliveryKeepsTheRest ==
  Delivery!Service => notification' = notification
  BY DEF Delivery!Service, Delivery!Deliver, Delivery!StartPass, Delivery!PassSend,
         Delivery!PassUpdate, Delivery!EndPass, Delivery!SettlePass, Delivery!Retry,
         Delivery!RetryTick, Delivery!RepeatQuery, Delivery!RepeatSend, Delivery!RepeatUpdate,
         Delivery!RepeatEnd, Delivery!EndRetryJob, Delivery!Elapse, Delivery!DeliveryFails,
         Delivery!PassFails, Delivery!RetryJobFails

LEMMA HalfStep == [Next]_vars => [I!Next]_I!vars
<1>1. ASSUME Handle PROVE I!Next
  BY <1>1, SameWork DEF Handle, I!Next
<1>2. ASSUME Crash PROVE I!Next
  BY <1>2, SameCrash DEF Crash, I!Next
<1>3. ASSUME Deliver PROVE UNCHANGED I!vars
  BY <1>3, DeliveryKeepsTheRest DEF Deliver, incidentVars, I!vars
<1>4. ASSUME UNCHANGED vars PROVE UNCHANGED I!vars
  BY <1>4 DEF vars, incidentVars, I!vars
<1> QED
  BY <1>1, <1>2, <1>3, <1>4 DEF Next

LEMMA HalfRuns == Spec => I!Spec
<1>1. Init => I!Init
  BY SameInit DEF Init
<1> QED
  BY <1>1, HalfStep, PTL DEF Spec, I!Spec

LEMMA KnowledgeHolds == Spec => []I!IInv
<1>1. I!Spec => []I!IInv
  BY SameAssumptions, I!Inductive
<1> QED
  BY <1>1, HalfRuns, PTL

\* What was proved of the incidents alone holds in the whole service: resolution rows are
\* true, an incident is escalated once, and without a fault nothing that was written is
\* left without its rows.
THEOREM IncidentsHoldInTheWhole ==
  Spec =>
    [](/\ Incidents!ResolutionsAreTrue /\ Incidents!EscalatedOnce
       /\ Incidents!NothingLostWithoutFault)
<1>1. I!Spec => []I!ResolutionsAreTrue
  BY SameAssumptions, I!ResolutionsAreAlwaysTrue
<1>2. I!Spec => []I!EscalatedOnce
  BY SameAssumptions, I!EscalationIsOnce
<1>3. I!Spec => []I!NothingLostWithoutFault
  BY SameAssumptions, I!NothingIsLostWithoutFault
<1>4. /\ I!ResolutionsAreTrue => Incidents!ResolutionsAreTrue
      /\ I!EscalatedOnce => Incidents!EscalatedOnce
      /\ I!NothingLostWithoutFault => Incidents!NothingLostWithoutFault
  BY DEF I!ResolutionsAreTrue, Incidents!ResolutionsAreTrue, I!EscalatedOnce,
         Incidents!EscalatedOnce, I!NothingLostWithoutFault, Incidents!NothingLostWithoutFault,
         I!Row, Incidents!Row, I!IsResolved, Incidents!IsResolved, I!Exists, Incidents!Exists,
         I!Announced, Incidents!Announced, I!Announcing, Incidents!Announcing
<1> QED
  BY <1>1, <1>2, <1>3, <1>4, HalfRuns, PTL

-----------------------------------------------------------------------------
(***************************************************************************)
(* And the delivery takes a step of its specification whenever the service *)
(* takes one.                                                              *)
(***************************************************************************)
ResolvedIds == {i \in DOMAIN incident : incident[i].resolution # None}

LEMMA HandleIsEnvironment ==
  ASSUME I!IInv, Handle, TableInBound'
  PROVE  [Delivery!Next]_Delivery!vars
<1>1. I!Resolved = ResolvedIds /\ I!Resolved' = ResolvedIds'
  BY DEF I!Resolved, I!Exists, I!IsResolved, ResolvedIds
<1>2. I!Queues \/ I!Resolves
  BY SameAssumptions, SameWork, I!WorkQueuesOrResolves DEF Handle
<1>3. CASE notification' = notification /\ UNCHANGED deliveryVars
  <2>1. CASE I!Resolves
    <3>1. CASE UNCHANGED ResolvedIds
      BY <1>3, <3>1 DEF ResolvedIds, deliveryVars, Delivery!vars, Delivery!workers
    <3>2. CASE \E i \in Id \ ResolvedIds : ResolvedIds' = ResolvedIds \union {i}
      <4>1. PICK i \in Id : Delivery!Resolve(i)
        BY <1>3, <3>2 DEF ResolvedIds, deliveryVars, Delivery!Resolve, Delivery!workers
      <4> QED
        BY <4>1 DEF Delivery!Next, Delivery!Environment
    <3> QED
      BY <1>1, <2>1, <3>1, <3>2 DEF I!Resolves
  <2>2. CASE I!Queues
    <3>1. UNCHANGED ResolvedIds
      BY <2>2 DEF I!Queues, ResolvedIds
    <3> QED
      BY <1>3, <3>1 DEF ResolvedIds, deliveryVars, Delivery!vars, Delivery!workers
  <2> QED
    BY <1>2, <2>1, <2>2
<1>4. CASE notification' # notification /\ Delivery!RowsInserted /\ UNCHANGED deliveryFaults
  <2>1. I!Queues
    BY <1>2, <1>4 DEF I!Resolves
  <2>2. PICK i \in Id, channels \in I!ChannelLists, type \in I!NotificationType :
          (type = "Resolution" => i \in I!Resolved) /\ I!InsertRows(i, channels, type)
    BY <2>1 DEF I!Queues
  <2>3. Delivery!InsertRows(i, channels, type)
    BY <2>2 DEF Delivery!InsertRows, I!InsertRows, Delivery!RowsFor, I!RowsFor
  <2>4. Delivery!Insert(i, channels, type)
    BY <1>1, <1>4, <2>1, <2>2, <2>3 DEF Delivery!Insert, I!Queues, ResolvedIds
  <2>5. Len(notification) + Len(channels) <= MaxRows
    <3>1. notification \in Seq(I!NotificationRow) /\ channels \in Seq(D!ChannelEntry)
      <4>1. notification \in Seq(I!NotificationRow)
        BY DEF I!IInv, I!TypeOK
      <4>2. I!ChannelLists \subseteq Seq(D!ChannelEntry)
        BY SameAssumptions DEF I!ChannelLists, D!ListsAssumption
      <4> QED
        BY <4>1, <4>2
    <3>2. Len(Delivery!RowsFor(i, channels, type)) = Len(channels)
      BY <3>1 DEF Delivery!RowsFor
    <3>3. Len(notification') = Len(notification) + Len(channels)
      BY <2>3, <3>1, <3>2 DEF Delivery!InsertRows, Delivery!RowsFor
    <3> QED
      BY <3>3 DEF TableInBound
  <2> QED
    BY <2>2, <2>4, <2>5 DEF Delivery!Next, Delivery!Environment, I!ChannelLists,
       I!NotificationType, Delivery!NotificationType
<1> QED
  BY <1>3, <1>4 DEF Handle

LEMMA StepImplements ==
  ASSUME I!IInv, [Next]_vars, TableInBound'
  PROVE  [Delivery!Next]_Delivery!vars
<1>1. CASE Handle
  BY <1>1, HandleIsEnvironment
<1>2. CASE Deliver
  BY <1>2 DEF Deliver, Delivery!Next
<1>3. CASE Crash
  BY <1>3 DEF Crash, Delivery!Next
<1>4. CASE UNCHANGED vars
  BY <1>4 DEF vars, incidentVars, deliveryVars, Delivery!vars, Delivery!workers
<1> QED
  BY <1>1, <1>2, <1>3, <1>4 DEF Next

\* Whatever handlers, jobs, failures and crashes do, the delivery sees the environment
\* it was specified for, as long as the table is within the bound of that
\* specification: the inserts of createNotifications, a resolution only of what is
\* resolved, and incidents that are resolved one at a time.
THEOREM DeliveryIsAsSpecified == Spec /\ []TableInBound => DeliveryEnvironmentKept
<1>1. Init => Delivery!Init
  BY DEF Init
<1>2. I!IInv /\ [Next]_vars /\ TableInBound' => [Delivery!Next]_Delivery!vars
  BY StepImplements
<1> QED
  BY <1>1, <1>2, KnowledgeHolds, PTL DEF Spec, DeliveryEnvironmentKept, Delivery!Spec

\* What was proved of the delivery alone therefore holds in the whole service: no row is
\* in the hands of two senders, first attempts are in the order of the table, and
\* no resolution is repeated.
THEOREM DeliveryHoldsInTheWhole ==
  Spec /\ []TableInBound =>
    [](Delivery!SendersDisjoint /\ Delivery!FirstAttemptsInOrder /\ Delivery!NoResolutionRepeated)
<1>1. Spec /\ []TableInBound => D!Spec
  BY DeliveryIsAsSpecified, SameInit, SameDelivery, PTL
     DEF DeliveryEnvironmentKept, Delivery!Spec, D!Spec
<1>2. D!Spec => []D!SendersDisjoint
  BY SameAssumptions, D!SendersAreDisjoint
<1>3. D!Spec => []D!FirstAttemptsInOrder
  BY SameAssumptions, D!AttemptsAreInOrder
<1>4. D!Spec => []D!NoResolutionRepeated
  BY SameAssumptions, D!ResolutionsAreNotRepeated
<1>5. /\ D!SendersDisjoint => Delivery!SendersDisjoint
      /\ D!FirstAttemptsInOrder => Delivery!FirstAttemptsInOrder
      /\ D!NoResolutionRepeated => Delivery!NoResolutionRepeated
  BY DEF D!SendersDisjoint, Delivery!SendersDisjoint, D!FirstAttemptsInOrder,
         Delivery!FirstAttemptsInOrder, D!NoResolutionRepeated, Delivery!NoResolutionRepeated,
         D!Row, Delivery!Row
<1> QED
  BY <1>1, <1>2, <1>3, <1>4, <1>5, PTL
=============================================================================
