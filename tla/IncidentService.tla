--------------------------- MODULE IncidentService ---------------------------
(***************************************************************************)
(* The incident service: the incident table, the four request handlers     *)
(* that write it (packages/incident/src/incident/incident.service.ts), the *)
(* escalation and auto-resolve cron jobs, and the rows they queue.  What   *)
(* delivers the rows is NotificationService; IncidentPlatform joins them.  *)
(*                                                                         *)
(* A handler is a sequence of awaited database calls, none of them in a    *)
(* transaction, so each call is a step of its own: a handler decides on    *)
(* the row it read and writes later, by id only, whatever happened to the  *)
(* row since.  The process can end between any two steps (Crash) and any   *)
(* call can throw (the Fails actions); MaxFaults bounds how often.         *)
(***************************************************************************)
EXTENDS NotificationTable

CONSTANTS
  CreateReq,             \* POST /incidents
  AckReq,                \* POST /incidents/:id/acknowledge
  ChainReq,              \* POST /incidents/:id/resolve
  ManualReq,             \* POST /incidents/:id/resolve-manual
  ChannelOf,             \* the channel an acknowledge or resolve-manual request names
  Key,                   \* idempotency keys
  Bodies,                \* bodies a create request can have
  NotificationChannels,  \* incident.notificationChannels
  EscalationChannels,    \* incident.escalationChannels
  MaxFaults,             \* bound: crashes and failed database calls
  None                   \* null

\* A create body; "escalates" stands for escalationTimeoutMs being set and
\* escalationChannels not being empty.
Body == [key: Key, isResolved: BOOLEAN, needsAck: BOOLEAN, escalates: BOOLEAN]

Req == CreateReq \union AckReq \union ChainReq \union ManualReq

\* resolutionType: who has resolved an incident.
Resolution == {"ChainService", "Manual", "AutoTimeout"}

ASSUME ConstantsAssumption ==
  /\ Bodies \subseteq Body
  /\ NotificationChannels \in Seq(ChannelEntry) /\ NotificationChannels # <<>>
  /\ EscalationChannels \in Seq(ChannelEntry)
  /\ MaxFaults \in Nat

ASSUME NoneAssumption == None \notin Id \union Channel \union Req \union Body \union Resolution

ASSUME RequestsAssumption ==
  /\ CreateReq \intersect (AckReq \union ChainReq \union ManualReq) = {}
  /\ AckReq \intersect (ChainReq \union ManualReq) = {}
  /\ ChainReq \intersect ManualReq = {}
  /\ ChannelOf \in [AckReq \union ManualReq -> Channel]

VARIABLES
  incident,        \* the incident table: a function on the ids in use
  req,             \* the requests: where each handler stands
  escalationJob,   \* the "notifications-escalations" cron job
  autoResolveJob,  \* the "auto-resolve-stale" cron job
  overdue,         \* ids older than their escalationTimeoutMs
  stale,           \* ids older than AUTO_RESOLVE_TIMEOUT_MS
  faults           \* crashes and failed database calls so far

vars == <<notification, incident, req, escalationJob, autoResolveJob,
          overdue, stale, faults>>

(***************************************************************************)
(* A row of the incident table.  isAcked, ackedBy and ackedAt are always   *)
(* written together, and so are isResolved, resolvedAt and resolutionType: *)
(* ackedBy and resolution stand for them.  A request stands for the        *)
(* username it carries: ackedBy is the request that wrote it.              *)
(***************************************************************************)
IncidentRow ==
  [body: Body, ackedBy: AckReq \union {None},
   resolution: Resolution \union {None}, isEscalated: BOOLEAN]

Exists == DOMAIN incident
IsAcked(i) == incident[i].ackedBy # None
IsResolved(i) == incident[i].resolution # None
Firing == {i \in Exists : ~IsResolved(i)}

RequestState ==
  [pc: {"idle", "insert", "authorize", "update", "notify", "done"},
   id: Id \union {None}, body: Body \union {None}]

\* A job that walks the incidents its query returned: those left, and the
\* one that is updated and not yet announced.
Job == [todo: SUBSET Id, current: Id \union {None}]
NoJob == [todo |-> {}, current |-> None]

TypeOK ==
  /\ notification \in Seq(NotificationRow)
  /\ Exists \subseteq Id
  /\ \A i \in Exists : incident[i] \in IncidentRow
  /\ incident = [i \in Exists |-> incident[i]]
  /\ req \in [Req -> RequestState]
  /\ escalationJob \in Job
  /\ autoResolveJob \in Job
  /\ overdue \subseteq Id
  /\ stale \subseteq Id
  /\ faults \in 0 .. MaxFaults

Init ==
  /\ notification = <<>>
  /\ incident = [i \in {} |-> None]
  /\ req = [r \in Req |-> [pc |-> "idle", id |-> None, body |-> None]]
  /\ escalationJob = NoJob
  /\ autoResolveJob = NoJob
  /\ overdue = {}
  /\ stale = {}
  /\ faults = 0

-----------------------------------------------------------------------------
Goto(r, pc) == req' = [req EXCEPT ![r].pc = pc]
Begin(r, pc, i) == req' = [req EXCEPT ![r].pc = pc, ![r].id = i]

\* The handler has returned or thrown.
Done == [pc |-> "done", id |-> None, body |-> None]
Finish(r) == req' = [req EXCEPT ![r] = Done]

\* What no request handler touches.
ServiceSideVars == <<escalationJob, autoResolveJob, overdue, stale, faults>>

(***************************************************************************)
(* createIncident: look for an incident with the same key and isResolved,  *)
(* and return it if there is one; otherwise insert, then notify.           *)
(***************************************************************************)
SameIncident(i, body) ==
  incident[i].body.key = body.key /\ IsResolved(i) = body.isResolved

CreateRead(r, body) ==
  /\ req[r].pc = "idle"
  /\ \/ \E i \in Exists : SameIncident(i, body) /\ Finish(r)
     \/ /\ \A i \in Exists : ~SameIncident(i, body)
        /\ req' = [req EXCEPT ![r].pc = "insert", ![r].body = body]
  /\ UNCHANGED <<notification, incident, ServiceSideVars>>

\* Mutant: the isEscalated column has no default.
NewRowWithoutDefault(body) ==
  [body |-> body, ackedBy |-> None,
   resolution |-> IF body.isResolved THEN "ChainService" ELSE None]

NewRow(body) ==
  [body |-> body, ackedBy |-> None, isEscalated |-> FALSE,
   resolution |-> IF body.isResolved THEN "ChainService" ELSE None]

CreateInsert(r, i) ==
  /\ req[r].pc = "insert"
  /\ i \notin Exists
  /\ incident' = [j \in Exists \union {i} |->
                    IF j = i THEN NewRow(req[r].body) ELSE incident[j]]
  /\ Begin(r, "notify", i)
  /\ UNCHANGED <<notification, ServiceSideVars>>

\* The last call of the three handlers that announce what they did.
Announce(r, type) ==
  /\ req[r].pc = "notify"
  /\ InsertRows(req[r].id, NotificationChannels, type)
  /\ Finish(r)
  /\ UNCHANGED <<incident, ServiceSideVars>>

-----------------------------------------------------------------------------
\* Mutant: the query without its condition on the channel.
HasAnyNotification(i, c) == \E k \in Row : notification[k].incident = i

HasNotification(i, c) ==
  \E k \in Row : notification[k].incident = i /\ notification[k].channel = c

(***************************************************************************)
(* acknowledgeIncident: read, check the channel, and write unless the row  *)
(* that was read had an acker ("done" covers that case: nothing is left to *)
(* write, and the check of the channel changes nothing).                   *)
(***************************************************************************)
AckRead(r, i) ==
  /\ req[r].pc = "idle"
  /\ IF i \in Exists /\ ~IsAcked(i) THEN Begin(r, "authorize", i) ELSE Finish(r)
  /\ UNCHANGED <<notification, incident, ServiceSideVars>>

\* The check of the channel that acknowledge and resolve-manual share.
Authorize(r) ==
  /\ req[r].pc = "authorize"
  /\ IF HasNotification(req[r].id, ChannelOf[r]) THEN Goto(r, "update") ELSE Finish(r)
  /\ UNCHANGED <<notification, incident, ServiceSideVars>>

AckUpdate(r) ==
  /\ req[r].pc = "update"
  /\ incident' = [incident EXCEPT ![req[r].id].ackedBy = r]
  /\ Finish(r)
  /\ UNCHANGED <<notification, ServiceSideVars>>

-----------------------------------------------------------------------------
(***************************************************************************)
(* resolveIncidentByChain and resolveIncidentManually: read, return if it  *)
(* is unknown or resolved, check the channel (manual only), update, notify.*)
(***************************************************************************)
ResolveRead(r, i, next) ==
  /\ req[r].pc = "idle"
  /\ IF i \in Firing THEN Begin(r, next, i) ELSE Finish(r)
  /\ UNCHANGED <<notification, incident, ServiceSideVars>>

\* Mutant: the handler returns without announcing the resolution.
ResolveUpdateSilently(r, resolution) ==
  /\ req[r].pc = "update"
  /\ incident' = [incident EXCEPT ![req[r].id].resolution = resolution]
  /\ Finish(r)
  /\ UNCHANGED <<notification, ServiceSideVars>>

ResolveUpdate(r, resolution) ==
  /\ req[r].pc = "update"
  /\ incident' = [incident EXCEPT ![req[r].id].resolution = resolution]
  /\ Goto(r, "notify")
  /\ UNCHANGED <<notification, ServiceSideVars>>

RequestFails(r) ==
  /\ req[r].pc \notin {"idle", "done"}
  /\ faults < MaxFaults
  /\ faults' = faults + 1
  /\ Finish(r)
  /\ UNCHANGED <<notification, incident, escalationJob, autoResolveJob, overdue, stale>>

-----------------------------------------------------------------------------
(***************************************************************************)
(* escalateIncidents: walk the incidents that needed an acknowledgement    *)
(* when the job queried them.  The `continue`s on the timeout and on the   *)
(* channels change nothing, so the rows they skip are left out of todo.    *)
(***************************************************************************)
\* Mutants: the query without its condition on isEscalated, or with one on
\* isResolved.
ToEscalateAgain(i) ==
  incident[i].body.needsAck /\ ~IsAcked(i) /\ incident[i].body.escalates /\ i \in overdue

ToEscalateFiring(i) == ToEscalateAgain(i) /\ ~incident[i].isEscalated /\ ~IsResolved(i)

ToEscalate(i) ==
  /\ incident[i].body.needsAck /\ ~IsAcked(i) /\ ~incident[i].isEscalated
  /\ incident[i].body.escalates /\ i \in overdue

EscalationTick ==
  /\ escalationJob = NoJob
  /\ escalationJob' = [NoJob EXCEPT !.todo = {i \in Exists : ToEscalate(i)}]
  /\ UNCHANGED <<notification, incident, req, autoResolveJob, overdue, stale, faults>>

EscalateUpdate(i) ==
  /\ i \in escalationJob.todo /\ escalationJob.current = None
  /\ incident' = [incident EXCEPT ![i].isEscalated = TRUE]
  /\ escalationJob' = [todo |-> escalationJob.todo \ {i}, current |-> i]
  /\ UNCHANGED <<notification, req, autoResolveJob, overdue, stale, faults>>

EscalateNotify ==
  /\ escalationJob.current # None
  /\ InsertRows(escalationJob.current,
                         EscalationChannels \o NotificationChannels, "Escalation")
  /\ escalationJob' = [escalationJob EXCEPT !.current = None]
  /\ UNCHANGED <<incident, req, autoResolveJob, overdue, stale, faults>>

EscalationJobFails ==
  /\ escalationJob # NoJob
  /\ faults < MaxFaults
  /\ faults' = faults + 1
  /\ escalationJob' = NoJob
  /\ UNCHANGED <<notification, incident, req, autoResolveJob, overdue, stale>>

(***************************************************************************)
(* autoResolveStaleIncidents: walk the incidents that were open and 30     *)
(* days old when the job queried them; the update is unconditional.        *)
(***************************************************************************)
\* Mutant: the query leaves out what has been escalated.
AutoResolveTickUnescalated ==
  /\ autoResolveJob = NoJob
  /\ autoResolveJob' =
       [NoJob EXCEPT !.todo = {i \in Firing \intersect stale : ~incident[i].isEscalated}]
  /\ UNCHANGED <<notification, incident, req, escalationJob, overdue, stale, faults>>

AutoResolveTick ==
  /\ autoResolveJob = NoJob
  /\ autoResolveJob' = [NoJob EXCEPT !.todo = Firing \intersect stale]
  /\ UNCHANGED <<notification, incident, req, escalationJob, overdue, stale, faults>>

\* Mutants: announced and not written, or written and not announced.
AutoResolveUnwritten(i) ==
  /\ i \in autoResolveJob.todo /\ autoResolveJob.current = None
  /\ autoResolveJob' = [todo |-> autoResolveJob.todo \ {i}, current |-> i]
  /\ UNCHANGED <<notification, incident, req, escalationJob, overdue, stale, faults>>

AutoResolveSilently(i) ==
  /\ i \in autoResolveJob.todo /\ autoResolveJob.current = None
  /\ incident' = [incident EXCEPT ![i].resolution = "AutoTimeout"]
  /\ autoResolveJob' = [autoResolveJob EXCEPT !.todo = @ \ {i}]
  /\ UNCHANGED <<notification, req, escalationJob, overdue, stale, faults>>

AutoResolveUpdate(i) ==
  /\ i \in autoResolveJob.todo /\ autoResolveJob.current = None
  /\ incident' = [incident EXCEPT ![i].resolution = "AutoTimeout"]
  /\ autoResolveJob' = [todo |-> autoResolveJob.todo \ {i}, current |-> i]
  /\ UNCHANGED <<notification, req, escalationJob, overdue, stale, faults>>

AutoResolveNotify ==
  /\ autoResolveJob.current # None
  /\ InsertRows(autoResolveJob.current, NotificationChannels, "Resolution")
  /\ autoResolveJob' = [autoResolveJob EXCEPT !.current = None]
  /\ UNCHANGED <<incident, req, escalationJob, overdue, stale, faults>>

AutoResolveJobFails ==
  /\ autoResolveJob # NoJob
  /\ faults < MaxFaults
  /\ faults' = faults + 1
  /\ autoResolveJob' = NoJob
  /\ UNCHANGED <<notification, incident, req, escalationJob, overdue, stale>>

-----------------------------------------------------------------------------
\* The clock passes createdAt + escalationTimeoutMs, or the 30 days (of an
\* incident whose age some query still looks at).
BecomeOverdue(i) ==
  /\ i \in Exists \ overdue /\ incident[i].body.escalates
  /\ overdue' = overdue \union {i}
  /\ UNCHANGED <<notification, incident, req, escalationJob, autoResolveJob, stale, faults>>

BecomeStale(i) ==
  /\ i \in Firing \ stale
  /\ stale' = stale \union {i}
  /\ UNCHANGED <<notification, incident, req, escalationJob, autoResolveJob, overdue, faults>>

\* The process ends and is started again: only the tables are left.
Crash ==
  /\ faults < MaxFaults
  /\ faults' = faults + 1
  /\ req' = [r \in Req |->
               IF req[r].pc = "idle" THEN req[r] ELSE Done]
  /\ escalationJob' = NoJob
  /\ autoResolveJob' = NoJob
  /\ UNCHANGED <<notification, incident, overdue, stale>>

-----------------------------------------------------------------------------
Create(r) ==
  \/ \E body \in Bodies : CreateRead(r, body)
  \/ \E i \in Id : CreateInsert(r, i)
  \/ Announce(r, "Alert")

Acknowledge(r) ==
  \/ \E i \in Id : AckRead(r, i)
  \/ Authorize(r)
  \/ AckUpdate(r)

ResolveByChain(r) ==
  \/ \E i \in Id : ResolveRead(r, i, "update")
  \/ ResolveUpdate(r, "ChainService")
  \/ Announce(r, "Resolution")

ResolveManually(r) ==
  \/ \E i \in Id : ResolveRead(r, i, "authorize")
  \/ Authorize(r)
  \/ ResolveUpdate(r, "Manual")
  \/ Announce(r, "Resolution")

Escalate ==
  \/ EscalationTick
  \/ \E i \in Id : EscalateUpdate(i)
  \/ EscalateNotify
  \/ EscalationJobFails

AutoResolve ==
  \/ AutoResolveTick
  \/ \E i \in Id : AutoResolveUpdate(i)
  \/ AutoResolveNotify
  \/ AutoResolveJobFails

\* What the service does while it runs.
Work ==
  \/ \E r \in CreateReq : Create(r)
  \/ \E r \in AckReq : Acknowledge(r)
  \/ \E r \in ChainReq : ResolveByChain(r)
  \/ \E r \in ManualReq : ResolveManually(r)
  \/ \E r \in Req : RequestFails(r)
  \/ Escalate
  \/ AutoResolve
  \/ \E i \in Id : BecomeOverdue(i) \/ BecomeStale(i)

Next == Work \/ Crash

Spec == Init /\ [][Next]_vars

(***************************************************************************)
(* Fairness: a handler that has begun goes on, the cron library fires each *)
(* job again after it has completed, and time passes.  Nothing makes a     *)
(* client send a request.                                                  *)
(***************************************************************************)
Begun(r) == req[r].pc # "idle"

Fairness ==
  /\ \A r \in CreateReq : WF_vars(Begun(r) /\ Create(r))
  /\ \A r \in AckReq : WF_vars(Begun(r) /\ Acknowledge(r))
  /\ \A r \in ChainReq : WF_vars(Begun(r) /\ ResolveByChain(r))
  /\ \A r \in ManualReq : WF_vars(Begun(r) /\ ResolveManually(r))
  /\ WF_vars(EscalationTick) /\ WF_vars(EscalateNotify)
  /\ WF_vars(\E i \in Id : EscalateUpdate(i))
  /\ WF_vars(AutoResolveTick) /\ WF_vars(AutoResolveNotify)
  /\ WF_vars(\E i \in Id : AutoResolveUpdate(i))
  /\ \A i \in Id : WF_vars(BecomeOverdue(i)) /\ WF_vars(BecomeStale(i))

FairSpec == Spec /\ Fairness

-----------------------------------------------------------------------------
(***************************************************************************)
(* A Resolution row is queued only for an incident the table shows as      *)
(* resolved: the three resolvers write the incident before they announce   *)
(* it, so that a crash in between loses a message and never invents one.   *)
(***************************************************************************)
ResolutionsAreTrue ==
  \A k \in Row : notification[k].type = "Resolution" =>
                   IsResolved(notification[k].incident)

(***************************************************************************)
(* An incident is escalated at most once: its Escalation rows come from    *)
(* one insert, whatever crashes, failures and ticks the job goes through.  *)
(***************************************************************************)
EscalatedOnce ==
  \A j, k \in Row :
    /\ notification[j].type = "Escalation" /\ notification[k].type = "Escalation"
    /\ notification[j].incident = notification[k].incident
    => k - j < Len(EscalationChannels) + Len(NotificationChannels)

(***************************************************************************)
(* Nothing is lost but by a fault: what the table says happened to an      *)
(* incident is announced by a row, or is about to be by the handler or job *)
(* that wrote it.  (The write and the announcement are two calls with no   *)
(* transaction, so a fault between them does lose the announcement.)       *)
(***************************************************************************)
Announced(i, type) ==
  \E k \in Row : notification[k].incident = i /\ notification[k].type = type

Announcing(i, reqs) == \E r \in reqs : req[r].pc = "notify" /\ req[r].id = i

NothingLostWithoutFault ==
  faults = 0 => \A i \in Exists :
    /\ Announced(i, "Alert") \/ Announcing(i, CreateReq)
    /\ IsResolved(i) /\ ~incident[i].body.isResolved =>
         \/ Announced(i, "Resolution")
         \/ Announcing(i, ChainReq \union ManualReq)
         \/ autoResolveJob.current = i
    /\ incident[i].isEscalated =>
         Announced(i, "Escalation") \/ escalationJob.current = i

(***************************************************************************)
(* The service implements the lifecycle: whatever handlers and jobs decide *)
(* on rows they read earlier, no incident is reopened, un-acknowledged or  *)
(* un-escalated, no resolution or escalation is announced before it is     *)
(* true, and an incident is acknowledged only by a channel with a row for  *)
(* it.  A second acknowledgement may overwrite the first one's acker: two  *)
(* handlers that have both read an unacknowledged row do.                  *)
(***************************************************************************)
Phase(i) ==
  IF i \notin Exists THEN "absent" ELSE IF IsResolved(i) THEN "resolved" ELSE "open"

\* The channel of the acknowledgement the row shows.
Acker(i) ==
  IF i \in Exists /\ IsAcked(i) THEN ChannelOf[incident[i].ackedBy] ELSE None

Lifecycle ==
  INSTANCE IncidentLifecycle WITH
    phase <- [i \in Id |-> Phase(i)],
    Nobody <- None,
    acker <- [i \in Id |-> Acker(i)],
    escalated <- {i \in Exists : incident[i].isEscalated},
    announced <-
      {<<notification[k].incident, notification[k].type, notification[k].channel>> : k \in Row}

ImplementsLifecycle == Lifecycle!Spec

(***************************************************************************)
(* An incident that can be escalated is acknowledged or escalated in the   *)
(* end, and a firing one is resolved in the end, even if a tick of the job *)
(* is cut short: the next tick queries what the last one left undone.      *)
(* Escalated is the mark: the rows may be lost to a fault after it.        *)
(***************************************************************************)
Escalatable == {i \in Exists : incident[i].body.needsAck /\ incident[i].body.escalates}
AckedOrEscalated == {i \in Exists : IsAcked(i) \/ incident[i].isEscalated}

UnackedIsEscalated == \A i \in Id : i \in Escalatable ~> i \in AckedOrEscalated

FiringIsResolved == \A i \in Id : i \in Firing ~> i \notin Firing

-----------------------------------------------------------------------------
(***************************************************************************)
(* The incident README: "incident creation deduplicates on                 *)
(* (idempotencyKey, isResolved)", so a key has at most one firing incident.*)
(***************************************************************************)
OneFiringPerKey ==
  \A i, j \in Firing : incident[i].body.key = incident[j].body.key => i = j
=============================================================================
