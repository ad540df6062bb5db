------------------------- MODULE NotificationService -------------------------
(***************************************************************************)
(* Delivery of the queued notifications                                    *)
(* (packages/incident/src/notification/notification.service.ts and the     *)
(* "notifications-retries" job of scheduler.service.ts): the columns of    *)
(* the notification table that change, the promise chain that serialises   *)
(* the delivery passes, and the cron job that waits for a pass and then    *)
(* repeats what is still firing.                                           *)
(*                                                                         *)
(* Every database call and every HTTP send of the code is one step, since  *)
(* the code awaits each of them and anything may run in between.  Here the *)
(* handlers that insert rows and resolve incidents are an environment      *)
(* (Insert, Resolve); IncidentPlatform puts IncidentService in its place.  *)
(***************************************************************************)
EXTENDS NotificationTable

CONSTANTS
  ChannelLists,  \* the channel lists an insert can be about
  Outcome,       \* how a send can end
  MaxRows,       \* bound: rows the environment inserts
  MaxFaults      \* bound: crashes and failed database calls

VARIABLES
  resolved,  \* incidents whose isResolved is true
  status,    \* lastSentAt and isDelivered of each row
  passes,    \* this.delivering: the passes chained and not yet finished
  pass,      \* the pass that is running (deliverDue)
  retryJob,  \* the "notifications-retries" cron job
  reached,   \* history: rows the messenger has put in their room
  faults     \* crashes and failed database calls so far

workers == <<passes, pass, retryJob>>
vars == <<notification, resolved, status, passes, pass, retryJob, reached, faults>>

\* How a send ends: "unconfirmed" is a message that was posted although the
\* call reported an error.
ASSUME OutcomeAssumption == Outcome \subseteq {"ok", "failed", "unconfirmed"}

ASSUME ListsAssumption == ChannelLists \subseteq Seq(ChannelEntry)

ASSUME BoundsAssumption == MaxRows \in Nat /\ MaxFaults \in Nat

(***************************************************************************)
(* lastSentAt keeps what the queries compare it with: "null" is never      *)
(* attempted, "past" is older than the threshold that applies (5 minutes   *)
(* for a failed row, the repeat interval for a delivered one), "recent" is *)
(* not.                                                                    *)
(***************************************************************************)
Status == [lastSentAt: {"null", "recent", "past"}, isDelivered: BOOLEAN]
Queued == [lastSentAt |-> "null", isDelivered |-> FALSE]

\* A worker that walks a list of rows: the rows left, the row whose send was
\* answered and not yet recorded (0: none), and the answer.
Worker == [busy: BOOLEAN, todo: SUBSET (Nat \ {0}), current: Nat, ok: BOOLEAN]
Resting == [busy |-> FALSE, todo |-> {}, current |-> 0, ok |-> FALSE]
Walking(rows) == [Resting EXCEPT !.busy = TRUE, !.todo = rows]

Phase == {"idle", "delivering", "query", "repeating"}
NoRetry == [phase |-> "idle", worker |-> Resting]

TypeOK ==
  /\ notification \in Seq(NotificationRow)
  /\ resolved \subseteq Id
  /\ status \in [Row -> Status]
  /\ passes \in Seq({"background", "cron"})
  /\ pass \in Worker
  /\ retryJob \in [phase: Phase, worker: Worker]
  /\ reached \subseteq Row
  /\ faults \in 0 .. MaxFaults

Init ==
  /\ notification = <<>>
  /\ resolved = {}
  /\ status = <<>>
  /\ passes = <<>>
  /\ pass = Resting
  /\ retryJob = NoRetry
  /\ reached = {}
  /\ faults = 0

-----------------------------------------------------------------------------
(***************************************************************************)
(* createNotifications, once the rows are in the table: they are queued,   *)
(* and a pass is chained in the background.                                *)
(***************************************************************************)
\* Mutant: the insert leaves lastSentAt and isDelivered without a default.
RowsInsertedWithoutDefaults ==
  /\ passes' = Append(passes, "background")
  /\ UNCHANGED <<status, pass, retryJob, reached>>

RowsInserted ==
  /\ status' = [k \in DOMAIN notification' |->
                  IF k \in Row THEN status[k] ELSE Queued]
  /\ passes' = Append(passes, "background")
  /\ UNCHANGED <<pass, retryJob, reached>>

\* The environment: a handler or a job inserts rows, resolutions only of what
\* is resolved (IncidentService!ResolutionsAreTrue), and resolves incidents.
Insert(i, channels, type) ==
  /\ type = "Resolution" => i \in resolved
  /\ InsertRows(i, channels, type)
  /\ RowsInserted
  /\ UNCHANGED <<resolved, faults>>

Resolve(i) ==
  /\ i \notin resolved
  /\ resolved' = resolved \union {i}
  /\ UNCHANGED <<notification, status, workers, reached, faults>>

-----------------------------------------------------------------------------
(***************************************************************************)
(* A delivery pass.  deliver() chains it behind the passes queued before,  *)
(* so a pass starts only when it is the head of the chain and no other one *)
(* runs.                                                                   *)
(***************************************************************************)
\* Mutant: only what was never attempted, so that nothing is retried.
IsNew(k) == status[k].lastSentAt = "null"

IsDue(k) == ~status[k].isDelivered /\ status[k].lastSentAt # "recent"

StartPass ==
  /\ ~pass.busy
  /\ passes # <<>>
  /\ pass' = Walking({k \in Row : IsDue(k)})
  /\ UNCHANGED <<notification, resolved, status, passes, retryJob, reached, faults>>

\* The row a send is about reaches its room unless the send failed outright.
Posted(k, outcome) == IF outcome = "failed" THEN reached ELSE reached \union {k}

\* Mutant: without the orderBy.
PassSendUnordered(k, outcome) ==
  /\ pass.busy /\ pass.current = 0
  /\ k \in pass.todo
  /\ pass' = [pass EXCEPT !.current = k, !.ok = (outcome = "ok")]
  /\ reached' = Posted(k, outcome)
  /\ UNCHANGED <<notification, resolved, status, passes, retryJob, faults>>

\* deliverNotification, first half, on the rows in the order of their ids.
PassSend(k, outcome) ==
  /\ pass.busy /\ pass.current = 0
  /\ k \in pass.todo /\ \A j \in pass.todo : k <= j
  /\ pass' = [pass EXCEPT !.current = k, !.ok = (outcome = "ok")]
  /\ reached' = Posted(k, outcome)
  /\ UNCHANGED <<notification, resolved, status, passes, retryJob, faults>>

\* deliverNotification, second half: the update of the row by its id.
Record(k, ok) ==
  status' = [status EXCEPT ![k] = [lastSentAt |-> "recent", isDelivered |-> ok]]

PassUpdate ==
  /\ pass.current # 0
  /\ Record(pass.current, pass.ok)
  /\ pass' = Walking(pass.todo \ {pass.current})
  /\ UNCHANGED <<notification, resolved, passes, retryJob, reached, faults>>

\* The promise of the pass settles: the chain moves on, and the cron job goes
\* on if the pass was the one it awaited.
SettlePass ==
  /\ pass' = Resting
  /\ passes' = Tail(passes)
  /\ retryJob' = IF Head(passes) = "cron"
                   THEN [retryJob EXCEPT !.phase = "query"] ELSE retryJob
  /\ UNCHANGED <<notification, resolved, status, reached>>

EndPass == pass.busy /\ pass.todo = {} /\ SettlePass /\ UNCHANGED faults

-----------------------------------------------------------------------------
(***************************************************************************)
(* The cron job: await deliver(), then sendRepeatNotifications().          *)
(* waitForCompletion lets a tick start only when the last one has ended.   *)
(***************************************************************************)
RetryTick ==
  /\ retryJob.phase = "idle"
  /\ retryJob' = [retryJob EXCEPT !.phase = "delivering"]
  /\ passes' = Append(passes, "cron")
  /\ UNCHANGED <<notification, resolved, status, pass, reached, faults>>

\* Mutants: the query without its condition on isDelivered, or without the join.
IsRepeatableUndelivered(k) ==
  /\ status[k].lastSentAt = "past"
  /\ notification[k].repeats
  /\ notification[k].incident \notin resolved

IsRepeatableUnjoined(k) ==
  status[k].isDelivered /\ status[k].lastSentAt = "past" /\ notification[k].repeats

\* The rows to repeat: the query joins the incidents that are not resolved.
IsRepeatable(k) ==
  /\ status[k].isDelivered
  /\ status[k].lastSentAt = "past"
  /\ notification[k].repeats
  /\ notification[k].incident \notin resolved

RepeatQuery ==
  /\ retryJob.phase = "query"
  /\ retryJob' = [phase |-> "repeating",
                  worker |-> Walking({k \in Row : IsRepeatable(k)})]
  /\ UNCHANGED <<notification, resolved, status, passes, pass, reached, faults>>

RepeatSend(k, outcome) ==
  /\ retryJob.phase = "repeating" /\ retryJob.worker.current = 0
  /\ k \in retryJob.worker.todo
  /\ retryJob' = [retryJob EXCEPT !.worker.current = k,
                                  !.worker.ok = (outcome = "ok")]
  /\ reached' = Posted(k, outcome)
  /\ UNCHANGED <<notification, resolved, status, passes, pass, faults>>

RepeatUpdate ==
  /\ retryJob.worker.current # 0
  /\ Record(retryJob.worker.current, retryJob.worker.ok)
  /\ LET rest == retryJob.worker.todo \ {retryJob.worker.current}
     IN  retryJob' = [retryJob EXCEPT !.worker = Walking(rest)]
  /\ UNCHANGED <<notification, resolved, passes, pass, reached, faults>>

EndRetryJob ==
  /\ retryJob' = NoRetry
  /\ UNCHANGED <<notification, resolved, status, passes, pass, reached>>

RepeatEnd ==
  /\ retryJob.phase = "repeating" /\ retryJob.worker.todo = {}
  /\ EndRetryJob
  /\ UNCHANGED faults

-----------------------------------------------------------------------------
\* Time passes the threshold the next query compares lastSentAt with.
Elapse(k) ==
  /\ k \in Row /\ status[k].lastSentAt = "recent"
  /\ status' = [status EXCEPT ![k].lastSentAt = "past"]
  /\ UNCHANGED <<notification, resolved, workers, reached, faults>>

Fault == faults < MaxFaults /\ faults' = faults + 1

\* A database call of a pass throws (deliver's catch logs it and the chain
\* lives on), or one of the job does (its errorHandler logs it).
PassFails == pass.busy /\ SettlePass
RetryJobFails == retryJob.phase \in {"query", "repeating"} /\ EndRetryJob
DeliveryFails == Fault /\ (PassFails \/ RetryJobFails)

\* The process ends: the table stays, the chain and the job do not.
LoseWorkers ==
  /\ passes' = <<>>
  /\ pass' = Resting
  /\ retryJob' = NoRetry
  /\ UNCHANGED <<status, reached>>

Crash == Fault /\ LoseWorkers /\ UNCHANGED <<notification, resolved>>

-----------------------------------------------------------------------------
Deliver ==
  \/ StartPass
  \/ \E k \in Row, outcome \in Outcome : PassSend(k, outcome)
  \/ PassUpdate
  \/ EndPass

Retry ==
  \/ RetryTick
  \/ RepeatQuery
  \/ \E k \in Row, outcome \in Outcome : RepeatSend(k, outcome)
  \/ RepeatUpdate
  \/ RepeatEnd

\* What the service does by itself, and what its environment does.
Service == Deliver \/ Retry \/ (\E k \in Row : Elapse(k)) \/ DeliveryFails

Environment ==
  \/ \E i \in Id, channels \in ChannelLists, type \in NotificationType :
       /\ Len(notification) + Len(channels) <= MaxRows
       /\ Insert(i, channels, type)
  \/ \E i \in Id : Resolve(i)

Next == Service \/ Environment \/ Crash

Spec == Init /\ [][Next]_vars

(***************************************************************************)
(* Fairness: the process runs what is ready, the cron library fires the    *)
(* job again after each run, time passes, and a room that is tried again   *)
(* and again accepts the message in the end.                               *)
(***************************************************************************)
Fairness ==
  /\ WF_vars(StartPass) /\ WF_vars(PassUpdate) /\ WF_vars(EndPass)
  /\ WF_vars(\E k \in Row, outcome \in Outcome : PassSend(k, outcome))
  /\ WF_vars(RetryTick) /\ WF_vars(RepeatQuery)
  /\ WF_vars(RepeatUpdate) /\ WF_vars(RepeatEnd)
  /\ WF_vars(\E k \in Row, outcome \in Outcome : RepeatSend(k, outcome))
  /\ \A k \in 1 .. MaxRows : WF_vars(Elapse(k)) /\ SF_vars(PassSend(k, "ok"))

FairSpec == Spec /\ Fairness

-----------------------------------------------------------------------------
(***************************************************************************)
(* No row is in the hands of the delivery pass and of the repeat job at    *)
(* once: the two run concurrently (the repeat job is not in the promise    *)
(* chain), and a row held by both would be sent twice and its isDelivered  *)
(* overwritten.                                                            *)
(***************************************************************************)
SendersDisjoint == pass.todo \intersect retryJob.worker.todo = {}

(***************************************************************************)
(* First attempts are made in the order of the table: no row has been      *)
(* attempted while a row inserted before it has not.  It is what the       *)
(* orderBy of deliverDue and the chaining of passes achieve together.      *)
(***************************************************************************)
FirstAttemptsInOrder ==
  \A j, k \in Row :
    j < k /\ status[k].lastSentAt # "null" => status[j].lastSentAt # "null"

\* The comment on sendRepeatNotifications: what it re-sends are notifications
\* of incidents that are still firing, so never a resolution.
NoResolutionRepeated ==
  \A k \in retryJob.worker.todo : notification[k].type # "Resolution"

\* Every queued notification reaches its room, whatever fails or crashes on
\* the way: the retry job picks up what was attempted and what never was.
EveryRowReachesItsRoom ==
  \A k \in 1 .. MaxRows : k \in Row ~> k \in reached
=============================================================================
