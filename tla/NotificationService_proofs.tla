---------------------- MODULE NotificationService_proofs ----------------------
(***************************************************************************)
(* Type correctness of NotificationService and its safety invariants, for  *)
(* any number of incidents, channels, rows, faults and outcomes.           *)
(***************************************************************************)
EXTENDS NotificationService, SequenceTheorems, TLAPS

USE DEF Worker, Resting, Walking, NoRetry, Phase

-----------------------------------------------------------------------------
(***************************************************************************)
(* The rows an insert leaves alone keep their status, the new ones are     *)
(* queued.                                                                 *)
(***************************************************************************)
LEMMA InsertQueues ==
  ASSUME TypeOK, NEW i \in Id, NEW channels \in ChannelLists,
         NEW type \in NotificationType, Insert(i, channels, type)
  PROVE  /\ notification' \in Seq(NotificationRow)
         /\ Row \subseteq Row'
         /\ \A j \in Row, k \in Row' \ Row : j < k
         /\ Row \subseteq Nat \ {0} /\ Row' \subseteq Nat \ {0}
         /\ status' \in [Row' -> Status]
         /\ \A k \in Row : notification'[k] = notification[k] /\ status'[k] = status[k]
         /\ \A k \in Row' \ Row : /\ notification'[k].incident = i
                                  /\ notification'[k].type = type
                                  /\ status'[k] = Queued
<1>1. channels \in Seq(ChannelEntry) /\ InsertRows(i, channels, type)
  BY ListsAssumption DEF Insert
<1>2. notification \in Seq(NotificationRow)
  BY DEF TypeOK
<1>3. /\ notification' \in Seq(NotificationRow)
      /\ Row = 1 .. Len(notification)
      /\ Row' = 1 .. Len(notification) + Len(channels)
      /\ \A k \in Row : notification'[k] = notification[k]
      /\ \A k \in Row' \ Row : /\ notification'[k].incident = i
                               /\ notification'[k].type = type
  <2> DEFINE rows == RowsFor(i, channels, type)
  <2>1. \A k \in 1 .. Len(channels) : channels[k] \in ChannelEntry
    BY <1>1
  <2>2. rows \in [1 .. Len(channels) -> NotificationRow] /\ Len(channels) \in Nat
    BY <1>1, <2>1 DEF RowsFor, NotificationRow, ChannelEntry
  <2>3. rows \in Seq(NotificationRow) /\ Len(rows) = Len(channels)
    BY <2>2
  <2>4. \A k \in 1 .. Len(channels) : rows[k].incident = i /\ rows[k].type = type
    BY DEF RowsFor
  <2>5. notification' = notification \o rows
    BY <1>1 DEF InsertRows
  <2> HIDE DEF rows
  <2>6. /\ notification' \in Seq(NotificationRow)
        /\ Len(notification') = Len(notification) + Len(channels)
    <3>1. /\ notification \o rows \in Seq(NotificationRow)
          /\ Len(notification \o rows) = Len(notification) + Len(rows)
      BY <1>2, <2>3, ConcatProperties
    <3> QED
      BY <2>3, <2>5, <3>1
  <2>7. Row = 1 .. Len(notification) /\ Row' = 1 .. Len(notification) + Len(channels)
    BY <2>6 DEF Row
  <2>8. \A k \in Row : notification'[k] = notification[k]
    BY <1>2, <2>3, <2>5, <2>7
  <2>9. \A k \in Row' \ Row : /\ notification'[k] = rows[k - Len(notification)]
                              /\ k - Len(notification) \in 1 .. Len(channels)
    BY <1>2, <2>2, <2>3, <2>5, <2>6, <2>7
  <2> QED
    BY <2>4, <2>6, <2>7, <2>8, <2>9
<1>4. Len(channels) \in Nat /\ Len(notification) \in Nat
  BY <1>1, <1>2
<1>5. /\ Row \subseteq Row' /\ Row \subseteq Nat \ {0} /\ Row' \subseteq Nat \ {0}
      /\ \A j \in Row, k \in Row' \ Row : j < k
  BY <1>3, <1>4
<1>6. status' = [k \in Row' |-> IF k \in Row THEN status[k] ELSE Queued]
  BY DEF Insert, RowsInserted, Row
<1>7. status \in [Row -> Status] /\ Queued \in Status
  BY DEF TypeOK, Queued, Status
<1> QED
  BY <1>3, <1>5, <1>6, <1>7

-----------------------------------------------------------------------------
\* A fault stays within its bound.
LEMMA FaultType == TypeOK /\ Fault => faults' \in 0 .. MaxFaults
  BY BoundsAssumption DEF TypeOK, Fault

\* A worker that has just taken rows is well-formed.
LEMMA WalkingType ==
  ASSUME NEW rows \in SUBSET (Nat \ {0})
  PROVE  /\ Walking(rows) \in Worker
         /\ Walking(rows).todo = rows /\ Walking(rows).current = 0
  OBVIOUS

\* Recording the outcome of a send keeps the status of every row well-formed.
LEMMA RecordType ==
  ASSUME NEW k \in Row, NEW ok \in BOOLEAN, status \in [Row -> Status], Record(k, ok)
  PROVE  status' \in [Row -> Status]
  BY DEF Record, Status

\* The chain of passes is a queue.
LEMMA SettleType ==
  ASSUME TypeOK, SettlePass, passes # <<>>
  PROVE  /\ passes' \in Seq({"background", "cron"})
         /\ pass' \in Worker
         /\ retryJob' \in [phase : Phase, worker : Worker]
  BY DEF TypeOK, SettlePass

-----------------------------------------------------------------------------
(***************************************************************************)
(* What the workers hold.  A pass runs only at the head of a non-empty     *)
(* chain, holds rows that are not delivered, and works on the first of     *)
(* them; the repeat job holds rows that are delivered.                     *)
(***************************************************************************)
PassInv ==
  /\ pass.busy => passes # <<>>
  /\ ~pass.busy => pass = Resting
  /\ pass.todo \subseteq Row
  /\ \A k \in pass.todo : ~status[k].isDelivered
  /\ pass.current # 0 =>
       pass.current \in pass.todo /\ \A j \in pass.todo : pass.current <= j

RetryInv ==
  /\ retryJob.phase # "repeating" => retryJob.worker = Resting
  /\ retryJob.worker.todo \subseteq Row
  /\ \A k \in retryJob.worker.todo : status[k].isDelivered
  /\ retryJob.worker.current # 0 => retryJob.worker.current \in retryJob.worker.todo

(***************************************************************************)
(* The chain holds at most one pass of the cron job, and only while the    *)
(* job awaits it: no pass that settles can restart the job's query.        *)
(***************************************************************************)
ChainInv ==
  \A n \in 1 .. Len(passes) :
    passes[n] = "cron" =>
      /\ retryJob.phase = "delivering"
      /\ \A m \in 1 .. Len(passes) : passes[m] = "cron" => m = n

WorkersInv == PassInv /\ RetryInv /\ ChainInv

\* Type correctness is inductive only together with what the workers hold.
DeliveryInv == TypeOK /\ WorkersInv

LEMMA DeliveryInit == Init => DeliveryInv
  BY BoundsAssumption DEF Init, DeliveryInv, TypeOK, WorkersInv, PassInv, RetryInv, ChainInv, Row
\* Chaining a background pass keeps the cron job's pass where it is.
LEMMA AppendKeepsChain ==
  ASSUME TypeOK, ChainInv, passes' = Append(passes, "background"), retryJob' = retryJob
  PROVE  ChainInv'
<1>1. passes \in Seq({"background", "cron"})
  BY DEF TypeOK
<1>2. /\ Len(passes') = Len(passes) + 1
      /\ \A n \in 1 .. Len(passes) : passes'[n] = passes[n]
      /\ passes'[Len(passes) + 1] = "background"
  BY <1>1
<1>3. \A n \in 1 .. Len(passes') : passes'[n] = "cron" =>
        n \in 1 .. Len(passes) /\ passes[n] = "cron"
  BY <1>1, <1>2
<1> QED
  BY <1>3 DEF ChainInv

\* The head leaves the chain; if it was the cron job's, no other is left.
LEMMA SettleKeepsChain ==
  ASSUME TypeOK, ChainInv, passes # <<>>, SettlePass
  PROVE  /\ ChainInv'
         /\ Head(passes) = "cron" => retryJob.phase = "delivering"
<1>1. passes \in Seq({"background", "cron"}) /\ passes' = Tail(passes)
  BY DEF TypeOK, SettlePass
<1>2. /\ Len(passes) \in Nat \ {0} /\ Len(passes') = Len(passes) - 1
      /\ Head(passes) = passes[1]
      /\ \A n \in 1 .. Len(passes') : passes'[n] = passes[n + 1]
  BY <1>1
<1>3. Head(passes) = "cron" =>
        /\ retryJob.phase = "delivering"
        /\ \A n \in 1 .. Len(passes') : passes'[n] # "cron"
  BY <1>2 DEF ChainInv
<1>4. \A n \in 1 .. Len(passes') : passes'[n] = "cron" =>
        n + 1 \in 1 .. Len(passes) /\ passes[n + 1] = "cron"
  BY <1>2
<1>5. CASE Head(passes) = "cron"
  BY <1>3, <1>5 DEF ChainInv
<1>6. CASE Head(passes) # "cron"
  <2>1. retryJob' = retryJob
    BY <1>6 DEF SettlePass
  <2>2. \A m, n \in 1 .. Len(passes') :
          passes'[m] = "cron" /\ passes'[n] = "cron" => m = n
    BY <1>2, <1>4 DEF ChainInv
  <2>3. \A n \in 1 .. Len(passes') : passes'[n] = "cron" => retryJob.phase = "delivering"
    BY <1>4 DEF ChainInv
  <2> QED
    BY <1>6, <2>1, <2>2, <2>3 DEF ChainInv
<1> QED
  BY <1>5, <1>6, <1>3

\* Inserting rows: the workers hold old rows, whose status is unchanged.
LEMMA InsertKeepsInv ==
  ASSUME DeliveryInv, NEW i \in Id, NEW channels \in ChannelLists,
         NEW type \in NotificationType, Insert(i, channels, type)
  PROVE  DeliveryInv'
<1>1. TypeOK /\ PassInv /\ RetryInv /\ ChainInv
  BY DEF DeliveryInv, WorkersInv
<1>2. /\ notification' \in Seq(NotificationRow)
      /\ Row \subseteq Row'
      /\ status' \in [Row' -> Status]
      /\ \A k \in Row : status'[k] = status[k]
  BY <1>1, InsertQueues
<1>3. /\ passes' = Append(passes, "background")
      /\ UNCHANGED <<resolved, pass, retryJob, reached, faults>>
  BY DEF Insert, RowsInserted
<1>4. TypeOK'
  BY <1>1, <1>2, <1>3 DEF TypeOK
<1>5. passes' # <<>>
  BY <1>1, <1>3 DEF TypeOK
<1>6. PassInv'
  BY <1>1, <1>2, <1>3, <1>5 DEF PassInv, TypeOK
<1>7. RetryInv'
  BY <1>1, <1>2, <1>3 DEF RetryInv, TypeOK
<1>8. ChainInv'
  BY <1>1, <1>3, AppendKeepsChain
<1> QED
  BY <1>4, <1>6, <1>7, <1>8 DEF DeliveryInv, WorkersInv

\* A pass starts with the rows that are due, none of which is delivered.
LEMMA StartPassKeepsInv == DeliveryInv /\ StartPass => DeliveryInv'
<1> SUFFICES ASSUME DeliveryInv, StartPass PROVE DeliveryInv'
  OBVIOUS
<1>1. TypeOK /\ PassInv /\ RetryInv /\ ChainInv
  BY DEF DeliveryInv, WorkersInv
<1>2. Row \subseteq Nat \ {0} /\ Row' = Row
  BY <1>1 DEF TypeOK, StartPass, Row
<1> DEFINE due == {k \in Row : IsDue(k)}
<1>3. /\ pass' = [busy |-> TRUE, todo |-> due, current |-> 0, ok |-> FALSE]
      /\ UNCHANGED <<notification, resolved, status, passes, retryJob, reached, faults>>
  BY DEF StartPass
<1>7. due \in SUBSET (Nat \ {0}) /\ due \subseteq Row /\ \A k \in due : ~status[k].isDelivered
  BY <1>2 DEF IsDue
<1>9. passes # <<>>
  BY DEF StartPass
<1> HIDE DEF due
<1>4. TypeOK'
  BY <1>1, <1>2, <1>3, <1>7 DEF TypeOK
<1>5. PassInv'
  BY <1>1, <1>2, <1>3, <1>7, <1>9 DEF PassInv
<1>6. RetryInv'
  BY <1>1, <1>2 DEF RetryInv, StartPass
<1>8. ChainInv'
  BY <1>1, <1>3 DEF ChainInv
<1> QED
  BY <1>4, <1>5, <1>6, <1>8 DEF DeliveryInv, WorkersInv

\* Sending the first row of the pass.
LEMMA PassSendKeepsInv ==
  ASSUME DeliveryInv, NEW k \in Row, NEW outcome \in Outcome, PassSend(k, outcome)
  PROVE  DeliveryInv'
<1>1. TypeOK /\ PassInv /\ RetryInv /\ ChainInv
  BY DEF DeliveryInv, WorkersInv
<1>2. Row \subseteq Nat \ {0} /\ Row' = Row
  BY <1>1 DEF TypeOK, PassSend, Row
<1>3. /\ pass'.current = k /\ pass'.todo = pass.todo /\ pass'.busy = pass.busy /\ pass.busy
      /\ pass' \in Worker
  BY <1>1, <1>2 DEF PassSend, TypeOK
<1>4. reached' \subseteq Row
  BY <1>1 DEF PassSend, Posted, TypeOK
<1>5. TypeOK'
  BY <1>1, <1>2, <1>3, <1>4 DEF TypeOK, PassSend
<1>6. PassInv'
  BY <1>1, <1>2, <1>3 DEF PassInv, PassSend
<1>7. RetryInv'
  BY <1>1, <1>2 DEF RetryInv, PassSend
<1>8. ChainInv'
  BY <1>1 DEF ChainInv, PassSend
<1> QED
  BY <1>5, <1>6, <1>7, <1>8 DEF DeliveryInv, WorkersInv

\* Recording the row: it leaves the pass, and it is not in the repeat job,
\* whose rows are delivered while this one was not.
LEMMA PassUpdateKeepsInv == DeliveryInv /\ PassUpdate => DeliveryInv'
<1> SUFFICES ASSUME DeliveryInv, PassUpdate PROVE DeliveryInv'
  OBVIOUS
<1>1. TypeOK /\ PassInv /\ RetryInv /\ ChainInv
  BY DEF DeliveryInv, WorkersInv
<1> DEFINE k == pass.current
<1>2. k \in pass.todo /\ k \in Row /\ pass.ok \in BOOLEAN /\ pass.busy
  BY <1>1 DEF PassUpdate, PassInv, TypeOK
<1>3. Record(k, pass.ok)
  BY DEF PassUpdate
<1>4. status' \in [Row -> Status] /\ \A j \in Row \ {k} : status'[j] = status[j]
  BY <1>1, <1>2, <1>3, RecordType DEF TypeOK, Record
<1>5. k \notin retryJob.worker.todo
  BY <1>1, <1>2 DEF PassInv, RetryInv
<1>6. /\ pass' = [busy |-> TRUE, todo |-> pass.todo \ {k}, current |-> 0, ok |-> FALSE]
      /\ Row' = Row
      /\ UNCHANGED <<notification, resolved, passes, retryJob, reached, faults>>
  BY DEF PassUpdate, Row
<1> HIDE DEF k
<1>7. TypeOK'
  BY <1>1, <1>4, <1>6 DEF TypeOK
<1>8. PassInv'
  BY <1>1, <1>2, <1>4, <1>6 DEF PassInv
<1>9. RetryInv'
  BY <1>1, <1>4, <1>5, <1>6 DEF RetryInv
<1>10. ChainInv'
  BY <1>1, <1>6 DEF ChainInv
<1> QED
  BY <1>7, <1>8, <1>9, <1>10 DEF DeliveryInv, WorkersInv

\* The pass settles, at its end or after a failure.
LEMMA SettleKeepsInv ==
  ASSUME DeliveryInv, pass.busy, SettlePass, faults' \in 0 .. MaxFaults
  PROVE  DeliveryInv'
<1>1. TypeOK /\ PassInv /\ RetryInv /\ ChainInv
  BY DEF DeliveryInv, WorkersInv
<1>2. passes # <<>>
  BY <1>1 DEF PassInv
<1>3. /\ passes' \in Seq({"background", "cron"})
      /\ pass' \in Worker
      /\ retryJob' \in [phase : Phase, worker : Worker]
  BY <1>1, <1>2, SettleType
<1>4. Row' = Row /\ UNCHANGED <<notification, resolved, status, reached>> /\ pass' = Resting
  BY DEF SettlePass, Row
<1>5. TypeOK'
  BY <1>1, <1>3, <1>4 DEF TypeOK
<1>6. PassInv'
  BY <1>4 DEF PassInv
<1>7. ChainInv' /\ (Head(passes) = "cron" => retryJob.phase = "delivering")
  BY <1>1, <1>2, SettleKeepsChain
<1>8. RetryInv'
  BY <1>1, <1>4, <1>7 DEF RetryInv, SettlePass, TypeOK
<1> QED
  BY <1>5, <1>6, <1>7, <1>8 DEF DeliveryInv, WorkersInv

-----------------------------------------------------------------------------
\* The cron job chains its one pass, and only when it is idle.
LEMMA RetryTickKeepsInv == DeliveryInv /\ RetryTick => DeliveryInv'
<1> SUFFICES ASSUME DeliveryInv, RetryTick PROVE DeliveryInv'
  OBVIOUS
<1>1. TypeOK /\ PassInv /\ RetryInv /\ ChainInv
  BY DEF DeliveryInv, WorkersInv
<1>2. /\ passes' = Append(passes, "cron")
      /\ retryJob.phase = "idle" /\ retryJob' = [retryJob EXCEPT !.phase = "delivering"]
      /\ UNCHANGED <<notification, resolved, status, pass, reached, faults>> /\ Row' = Row
  BY DEF RetryTick, Row
<1>3. /\ passes \in Seq({"background", "cron"})
      /\ retryJob' \in [phase : Phase, worker : Worker]
      /\ retryJob'.phase = "delivering" /\ retryJob'.worker = retryJob.worker
  BY <1>1, <1>2 DEF TypeOK
<1>10. /\ passes' \in Seq({"background", "cron"}) /\ passes' # <<>>
       /\ Len(passes') = Len(passes) + 1
  BY <1>2, <1>3, AppendProperties
<1>4. /\ \A n \in 1 .. Len(passes) : passes'[n] = passes[n] /\ passes[n] # "cron"
  BY <1>1, <1>2, <1>3 DEF ChainInv
<1>5. TypeOK'
  BY <1>1, <1>2, <1>3, <1>10 DEF TypeOK
<1>6. PassInv'
  BY <1>1, <1>2, <1>10 DEF PassInv
<1>7. RetryInv'
  BY <1>1, <1>2, <1>3 DEF RetryInv
<1>8. \A n \in 1 .. Len(passes') : passes'[n] = "cron" => n = Len(passes) + 1
  BY <1>3, <1>4, <1>10
<1>9. ChainInv'
  BY <1>3, <1>8 DEF ChainInv
<1> QED
  BY <1>5, <1>6, <1>7, <1>9 DEF DeliveryInv, WorkersInv

\* The job takes the rows to repeat; they are delivered.
LEMMA RepeatQueryKeepsInv == DeliveryInv /\ RepeatQuery => DeliveryInv'
<1> SUFFICES ASSUME DeliveryInv, RepeatQuery PROVE DeliveryInv'
  OBVIOUS
<1>1. TypeOK /\ PassInv /\ RetryInv /\ ChainInv
  BY DEF DeliveryInv, WorkersInv
<1> DEFINE rows == {k \in Row : IsRepeatable(k)}
<1>2. /\ retryJob.phase = "query"
      /\ retryJob' = [phase |-> "repeating",
                      worker |-> [busy |-> TRUE, todo |-> rows, current |-> 0, ok |-> FALSE]]
      /\ UNCHANGED <<notification, resolved, status, passes, pass, reached, faults>>
  BY DEF RepeatQuery
<1>3. Row \subseteq Nat \ {0} /\ Row' = Row
  BY <1>1, <1>2 DEF TypeOK, Row
<1>4. rows \in SUBSET (Nat \ {0}) /\ \A k \in rows : k \in Row /\ status[k].isDelivered
  BY <1>3 DEF IsRepeatable
<1> HIDE DEF rows
<1>5. TypeOK'
  BY <1>1, <1>2, <1>3, <1>4 DEF TypeOK
<1>6. PassInv'
  BY <1>1, <1>2, <1>3 DEF PassInv
<1>7. RetryInv'
  BY <1>2, <1>3, <1>4 DEF RetryInv
<1>8. ChainInv'
  BY <1>1, <1>2 DEF ChainInv
<1> QED
  BY <1>5, <1>6, <1>7, <1>8 DEF DeliveryInv, WorkersInv

\* Repeating a row.
LEMMA RepeatSendKeepsInv ==
  ASSUME DeliveryInv, NEW k \in Row, NEW outcome \in Outcome, RepeatSend(k, outcome)
  PROVE  DeliveryInv'
<1>1. TypeOK /\ PassInv /\ RetryInv /\ ChainInv
  BY DEF DeliveryInv, WorkersInv
<1>2. Row \subseteq Nat \ {0} /\ Row' = Row
  BY <1>1 DEF TypeOK, RepeatSend, Row
<1>3. /\ retryJob' \in [phase : Phase, worker : Worker]
      /\ retryJob.phase = "repeating" /\ retryJob'.phase = "repeating"
      /\ k \in retryJob.worker.todo
      /\ retryJob'.worker.todo = retryJob.worker.todo /\ retryJob'.worker.current = k
      /\ UNCHANGED <<notification, resolved, status, passes, pass, faults>>
  BY <1>1, <1>2 DEF RepeatSend, TypeOK
<1>4. reached' \subseteq Row
  BY <1>1 DEF RepeatSend, Posted, TypeOK
<1>5. TypeOK'
  BY <1>1, <1>2, <1>3, <1>4 DEF TypeOK
<1>6. PassInv'
  BY <1>1, <1>2, <1>3 DEF PassInv
<1>7. RetryInv'
  BY <1>1, <1>2, <1>3 DEF RetryInv
<1>8. ChainInv'
  BY <1>1, <1>3 DEF ChainInv
<1> QED
  BY <1>5, <1>6, <1>7, <1>8 DEF DeliveryInv, WorkersInv

\* Recording a repeated row: no pass holds it, since it was delivered.
LEMMA RepeatUpdateKeepsInv == DeliveryInv /\ RepeatUpdate => DeliveryInv'
<1> SUFFICES ASSUME DeliveryInv, RepeatUpdate PROVE DeliveryInv'
  OBVIOUS
<1>1. TypeOK /\ PassInv /\ RetryInv /\ ChainInv
  BY DEF DeliveryInv, WorkersInv
<1> DEFINE k == retryJob.worker.current
           rest == retryJob.worker.todo \ {k}
<1>2. /\ k \in retryJob.worker.todo /\ k \in Row /\ retryJob.worker.ok \in BOOLEAN
      /\ retryJob.phase = "repeating"
  BY <1>1 DEF RepeatUpdate, RetryInv, TypeOK
<1>3. Record(k, retryJob.worker.ok)
  BY DEF RepeatUpdate
<1>4. status' \in [Row -> Status] /\ \A j \in Row \ {k} : status'[j] = status[j]
  BY <1>1, <1>2, <1>3, RecordType DEF TypeOK, Record
<1>5. k \notin pass.todo
  BY <1>1, <1>2 DEF PassInv, RetryInv
<1>6. /\ retryJob' = [retryJob EXCEPT !.worker = Walking(rest)] /\ Row' = Row
      /\ UNCHANGED <<notification, resolved, passes, pass, reached, faults>>
  BY DEF RepeatUpdate, Row
<1>7. rest \in SUBSET (Nat \ {0}) /\ \A j \in rest : j \in Row /\ j # k /\ status[j].isDelivered
  BY <1>1 DEF TypeOK, RetryInv
<1>13. /\ Walking(rest) \in Worker
       /\ Walking(rest).todo = rest /\ Walking(rest).current = 0
  BY <1>7, WalkingType
<1> HIDE DEF k, rest, Walking, Worker
<1>8. /\ retryJob' \in [phase : Phase, worker : Worker]
      /\ retryJob'.phase = retryJob.phase
      /\ retryJob'.worker.todo = rest /\ retryJob'.worker.current = 0
  BY <1>1, <1>6, <1>7, <1>13 DEF TypeOK
<1>9. TypeOK'
  BY <1>1, <1>4, <1>6, <1>8 DEF TypeOK
<1>10. PassInv'
  BY <1>1, <1>4, <1>5, <1>6 DEF PassInv
<1>11. RetryInv'
  BY <1>1, <1>2, <1>4, <1>6, <1>7, <1>8 DEF RetryInv
<1>12. ChainInv'
  BY <1>1, <1>6, <1>8 DEF ChainInv
<1> QED
  BY <1>9, <1>10, <1>11, <1>12 DEF DeliveryInv, WorkersInv

\* The job ends, or fails; no pass of its own is in the chain then.
LEMMA EndRetryKeepsInv ==
  ASSUME DeliveryInv, retryJob.phase \in {"query", "repeating"}, EndRetryJob,
         faults' \in 0 .. MaxFaults
  PROVE  DeliveryInv'
<1>1. TypeOK /\ PassInv /\ RetryInv /\ ChainInv
  BY DEF DeliveryInv, WorkersInv
<1>2. /\ retryJob' = NoRetry /\ Row' = Row
      /\ UNCHANGED <<notification, resolved, status, passes, pass, reached>>
  BY DEF EndRetryJob, Row
<1>3. TypeOK'
  BY <1>1, <1>2 DEF TypeOK
<1>4. PassInv'
  BY <1>1, <1>2 DEF PassInv
<1>5. RetryInv'
  BY <1>2 DEF RetryInv
<1>6. ChainInv'
  BY <1>1, <1>2 DEF ChainInv
<1> QED
  BY <1>3, <1>4, <1>5, <1>6 DEF DeliveryInv, WorkersInv

\* A threshold passes: isDelivered is untouched.
LEMMA ElapseKeepsInv ==
  ASSUME DeliveryInv, NEW k \in Row, Elapse(k)
  PROVE  DeliveryInv'
<1>1. TypeOK /\ PassInv /\ RetryInv /\ ChainInv
  BY DEF DeliveryInv, WorkersInv
<1>2. /\ status' = [status EXCEPT ![k].lastSentAt = "past"] /\ Row' = Row
      /\ UNCHANGED <<notification, resolved, passes, pass, retryJob, reached, faults>>
  BY DEF Elapse, workers, Row
<1>3. /\ status' \in [Row -> Status]
      /\ \A j \in Row : status'[j].isDelivered = status[j].isDelivered
  BY <1>1, <1>2 DEF TypeOK, Status
<1>4. TypeOK'
  BY <1>1, <1>2, <1>3 DEF TypeOK
<1>5. PassInv'
  BY <1>1, <1>2, <1>3 DEF PassInv
<1>6. RetryInv'
  BY <1>1, <1>2, <1>3 DEF RetryInv
<1>7. ChainInv'
  BY <1>1, <1>2 DEF ChainInv
<1> QED
  BY <1>4, <1>5, <1>6, <1>7 DEF DeliveryInv, WorkersInv

\* A crash leaves no worker.
LEMMA CrashKeepsInv == DeliveryInv /\ Crash => DeliveryInv'
<1> SUFFICES ASSUME DeliveryInv, Crash PROVE DeliveryInv'
  OBVIOUS
<1>1. TypeOK /\ faults' \in 0 .. MaxFaults
  BY FaultType DEF DeliveryInv, Crash
<1>2. /\ passes' = <<>> /\ pass' = Resting /\ retryJob' = NoRetry /\ Row' = Row
      /\ UNCHANGED <<notification, resolved, status, reached>>
  BY DEF Crash, LoseWorkers, Row
<1>3. TypeOK'
  BY <1>1, <1>2 DEF TypeOK
<1> QED
  BY <1>2, <1>3 DEF DeliveryInv, WorkersInv, PassInv, RetryInv, ChainInv

-----------------------------------------------------------------------------
\* DeliveryInv is an invariant: it is kept by every step.
LEMMA DeliveryStep == DeliveryInv /\ [Next]_vars => DeliveryInv'
<1> SUFFICES ASSUME DeliveryInv, [Next]_vars PROVE DeliveryInv'
  OBVIOUS
<1>1. CASE Deliver
  <2>1. CASE StartPass
    BY <2>1, StartPassKeepsInv
  <2>2. ASSUME NEW k \in Row, NEW outcome \in Outcome, PassSend(k, outcome)
        PROVE  DeliveryInv'
    BY <2>2, PassSendKeepsInv
  <2>3. CASE PassUpdate
    BY <2>3, PassUpdateKeepsInv
  <2>4. CASE EndPass
    BY <2>4, SettleKeepsInv DEF EndPass, DeliveryInv, TypeOK
  <2> QED
    BY <1>1, <2>1, <2>2, <2>3, <2>4 DEF Deliver
<1>2. CASE Retry
  <2>1. CASE RetryTick
    BY <2>1, RetryTickKeepsInv
  <2>2. CASE RepeatQuery
    BY <2>2, RepeatQueryKeepsInv
  <2>3. ASSUME NEW k \in Row, NEW outcome \in Outcome, RepeatSend(k, outcome)
        PROVE  DeliveryInv'
    BY <2>3, RepeatSendKeepsInv
  <2>4. CASE RepeatUpdate
    BY <2>4, RepeatUpdateKeepsInv
  <2>5. CASE RepeatEnd
    BY <2>5, EndRetryKeepsInv DEF RepeatEnd, DeliveryInv, TypeOK
  <2> QED
    BY <1>2, <2>1, <2>2, <2>3, <2>4, <2>5 DEF Retry
<1>3. ASSUME NEW k \in Row, Elapse(k) PROVE DeliveryInv'
  BY <1>3, ElapseKeepsInv
<1>4. CASE DeliveryFails
  <2>1. faults' \in 0 .. MaxFaults
    BY <1>4, FaultType DEF DeliveryFails, DeliveryInv
  <2>2. CASE PassFails
    BY <2>1, <2>2, SettleKeepsInv DEF PassFails
  <2>3. CASE RetryJobFails
    BY <2>1, <2>3, EndRetryKeepsInv DEF RetryJobFails
  <2> QED
    BY <1>4, <2>2, <2>3 DEF DeliveryFails
<1>5. ASSUME NEW i \in Id, NEW channels \in ChannelLists, NEW type \in NotificationType,
             Insert(i, channels, type)
      PROVE  DeliveryInv'
  BY <1>5, InsertKeepsInv
<1>6. ASSUME NEW i \in Id, Resolve(i) PROVE DeliveryInv'
  BY <1>6 DEF Resolve, workers, DeliveryInv, WorkersInv, TypeOK, PassInv, RetryInv,
              ChainInv, Row
<1>7. CASE Crash
  BY <1>7, CrashKeepsInv
<1>8. CASE UNCHANGED vars
  BY <1>8 DEF vars, DeliveryInv, WorkersInv, TypeOK, PassInv, RetryInv, ChainInv, Row
<1> QED
  BY <1>1, <1>2, <1>3, <1>4, <1>5, <1>6, <1>7, <1>8 DEF Next, Service, Environment

LEMMA DeliveryInvariant == Spec => []DeliveryInv
  BY DeliveryInit, DeliveryStep, PTL DEF Spec

\* The tables and the workers are well-formed in every reachable state.
THEOREM TypeCorrect == Spec => []TypeOK
<1>1. DeliveryInv => TypeOK
  BY DEF DeliveryInv
<1> QED
  BY <1>1, DeliveryInvariant, PTL

(***************************************************************************)
(* The pass and the repeat job never hold the same row: the one holds rows *)
(* that are not delivered, the other rows that are.                        *)
(***************************************************************************)
THEOREM SendersAreDisjoint == Spec => []SendersDisjoint
<1>1. DeliveryInv => SendersDisjoint
  BY DEF DeliveryInv, WorkersInv, PassInv, RetryInv, SendersDisjoint
<1> QED
  BY <1>1, DeliveryInvariant, PTL

-----------------------------------------------------------------------------
(***************************************************************************)
(* First attempts in order.  The invariant is inductive once it also says  *)
(* that a running pass has every row not attempted yet in hand, except     *)
(* those inserted since it started, which come after all of its rows.      *)
(***************************************************************************)
NotAttempted(k) == status[k].lastSentAt = "null"

DeliveredIsAttempted == \A k \in Row : status[k].isDelivered => ~NotAttempted(k)

InHand ==
  pass.busy => \A j \in Row : NotAttempted(j) =>
                 j \in pass.todo \/ \A k \in pass.todo : k < j

OrderInv == DeliveredIsAttempted /\ FirstAttemptsInOrder /\ InHand

\* A step that changes no row and no pass in progress keeps the order.
LEMMA SameStatusKeepsOrder ==
  ASSUME DeliveryInv, OrderInv, Row' = Row,
         \A k \in Row : /\ NotAttempted(k)' = NotAttempted(k)
                        /\ status'[k].isDelivered = status[k].isDelivered,
         pass'.busy => pass.busy /\ pass'.todo = pass.todo
  PROVE  OrderInv'
<1>1. DeliveredIsAttempted /\ FirstAttemptsInOrder /\ InHand
  BY DEF OrderInv
<1>2. DeliveredIsAttempted'
  BY <1>1 DEF DeliveredIsAttempted
<1>3. FirstAttemptsInOrder'
  BY <1>1 DEF FirstAttemptsInOrder, NotAttempted
<1>4. InHand'
  BY <1>1 DEF InHand
<1> QED
  BY <1>2, <1>3, <1>4 DEF OrderInv

LEMMA InsertKeepsOrder ==
  ASSUME DeliveryInv, OrderInv, NEW i \in Id, NEW channels \in ChannelLists,
         NEW type \in NotificationType, Insert(i, channels, type)
  PROVE  OrderInv'
<1>1. /\ TypeOK /\ PassInv
      /\ DeliveredIsAttempted /\ FirstAttemptsInOrder /\ InHand
  BY DEF OrderInv, DeliveryInv, WorkersInv
<1>2. /\ Row \subseteq Row' /\ Row \subseteq Nat \ {0} /\ Row' \subseteq Nat \ {0}
      /\ \A j \in Row, k \in Row' \ Row : j < k
      /\ \A k \in Row : status'[k] = status[k]
      /\ \A k \in Row' \ Row : status'[k] = Queued
  BY <1>1, InsertQueues
<1>3. pass' = pass
  BY DEF Insert, RowsInserted
<1>4. \A k \in Row' \ Row : NotAttempted(k)' /\ ~status'[k].isDelivered
  BY <1>2 DEF Queued, NotAttempted
<1>5. \A k \in Row : NotAttempted(k)' = NotAttempted(k)
  BY <1>2 DEF NotAttempted
<1>6. DeliveredIsAttempted'
  BY <1>1, <1>2, <1>4, <1>5 DEF DeliveredIsAttempted
<1>7. FirstAttemptsInOrder'
  <2> SUFFICES ASSUME NEW j \in Row', NEW k \in Row', j < k, ~NotAttempted(k)'
               PROVE  ~NotAttempted(j)'
    BY DEF FirstAttemptsInOrder, NotAttempted
  <2>1. k \in Row
    BY <1>4
  <2>2. j \in Row
    BY <2>1, <1>2
  <2> QED
    BY <1>1, <1>5, <2>1, <2>2 DEF FirstAttemptsInOrder, NotAttempted
<1>8. InHand'
  <2> SUFFICES ASSUME pass.busy, NEW j \in Row', NotAttempted(j)'
               PROVE  j \in pass.todo \/ \A k \in pass.todo : k < j
    BY <1>3 DEF InHand
  <2>1. CASE j \in Row
    BY <1>1, <1>5, <2>1 DEF InHand
  <2>2. CASE j \notin Row
    BY <1>1, <1>2, <2>2 DEF PassInv
  <2> QED
    BY <2>1, <2>2
<1> QED
  BY <1>6, <1>7, <1>8 DEF OrderInv

\* A pass that starts takes every row not attempted yet.
LEMMA StartPassKeepsOrder == DeliveryInv /\ OrderInv /\ StartPass => OrderInv'
<1> SUFFICES ASSUME DeliveryInv, OrderInv, StartPass PROVE OrderInv'
  OBVIOUS
<1>1. DeliveredIsAttempted /\ FirstAttemptsInOrder
  BY DEF OrderInv
<1>2. /\ Row' = Row /\ status' = status
      /\ pass'.todo = {k \in Row : IsDue(k)}
  BY DEF StartPass, Row
<1>3. \A j \in Row : NotAttempted(j) => j \in pass'.todo
  BY <1>1, <1>2 DEF DeliveredIsAttempted, NotAttempted, IsDue
<1>4. DeliveredIsAttempted' /\ FirstAttemptsInOrder'
  BY <1>1, <1>2 DEF DeliveredIsAttempted, FirstAttemptsInOrder, NotAttempted
<1>5. InHand'
  BY <1>2, <1>3 DEF InHand, NotAttempted
<1> QED
  BY <1>4, <1>5 DEF OrderInv

\* The first row of the pass is attempted: every row before it was.
LEMMA PassUpdateKeepsOrder == DeliveryInv /\ OrderInv /\ PassUpdate => OrderInv'
<1> SUFFICES ASSUME DeliveryInv, OrderInv, PassUpdate PROVE OrderInv'
  OBVIOUS
<1>1. /\ TypeOK /\ PassInv
      /\ DeliveredIsAttempted /\ FirstAttemptsInOrder /\ InHand
  BY DEF OrderInv, DeliveryInv, WorkersInv
<1>2. PICK first \in Row :
        /\ first = pass.current /\ first \in pass.todo /\ pass.busy
        /\ \A j \in pass.todo : first <= j
  BY <1>1 DEF PassUpdate, PassInv
<1>3. /\ Row' = Row /\ Row \subseteq Nat \ {0}
      /\ pass'.todo = pass.todo \ {first}
  BY <1>1, <1>2 DEF PassUpdate, TypeOK, Row
<1>4. status' = [status EXCEPT ![first] = [lastSentAt |-> "recent", isDelivered |-> pass.ok]]
  BY <1>2 DEF PassUpdate, Record
<1>5. /\ ~NotAttempted(first)'
      /\ \A k \in Row \ {first} : status'[k] = status[k] /\ NotAttempted(k)' = NotAttempted(k)
  BY <1>1, <1>2, <1>4 DEF TypeOK, NotAttempted
<1>6. \A j \in Row : j < first => ~NotAttempted(j)
  BY <1>1, <1>2, <1>3 DEF InHand, PassInv
<1>7. DeliveredIsAttempted'
  BY <1>1, <1>3, <1>5 DEF DeliveredIsAttempted
<1>8. FirstAttemptsInOrder'
  <2> SUFFICES ASSUME NEW j \in Row, NEW k \in Row, j < k, ~NotAttempted(k)'
               PROVE  ~NotAttempted(j)'
    BY <1>3 DEF FirstAttemptsInOrder, NotAttempted
  <2>1. CASE j = first
    BY <1>5, <2>1
  <2>2. CASE j # first /\ k = first
    BY <1>5, <1>6, <2>2
  <2>3. CASE j # first /\ k # first
    BY <1>1, <1>5, <2>3 DEF FirstAttemptsInOrder, NotAttempted
  <2> QED
    BY <2>1, <2>2, <2>3
<1>9. InHand'
  BY <1>1, <1>2, <1>3, <1>5 DEF InHand
<1> QED
  BY <1>7, <1>8, <1>9 DEF OrderInv

\* A repeated row was attempted before.
LEMMA RepeatUpdateKeepsOrder == DeliveryInv /\ OrderInv /\ RepeatUpdate => OrderInv'
<1> SUFFICES ASSUME DeliveryInv, OrderInv, RepeatUpdate PROVE OrderInv'
  OBVIOUS
<1>1. /\ TypeOK /\ RetryInv
      /\ DeliveredIsAttempted /\ FirstAttemptsInOrder /\ InHand
  BY DEF OrderInv, DeliveryInv, WorkersInv
<1> DEFINE row == retryJob.worker.current
<1>2. row \in Row /\ ~NotAttempted(row)
  BY <1>1 DEF RepeatUpdate, RetryInv, DeliveredIsAttempted
<1>3. /\ Row' = Row /\ pass' = pass
      /\ status' = [status EXCEPT ![row] =
                      [lastSentAt |-> "recent", isDelivered |-> retryJob.worker.ok]]
  BY DEF RepeatUpdate, Record, Row
<1> HIDE DEF row
<1>4. /\ \A k \in Row : NotAttempted(k)' = NotAttempted(k)
      /\ \A k \in Row \ {row} : status'[k] = status[k]
  BY <1>1, <1>2, <1>3 DEF TypeOK, NotAttempted
<1>5. DeliveredIsAttempted'
  BY <1>1, <1>2, <1>3, <1>4 DEF DeliveredIsAttempted
<1>6. FirstAttemptsInOrder'
  BY <1>1, <1>3, <1>4 DEF FirstAttemptsInOrder, NotAttempted
<1>7. InHand'
  BY <1>1, <1>3, <1>4 DEF InHand
<1> QED
  BY <1>5, <1>6, <1>7 DEF OrderInv

LEMMA OrderStep == DeliveryInv /\ OrderInv /\ [Next]_vars => OrderInv'
<1> SUFFICES ASSUME DeliveryInv, OrderInv, [Next]_vars PROVE OrderInv'
  OBVIOUS
<1>1. ASSUME UNCHANGED <<notification, status>>,
             pass'.busy => pass.busy /\ pass'.todo = pass.todo
      PROVE  OrderInv'
  BY <1>1, SameStatusKeepsOrder DEF NotAttempted, Row
<1>2. CASE Deliver
  <2>1. ASSUME NEW k \in Row, NEW outcome \in Outcome, PassSend(k, outcome)
        PROVE  OrderInv'
    BY <1>1, <2>1 DEF PassSend, DeliveryInv, TypeOK
  <2>2. CASE EndPass
    BY <1>1, <2>2 DEF EndPass, SettlePass
  <2> QED
    BY <1>2, <2>1, <2>2, StartPassKeepsOrder, PassUpdateKeepsOrder DEF Deliver
<1>3. CASE Retry
  <2>1. ASSUME UNCHANGED <<notification, status, pass>> PROVE OrderInv'
    BY <1>1, <2>1
  <2> QED
    BY <1>3, <2>1, RepeatUpdateKeepsOrder
       DEF Retry, RetryTick, RepeatQuery, RepeatSend, RepeatEnd, EndRetryJob
<1>4. ASSUME NEW k \in Row, Elapse(k) PROVE OrderInv'
  <2>1. /\ Row' = Row /\ pass' = pass
        /\ status[k].lastSentAt = "recent"
        /\ status' = [status EXCEPT ![k].lastSentAt = "past"]
    BY <1>4 DEF Elapse, workers, Row
  <2>2. \A j \in Row : /\ NotAttempted(j)' = NotAttempted(j)
                       /\ status'[j].isDelivered = status[j].isDelivered
    BY <2>1 DEF DeliveryInv, TypeOK, Status, NotAttempted
  <2> QED
    BY <2>1, <2>2, SameStatusKeepsOrder
<1>5. CASE DeliveryFails
  BY <1>1, <1>5 DEF DeliveryFails, PassFails, SettlePass, RetryJobFails, EndRetryJob
<1>6. ASSUME NEW i \in Id, NEW channels \in ChannelLists, NEW type \in NotificationType,
             Insert(i, channels, type)
      PROVE  OrderInv'
  BY <1>6, InsertKeepsOrder
<1>7. ASSUME NEW i \in Id, Resolve(i) PROVE OrderInv'
  BY <1>1, <1>7 DEF Resolve, workers
<1>8. CASE Crash
  BY <1>1, <1>8 DEF Crash, LoseWorkers
<1>9. CASE UNCHANGED vars
  BY <1>1, <1>9 DEF vars
<1> QED
  BY <1>2, <1>3, <1>4, <1>5, <1>6, <1>7, <1>8, <1>9 DEF Next, Service, Environment

(***************************************************************************)
(* First attempts are made in the order of the table, whatever fails,      *)
(* crashes or is inserted meanwhile.                                       *)
(***************************************************************************)
THEOREM AttemptsAreInOrder == Spec => []FirstAttemptsInOrder
<1>1. Init => OrderInv
  BY DEF Init, OrderInv, DeliveredIsAttempted, FirstAttemptsInOrder, InHand, Row
<1>2. OrderInv => FirstAttemptsInOrder
  BY DEF OrderInv
<1> QED
  BY <1>1, <1>2, OrderStep, DeliveryInvariant, PTL DEF Spec

-----------------------------------------------------------------------------
(***************************************************************************)
(* No resolution is repeated.  A Resolution row belongs to an incident     *)
(* that is resolved, and no incident is ever reopened, so the repeat query *)
(* cannot select it.                                                       *)
(***************************************************************************)
ResolutionRowsResolved ==
  \A k \in Row : notification[k].type = "Resolution" => notification[k].incident \in resolved

RepeatInv == ResolutionRowsResolved /\ NoResolutionRepeated

LEMMA InsertKeepsRepeat ==
  ASSUME DeliveryInv, RepeatInv, NEW i \in Id, NEW channels \in ChannelLists,
         NEW type \in NotificationType, Insert(i, channels, type)
  PROVE  RepeatInv'
<1>1. TypeOK /\ RetryInv /\ ResolutionRowsResolved /\ NoResolutionRepeated
  BY DEF DeliveryInv, WorkersInv, RepeatInv
<1>2. /\ Row \subseteq Row'
      /\ \A k \in Row : notification'[k] = notification[k]
      /\ \A k \in Row' \ Row : notification'[k].incident = i /\ notification'[k].type = type
  BY <1>1, InsertQueues
<1>3. /\ type = "Resolution" => i \in resolved
      /\ UNCHANGED <<resolved, retryJob>>
  BY DEF Insert, RowsInserted
<1>4. ResolutionRowsResolved'
  BY <1>1, <1>2, <1>3 DEF ResolutionRowsResolved
<1>5. NoResolutionRepeated'
  BY <1>1, <1>2, <1>3 DEF NoResolutionRepeated, RetryInv
<1> QED
  BY <1>4, <1>5 DEF RepeatInv

LEMMA RepeatStep == DeliveryInv /\ RepeatInv /\ [Next]_vars => RepeatInv'
<1> SUFFICES ASSUME DeliveryInv, RepeatInv, [Next]_vars PROVE RepeatInv'
  OBVIOUS
<1>1. TypeOK /\ ResolutionRowsResolved /\ NoResolutionRepeated
  BY DEF DeliveryInv, RepeatInv
<1>2. ASSUME notification' = notification, resolved \subseteq resolved',
             \A k \in retryJob'.worker.todo :
               k \in retryJob.worker.todo \/ notification[k].type # "Resolution"
      PROVE  RepeatInv'
  <2>1. ResolutionRowsResolved'
    BY <1>1, <1>2 DEF ResolutionRowsResolved, Row
  <2>2. NoResolutionRepeated'
    BY <1>1, <1>2 DEF NoResolutionRepeated
  <2> QED
    BY <2>1, <2>2 DEF RepeatInv
<1>3. ASSUME UNCHANGED <<notification, resolved, retryJob>> PROVE RepeatInv'
  BY <1>2, <1>3
<1>4. ASSUME UNCHANGED <<notification, resolved>>, SettlePass PROVE RepeatInv'
  <2>1. retryJob'.worker = retryJob.worker
    BY <1>1, <1>4 DEF SettlePass, TypeOK
  <2> QED
    BY <1>2, <1>4, <2>1
<1>5. ASSUME UNCHANGED <<notification, resolved>>, retryJob' = NoRetry PROVE RepeatInv'
  BY <1>2, <1>5
<1>6. CASE Deliver
  BY <1>3, <1>4, <1>6 DEF Deliver, StartPass, PassSend, PassUpdate, EndPass, SettlePass
<1>7. CASE Retry
  <2>1. CASE RetryTick
    BY <1>1, <1>2, <2>1 DEF RetryTick, TypeOK
  <2>2. CASE RepeatQuery
    <3>1. retryJob'.worker.todo = {k \in Row : IsRepeatable(k)}
      BY <2>2 DEF RepeatQuery
    <3>2. \A k \in retryJob'.worker.todo : notification[k].type # "Resolution"
      BY <1>1, <3>1 DEF IsRepeatable, ResolutionRowsResolved
    <3> QED
      BY <1>2, <2>2, <3>2 DEF RepeatQuery
  <2>3. ASSUME NEW k \in Row, NEW outcome \in Outcome, RepeatSend(k, outcome)
        PROVE  RepeatInv'
    <3>1. retryJob'.worker.todo = retryJob.worker.todo
      BY <1>1, <2>3 DEF RepeatSend, TypeOK
    <3> QED
      BY <1>2, <2>3, <3>1 DEF RepeatSend
  <2>4. CASE RepeatUpdate
    <3>1. retryJob'.worker.todo \subseteq retryJob.worker.todo
      BY <1>1, <2>4, WalkingType DEF RepeatUpdate, TypeOK
    <3> QED
      BY <1>2, <2>4, <3>1 DEF RepeatUpdate
  <2>5. CASE RepeatEnd
    BY <1>5, <2>5 DEF RepeatEnd, EndRetryJob
  <2> QED
    BY <1>7, <2>1, <2>2, <2>3, <2>4, <2>5 DEF Retry
<1>8. ASSUME NEW k \in Row, Elapse(k) PROVE RepeatInv'
  BY <1>3, <1>8 DEF Elapse, workers
<1>9. CASE DeliveryFails
  BY <1>4, <1>5, <1>9 DEF DeliveryFails, PassFails, SettlePass, RetryJobFails, EndRetryJob
<1>10. ASSUME NEW i \in Id, NEW channels \in ChannelLists, NEW type \in NotificationType,
              Insert(i, channels, type)
       PROVE  RepeatInv'
  BY <1>10, InsertKeepsRepeat
<1>11. ASSUME NEW i \in Id, Resolve(i) PROVE RepeatInv'
  BY <1>2, <1>11 DEF Resolve, workers
<1>12. CASE Crash
  BY <1>5, <1>12 DEF Crash, LoseWorkers
<1>13. CASE UNCHANGED vars
  BY <1>3, <1>13 DEF vars
<1> QED
  BY <1>6, <1>7, <1>8, <1>9, <1>10, <1>11, <1>12, <1>13 DEF Next, Service, Environment

\* The repeat job never re-sends a resolution.
THEOREM ResolutionsAreNotRepeated == Spec => []NoResolutionRepeated
<1>1. Init => RepeatInv
  BY DEF Init, RepeatInv, ResolutionRowsResolved, NoResolutionRepeated, Row
<1>2. RepeatInv => NoResolutionRepeated
  BY DEF RepeatInv
<1> QED
  BY <1>1, <1>2, RepeatStep, DeliveryInvariant, PTL DEF Spec
=============================================================================
