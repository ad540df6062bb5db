----------------------- MODULE IncidentService_proofs -----------------------
(***************************************************************************)
(* What is proved of IncidentService for any incidents, requests, bodies,  *)
(* channels and faults: its types, three safety invariants, and that it    *)
(* implements IncidentLifecycle.                                           *)
(*                                                                         *)
(* Handlers and jobs act on rows they read before, so each invariant needs *)
(* what a handler or a job still knows when it writes: the incident it     *)
(* read exists for good, an incident the escalation job is about to mark   *)
(* is not marked by anybody else, one that is to be announced as resolved  *)
(* stays resolved, and the channel that authorised an acknowledgement has  *)
(* its row for good.                                                       *)
(***************************************************************************)
EXTENDS IncidentService, SequenceTheorems, TLAPS

\* What a handler knows.
Knows(r) ==
  /\ req[r].pc = "insert" => req[r].body \in Body
  /\ req[r].pc \in {"authorize", "update", "notify"} => req[r].id \in Exists
  /\ req[r].pc = "notify" /\ r \in ChainReq \union ManualReq => IsResolved(req[r].id)
  /\ req[r].pc = "update" /\ r \in AckReq =>
       HasNotification(req[r].id, ChannelOf[r])

HandlersInv == \A r \in Req : Knows(r)

\* What the escalation job knows: nobody else marks the incidents it has read,
\* and the one it has marked has no rows yet.
EscalationInv ==
  /\ escalationJob.todo \subseteq Exists
  /\ \A i \in escalationJob.todo : ~incident[i].isEscalated
  /\ escalationJob.current # None =>
       /\ escalationJob.current \in Exists
       /\ incident[escalationJob.current].isEscalated
       /\ ~Announced(escalationJob.current, "Escalation")

AutoResolveInv ==
  /\ autoResolveJob.todo \subseteq Exists
  /\ autoResolveJob.current # None =>
       autoResolveJob.current \in Exists /\ IsResolved(autoResolveJob.current)

RowsInv ==
  \A k \in Row :
    /\ notification[k].incident \in Exists
    /\ notification[k].type = "Resolution" => IsResolved(notification[k].incident)
    /\ notification[k].type = "Escalation" => incident[notification[k].incident].isEscalated

IInv ==
  TypeOK /\ HandlersInv /\ EscalationInv /\ AutoResolveInv /\ RowsInv /\ EscalatedOnce

-----------------------------------------------------------------------------
(***************************************************************************)
(* The insert into the notification table, for every table and list of     *)
(* channels.                                                               *)
(***************************************************************************)
\* RowsFor yields one well-formed row for each channel of the list.
LEMMA RowsForType ==
  ASSUME NEW i \in Id, NEW channels \in Seq(ChannelEntry), NEW type \in NotificationType
  PROVE  /\ RowsFor(i, channels, type) \in Seq(NotificationRow)
         /\ Len(RowsFor(i, channels, type)) = Len(channels)
         /\ \A k \in 1 .. Len(channels) :
              /\ RowsFor(i, channels, type)[k].incident = i
              /\ RowsFor(i, channels, type)[k].type = type
              /\ RowsFor(i, channels, type)[k].channel = channels[k].channel
<1>1. \A k \in 1 .. Len(channels) : channels[k] \in ChannelEntry
  OBVIOUS
<1>2. RowsFor(i, channels, type) \in [1 .. Len(channels) -> NotificationRow]
  BY <1>1 DEF RowsFor, NotificationRow, ChannelEntry
<1>3. Len(channels) \in Nat
  OBVIOUS
<1>4. RowsFor(i, channels, type) \in Seq(NotificationRow)
  BY <1>2, <1>3
<1>5. Len(RowsFor(i, channels, type)) = Len(channels)
  BY <1>2, <1>3
<1> QED
  BY <1>4, <1>5 DEF RowsFor

\* An insert keeps the rows there are and appends rows of the one incident
\* and type it is about.
LEMMA InsertAppends ==
  ASSUME NEW i \in Id, NEW channels \in Seq(ChannelEntry), NEW type \in NotificationType,
         notification \in Seq(NotificationRow),
         InsertRows(i, channels, type)
  PROVE  /\ notification' \in Seq(NotificationRow)
         /\ Row = 1 .. Len(notification)
         /\ Row' = 1 .. Len(notification) + Len(channels)
         /\ \A k \in Row : notification'[k] = notification[k]
         /\ \A k \in Row' \ Row : /\ notification'[k].incident = i
                                  /\ notification'[k].type = type
         /\ \A k \in 1 .. Len(channels) :
              notification'[Len(notification) + k].channel = channels[k].channel
<1> DEFINE rows == RowsFor(i, channels, type)
<1>1. /\ rows \in Seq(NotificationRow)
      /\ Len(rows) = Len(channels)
      /\ \A k \in 1 .. Len(channels) :
           /\ rows[k].incident = i /\ rows[k].type = type
           /\ rows[k].channel = channels[k].channel
  BY RowsForType
<1>2. notification' = notification \o rows
  BY DEF InsertRows
<1> HIDE DEF rows
<1>3. /\ notification' \in Seq(NotificationRow)
      /\ Len(notification') = Len(notification) + Len(rows)
  BY <1>1, <1>2, ConcatProperties
<1>4. Row = 1 .. Len(notification) /\ Row' = 1 .. Len(notification')
  BY <1>3 DEF Row
<1>5. \A k \in Row : notification'[k] = notification[k]
  BY <1>1, <1>2, <1>4
<1>6. \A k \in Row' \ Row : notification'[k] = rows[k - Len(notification)]
  BY <1>1, <1>2, <1>3, <1>4
<1>7. \A k \in Row' \ Row : k - Len(notification) \in 1 .. Len(channels)
  BY <1>1, <1>3, <1>4
<1>8. \A k \in 1 .. Len(channels) : notification'[Len(notification) + k] = rows[k]
  BY <1>1, <1>2, <1>3
<1>9. \A k \in 1 .. Len(channels) :
        notification'[Len(notification) + k].channel = channels[k].channel
  BY <1>1, <1>8
<1>10. \A k \in Row' \ Row : notification'[k].incident = i /\ notification'[k].type = type
  BY <1>1, <1>6, <1>7
<1> QED
  BY <1>1, <1>3, <1>4, <1>5, <1>9, <1>10

-----------------------------------------------------------------------------
(***************************************************************************)
(* The two tables.                                                         *)
(***************************************************************************)
TableOK ==
  /\ notification \in Seq(NotificationRow)
  /\ Exists \subseteq Id
  /\ \A i \in Exists : incident[i] \in IncidentRow
  /\ incident = [i \in Exists |-> incident[i]]

\* An update of one incident by its id.
LEMMA Updated ==
  ASSUME TableOK, NEW i \in Exists, NEW row \in IncidentRow,
         incident' = [incident EXCEPT ![i] = row], notification' = notification
  PROVE  /\ TableOK' /\ Exists' = Exists /\ Row' = Row
         /\ incident'[i] = row
         /\ \A j \in Exists \ {i} : incident'[j] = incident[j]
  BY DEF TableOK, Exists, Row

LEMMA Inserted ==
  ASSUME TableOK, NEW i \in Id \ Exists, NEW body \in Body, notification' = notification,
         incident' = [j \in Exists \union {i} |-> IF j = i THEN NewRow(body) ELSE incident[j]]
  PROVE  /\ TableOK' /\ Exists' = Exists \union {i} /\ Row' = Row
         /\ incident'[i] = NewRow(body)
         /\ \A j \in Exists : incident'[j] = incident[j]
<1>1. NewRow(body) \in IncidentRow
  BY DEF NewRow, IncidentRow, Resolution, Body
<1> QED
  BY <1>1 DEF TableOK, Exists, Row

LEMMA Queued ==
  ASSUME TableOK, NEW i \in Id, NEW channels \in Seq(ChannelEntry),
         NEW type \in NotificationType, InsertRows(i, channels, type), incident' = incident
  PROVE  /\ TableOK' /\ Exists' = Exists
         /\ Row = 1 .. Len(notification)
         /\ Row' = 1 .. Len(notification) + Len(channels)
         /\ \A k \in Row : notification'[k] = notification[k]
         /\ \A k \in Row' \ Row : /\ notification'[k].incident = i
                                  /\ notification'[k].type = type
         /\ \A k \in 1 .. Len(channels) :
              notification'[Len(notification) + k].channel = channels[k].channel
<1>1. notification \in Seq(NotificationRow)
  BY DEF TableOK
<1>2. /\ notification' \in Seq(NotificationRow)
      /\ Row = 1 .. Len(notification)
      /\ Row' = 1 .. Len(notification) + Len(channels)
      /\ \A k \in Row : notification'[k] = notification[k]
      /\ \A k \in Row' \ Row : /\ notification'[k].incident = i
                               /\ notification'[k].type = type
      /\ \A k \in 1 .. Len(channels) :
           notification'[Len(notification) + k].channel = channels[k].channel
  BY <1>1, InsertAppends
<1> QED
  BY <1>2 DEF TableOK, Exists

-----------------------------------------------------------------------------
(***************************************************************************)
(* No step takes anything back.                                            *)
(***************************************************************************)
Grows ==
  /\ TableOK'
  /\ Exists \subseteq Exists' /\ Row \subseteq Row'
  /\ \A i \in Exists : /\ IsResolved(i) => IsResolved(i)'
                       /\ IsAcked(i) => IsAcked(i)'
                       /\ incident[i].isEscalated => incident'[i].isEscalated
  /\ \A k \in Row : notification'[k] = notification[k]

\* A row that is new, and not an escalation, is about an incident there is, and
\* a resolution only about a resolved one.
NewRowsOK ==
  \A k \in Row' \ Row :
    /\ notification'[k].incident \in Exists' /\ notification'[k].type # "Escalation"
    /\ notification'[k].type = "Resolution" => 
         incident'[notification'[k].incident].resolution # None

LEMMA KnowsStays ==
  ASSUME Grows, NEW r, req'[r] = req[r], Knows(r)
  PROVE  Knows(r)'
  BY DEF Grows, Knows, HasNotification

\* One handler moves, the others know what they knew.
LEMMA HandlersMove ==
  ASSUME HandlersInv, Grows, NEW r \in Req, NEW state, req' = [req EXCEPT ![r] = state],
         TypeOK, Knows(r)'
  PROVE  HandlersInv'
<1>1. \A s \in Req \ {r} : req'[s] = req[s]
  BY DEF TypeOK
<1> QED
  BY <1>1, KnowsStays DEF HandlersInv

LEMMA AutoResolveStays ==
  ASSUME AutoResolveInv, Grows, autoResolveJob' = autoResolveJob
  PROVE  AutoResolveInv'
  BY DEF AutoResolveInv, Grows

LEMMA EscalationStays ==
  ASSUME EscalationInv, Grows, escalationJob' = escalationJob, NewRowsOK,
         \A i \in Exists : incident'[i].isEscalated = incident[i].isEscalated
  PROVE  EscalationInv'
  BY DEF EscalationInv, Grows, Announced, NewRowsOK

LEMMA RowsStay ==
  ASSUME RowsInv, Grows, NewRowsOK
  PROVE  RowsInv'
  BY DEF RowsInv, Grows, NewRowsOK, IsResolved

LEMMA EscalatedOnceStays ==
  ASSUME EscalatedOnce, Grows, NewRowsOK
  PROVE  EscalatedOnce'
  BY DEF EscalatedOnce, Grows, NewRowsOK

\* A step that does not touch the two tables.
LEMMA Still ==
  ASSUME TypeOK, UNCHANGED <<notification, incident>>
  PROVE  /\ Grows /\ NewRowsOK /\ Exists' = Exists
         /\ \A i \in Exists : incident'[i].isEscalated = incident[i].isEscalated
  BY DEF TypeOK, TableOK, Grows, NewRowsOK, Exists, Row, IsResolved, IsAcked

LEMMA TablesOK == TypeOK => TableOK
  BY DEF TypeOK, TableOK

\* What a step of a handler keeps when it touches no table.
LEMMA QuietHandler ==
  ASSUME IInv, NEW r \in Req, NEW state \in RequestState,
         req' = [req EXCEPT ![r] = state], faults' \in 0 .. MaxFaults, Knows(r)',
         UNCHANGED <<notification, incident, escalationJob, autoResolveJob, overdue, stale>>
  PROVE  IInv'
<1>1. TypeOK' 
  BY DEF IInv, TypeOK, Exists, Row
<1>2. /\ Grows /\ NewRowsOK
      /\ \A i \in Exists : incident'[i].isEscalated = incident[i].isEscalated
  BY Still DEF IInv
<1>3. HandlersInv'
  BY <1>2, HandlersMove DEF IInv
<1> QED
  BY <1>1, <1>2, <1>3, EscalationStays, AutoResolveStays, RowsStay, EscalatedOnceStays DEF IInv

LEMMA FinishKeeps ==
  ASSUME IInv, NEW r \in Req, Finish(r), faults' \in 0 .. MaxFaults,
         UNCHANGED <<notification, incident, escalationJob, autoResolveJob, overdue, stale>>
  PROVE  IInv'
<1>1. Done \in RequestState /\ req' = [req EXCEPT ![r] = Done]
  BY DEF Done, RequestState, Finish
<1>2. req'[r] = Done
  BY <1>1 DEF IInv, TypeOK
<1>3. Knows(r)'
  BY <1>2 DEF Knows, Done
<1> QED
  BY <1>1, <1>3, QuietHandler

LEMMA BeginKeeps ==
  ASSUME IInv, NEW r \in Req, NEW pc \in {"authorize", "update"}, NEW i \in Exists,
         Begin(r, pc, i), pc = "update" => r \notin AckReq, UNCHANGED ServiceSideVars,
         UNCHANGED <<notification, incident>>
  PROVE  IInv'
<1> DEFINE state == [req[r] EXCEPT !.pc = pc, !.id = i]
<1>1. req[r] \in RequestState /\ i \in Id
  BY DEF IInv, TypeOK
<1>2. state \in RequestState /\ req' = [req EXCEPT ![r] = state]
  BY <1>1 DEF RequestState, Begin
<1>3. req'[r].pc = pc /\ req'[r].id = i
  BY <1>1 DEF Begin, IInv, TypeOK, RequestState
<1>4. Knows(r)'
  BY <1>3 DEF Knows, Exists
<1>5. faults' \in 0 .. MaxFaults
  BY DEF IInv, TypeOK, ServiceSideVars
<1> QED
  BY <1>2, <1>4, <1>5, QuietHandler DEF ServiceSideVars

LEMMA CreateReadKeeps ==
  ASSUME IInv, NEW r \in CreateReq, NEW body \in Bodies, CreateRead(r, body)
  PROVE  IInv'
<1>1. r \in Req /\ body \in Body /\ faults' \in 0 .. MaxFaults
  BY ConstantsAssumption DEF Req, CreateRead, ServiceSideVars, IInv, TypeOK
<1>2. CASE Finish(r)
  BY <1>1, <1>2, FinishKeeps DEF CreateRead, ServiceSideVars
<1>3. CASE req' = [req EXCEPT ![r].pc = "insert", ![r].body = body]
  <2> DEFINE state == [req[r] EXCEPT !.pc = "insert", !.body = body]
  <2>1. req[r] \in RequestState
    BY <1>1 DEF IInv, TypeOK
  <2>2. state \in RequestState /\ req' = [req EXCEPT ![r] = state]
    BY <1>1, <1>3, <2>1 DEF RequestState
  <2>3. req'[r].pc = "insert" /\ req'[r].body = body
    BY <1>1, <1>3, <2>1 DEF IInv, TypeOK, RequestState
  <2>4. Knows(r)'
    BY <1>1, <2>3 DEF Knows
  <2> QED
    BY <1>1, <2>2, <2>4, QuietHandler DEF CreateRead, ServiceSideVars
<1> QED
  BY <1>2, <1>3 DEF CreateRead

LEMMA AuthorizeKeeps ==
  ASSUME IInv, NEW r \in AckReq \union ManualReq, Authorize(r)
  PROVE  IInv'
<1>1. r \in Req /\ faults' \in 0 .. MaxFaults /\ req[r] \in RequestState
  BY DEF Req, Authorize, ServiceSideVars, IInv, TypeOK
<1>2. CASE Finish(r)
  BY <1>1, <1>2, FinishKeeps DEF Authorize, ServiceSideVars
<1>3. CASE HasNotification(req[r].id, ChannelOf[r]) /\ Goto(r, "update")
  <2> DEFINE state == [req[r] EXCEPT !.pc = "update"]
  <2>1. state \in RequestState /\ req' = [req EXCEPT ![r] = state]
    BY <1>1, <1>3 DEF RequestState, Goto
  <2>2. req'[r].pc = "update" /\ req'[r].id = req[r].id
    BY <1>1, <1>3 DEF IInv, TypeOK, RequestState, Goto
  <2>3. req[r].id \in Exists
    BY <1>1 DEF Authorize, IInv, HandlersInv, Knows
  <2>4. Knows(r)'
    BY <1>3, <2>2, <2>3 DEF Knows, HasNotification, Authorize, Exists, Row
  <2> QED
    BY <1>1, <2>1, <2>4, QuietHandler DEF Authorize, ServiceSideVars
<1> QED
  BY <1>2, <1>3 DEF Authorize

LEMMA RequestFailsKeeps ==
  ASSUME IInv, NEW r \in Req, RequestFails(r)
  PROVE  IInv'
<1>1. faults' \in 0 .. MaxFaults
  BY ConstantsAssumption DEF RequestFails, IInv, TypeOK
<1> QED
  BY <1>1, FinishKeeps DEF RequestFails

\* A step of a handler that writes an incident or inserts rows.
LEMMA WritingHandler ==
  ASSUME IInv, Grows, NewRowsOK, NEW r \in Req, NEW state \in RequestState,
         req' = [req EXCEPT ![r] = state], Knows(r)', UNCHANGED ServiceSideVars,
         \A i \in Exists : incident'[i].isEscalated = incident[i].isEscalated
  PROVE  IInv'
<1>1. TypeOK'
  BY DEF IInv, TypeOK, Grows, TableOK, ServiceSideVars
<1>2. HandlersInv'
  BY HandlersMove DEF IInv
<1> QED
  BY <1>1, <1>2, EscalationStays, AutoResolveStays, RowsStay, EscalatedOnceStays
     DEF IInv, ServiceSideVars

LEMMA CreateInsertKeeps ==
  ASSUME IInv, NEW r \in CreateReq, NEW i \in Id, CreateInsert(r, i)
  PROVE  IInv'
<1>1. r \in Req /\ r \notin ChainReq \union ManualReq /\ req[r] \in RequestState
  BY RequestsAssumption DEF Req, IInv, TypeOK
<1>2. req[r].body \in Body /\ i \in Id \ Exists
  BY <1>1 DEF CreateInsert, IInv, HandlersInv, Knows
<1>3. /\ TableOK' /\ Exists' = Exists \union {i} /\ Row' = Row
      /\ \A j \in Exists : incident'[j] = incident[j]
  BY <1>2, TablesOK, Inserted DEF CreateInsert, IInv
<1>4. Grows /\ NewRowsOK
  BY <1>3 DEF CreateInsert, Grows, NewRowsOK, IsResolved, IsAcked
<1> DEFINE state == [req[r] EXCEPT !.pc = "notify", !.id = i]
<1>5. state \in RequestState /\ req' = [req EXCEPT ![r] = state]
  BY <1>1 DEF RequestState, CreateInsert, Begin
<1>6. req'[r].pc = "notify" /\ req'[r].id = i
  BY <1>1 DEF IInv, TypeOK, RequestState, CreateInsert, Begin
<1>7. Knows(r)'
  BY <1>1, <1>3, <1>6 DEF Knows
<1> QED
  BY <1>1, <1>3, <1>4, <1>5, <1>7, WritingHandler DEF CreateInsert

LEMMA AnnounceKeeps ==
  ASSUME IInv, NEW r \in Req, NEW type \in {"Alert", "Resolution"}, Announce(r, type),
         type = "Resolution" => r \in ChainReq \union ManualReq
  PROVE  IInv'
<1>1. /\ req[r].id \in Exists /\ req[r].id \in Id
      /\ type = "Resolution" => IsResolved(req[r].id)
  BY DEF Announce, IInv, HandlersInv, Knows, TypeOK
<1>2. /\ TableOK' /\ Exists' = Exists
      /\ Row = 1 .. Len(notification)
      /\ Row' = 1 .. Len(notification) + Len(NotificationChannels)
      /\ \A k \in Row : notification'[k] = notification[k]
      /\ \A k \in Row' \ Row : /\ notification'[k].incident = req[r].id
                               /\ notification'[k].type = type
  BY <1>1, TablesOK, Queued, ConstantsAssumption DEF Announce, IInv, NotificationType
<1>3. Len(notification) \in Nat /\ Len(NotificationChannels) \in Nat
  BY ConstantsAssumption DEF IInv, TypeOK
<1>4. Grows /\ NewRowsOK
  <2>1. Row \subseteq Row'
    BY <1>2, <1>3
  <2> QED
    BY <1>1, <1>2, <2>1 DEF Announce, Grows, NewRowsOK, IsResolved, IsAcked
<1>5. Done \in RequestState /\ req' = [req EXCEPT ![r] = Done]
  BY DEF Done, RequestState, Announce, Finish
<1>6. req'[r] = Done
  BY <1>5 DEF IInv, TypeOK
<1>7. Knows(r)'
  BY <1>6 DEF Knows, Done
<1> QED
  BY <1>4, <1>5, <1>7, WritingHandler DEF Announce

LEMMA AckUpdateKeeps ==
  ASSUME IInv, NEW r \in AckReq, AckUpdate(r)
  PROVE  IInv'
<1>1. r \in Req /\ req[r].id \in Exists
  BY DEF AckUpdate, IInv, HandlersInv, Knows, Req
<1> DEFINE i == req[r].id  row == [incident[i] EXCEPT !.ackedBy = r]
<1>2. incident[i] \in IncidentRow
  BY <1>1 DEF IInv, TypeOK
<1>3. /\ row \in IncidentRow /\ row.resolution = incident[i].resolution
      /\ row.isEscalated = incident[i].isEscalated /\ row.ackedBy = r
  BY <1>2 DEF IncidentRow
<1>4. incident' = [incident EXCEPT ![i] = row]
  BY <1>1 DEF AckUpdate
<1> HIDE DEF row
<1>5. /\ TableOK' /\ Exists' = Exists /\ Row' = Row /\ incident'[i] = row
      /\ \A j \in Exists \ {i} : incident'[j] = incident[j]
  BY <1>1, <1>3, <1>4, TablesOK, Updated DEF AckUpdate, IInv
<1>6. r # None
  BY <1>1, NoneAssumption
<1>7. Grows /\ NewRowsOK
  BY <1>3, <1>5, <1>6 DEF AckUpdate, Grows, NewRowsOK, IsResolved, IsAcked
<1>8. \A j \in Exists : incident'[j].isEscalated = incident[j].isEscalated
  BY <1>3, <1>5
<1>9. Done \in RequestState /\ req' = [req EXCEPT ![r] = Done]
  BY DEF Done, RequestState, AckUpdate, Finish
<1>10. req'[r] = Done
  BY <1>1, <1>9 DEF IInv, TypeOK
<1>11. Knows(r)'
  BY <1>10 DEF Knows, Done
<1> QED
  BY <1>1, <1>7, <1>8, <1>9, <1>11, WritingHandler DEF AckUpdate

LEMMA ResolveUpdateKeeps ==
  ASSUME IInv, NEW r \in ChainReq \union ManualReq, NEW resolution \in Resolution,
         ResolveUpdate(r, resolution)
  PROVE  IInv'
<1>1. r \in Req /\ req[r].id \in Exists /\ req[r] \in RequestState
  BY DEF ResolveUpdate, IInv, HandlersInv, Knows, Req, TypeOK
<1> DEFINE i == req[r].id  row == [incident[i] EXCEPT !.resolution = resolution]
<1>2. incident[i] \in IncidentRow
  BY <1>1 DEF IInv, TypeOK
<1>3. /\ row \in IncidentRow /\ row.resolution = resolution
      /\ row.isEscalated = incident[i].isEscalated /\ row.ackedBy = incident[i].ackedBy
  BY <1>2 DEF IncidentRow
<1>4. incident' = [incident EXCEPT ![i] = row]
  BY <1>1 DEF ResolveUpdate
<1> HIDE DEF row
<1>5. /\ TableOK' /\ Exists' = Exists /\ Row' = Row /\ incident'[i] = row
      /\ \A j \in Exists \ {i} : incident'[j] = incident[j]
  BY <1>1, <1>3, <1>4, TablesOK, Updated DEF ResolveUpdate, IInv
<1>6. resolution # None
  BY NoneAssumption
<1>7. Grows /\ NewRowsOK
  BY <1>3, <1>5, <1>6 DEF ResolveUpdate, Grows, NewRowsOK, IsResolved, IsAcked
<1>8. \A j \in Exists : incident'[j].isEscalated = incident[j].isEscalated
  BY <1>3, <1>5
<1> DEFINE state == [req[r] EXCEPT !.pc = "notify"]
<1>9. state \in RequestState /\ req' = [req EXCEPT ![r] = state]
  BY <1>1 DEF RequestState, ResolveUpdate, Goto
<1>10. req'[r].pc = "notify" /\ req'[r].id = i
  BY <1>1 DEF IInv, TypeOK, RequestState, ResolveUpdate, Goto
<1>11. Knows(r)'
  BY <1>1, <1>3, <1>5, <1>6, <1>10 DEF Knows, IsResolved
<1> QED
  BY <1>1, <1>7, <1>8, <1>9, <1>11, WritingHandler DEF ResolveUpdate

-----------------------------------------------------------------------------
(***************************************************************************)
(* The jobs.                                                               *)
(***************************************************************************)
\* Handlers and tables are left alone.
LEMMA QuietJob ==
  ASSUME IInv, UNCHANGED <<notification, incident, req>>,
         escalationJob' \in Job, autoResolveJob' \in Job, faults' \in 0 .. MaxFaults,
         overdue' \subseteq Id, stale' \subseteq Id, EscalationInv', AutoResolveInv'
  PROVE  IInv'
<1>1. TypeOK'
  BY DEF IInv, TypeOK, Exists, Row
<1>2. Grows /\ NewRowsOK
  BY Still DEF IInv
<1>3. HandlersInv'
  BY <1>2, KnowsStays DEF IInv, HandlersInv
<1> QED
  BY <1>1, <1>2, <1>3, RowsStay, EscalatedOnceStays DEF IInv

LEMMA TimeKeeps ==
  ASSUME IInv, NEW i \in Id, BecomeOverdue(i) \/ BecomeStale(i)
  PROVE  IInv'
<1>1. /\ UNCHANGED <<notification, incident, req, escalationJob, autoResolveJob>>
      /\ overdue' \subseteq Id /\ stale' \subseteq Id /\ faults' = faults
  BY DEF BecomeOverdue, BecomeStale, IInv, TypeOK
<1>2. EscalationInv' /\ AutoResolveInv'
  BY <1>1 DEF IInv, EscalationInv, AutoResolveInv, Exists, IsResolved, Announced, Row
<1> QED
  BY <1>1, <1>2, QuietJob DEF IInv, TypeOK

LEMMA EscalationTickKeeps ==
  ASSUME IInv, EscalationTick
  PROVE  IInv'
<1>1. /\ escalationJob'.todo = {i \in Exists : ToEscalate(i)} /\ escalationJob'.current = None
      /\ escalationJob' \in Job
  BY DEF EscalationTick, NoJob, Job, IInv, TypeOK
<1>2. UNCHANGED <<notification, incident, req, autoResolveJob, overdue, stale, faults>>
  BY DEF EscalationTick
<1>3. EscalationInv'
  BY <1>1, <1>2 DEF EscalationInv, ToEscalate, Exists
<1>4. AutoResolveInv'
  BY <1>2 DEF IInv, AutoResolveInv, Exists, IsResolved
<1> QED
  BY <1>1, <1>2, <1>3, <1>4, QuietJob DEF IInv, TypeOK

LEMMA AutoResolveTickKeeps ==
  ASSUME IInv, AutoResolveTick
  PROVE  IInv'
<1>1. /\ autoResolveJob'.todo = Firing \intersect stale /\ autoResolveJob'.current = None
      /\ autoResolveJob' \in Job
  BY DEF AutoResolveTick, NoJob, Job, Firing, IInv, TypeOK
<1>2. UNCHANGED <<notification, incident, req, escalationJob, overdue, stale, faults>>
  BY DEF AutoResolveTick
<1>3. EscalationInv'
  BY <1>2 DEF IInv, EscalationInv, Exists, Announced, Row
<1>4. AutoResolveInv'
  BY <1>1, <1>2 DEF AutoResolveInv, Exists, Firing
<1> QED
  BY <1>1, <1>2, <1>3, <1>4, QuietJob DEF IInv, TypeOK

LEMMA JobFailsKeeps ==
  ASSUME IInv, EscalationJobFails \/ AutoResolveJobFails
  PROVE  IInv'
<1>1. /\ UNCHANGED <<notification, incident, req, overdue, stale>>
      /\ faults' \in 0 .. MaxFaults
      /\ escalationJob' \in {escalationJob, NoJob}
      /\ autoResolveJob' \in {autoResolveJob, NoJob}
      /\ NoJob \in Job /\ NoJob.todo = {} /\ NoJob.current = None
  BY ConstantsAssumption
     DEF EscalationJobFails, AutoResolveJobFails, IInv, TypeOK, NoJob, Job
<1>2. EscalationInv' /\ AutoResolveInv'
  BY <1>1 DEF IInv, EscalationInv, AutoResolveInv, Exists, IsResolved, Announced, Row
<1> QED
  BY <1>1, <1>2, QuietJob DEF IInv, TypeOK

LEMMA CrashKeeps ==
  ASSUME IInv, Crash
  PROVE  IInv'
<1>1. /\ UNCHANGED <<notification, incident, overdue, stale>>
      /\ faults' \in 0 .. MaxFaults
      /\ escalationJob' = NoJob /\ autoResolveJob' = NoJob
      /\ NoJob \in Job /\ NoJob.todo = {} /\ NoJob.current = None
  BY ConstantsAssumption DEF Crash, IInv, TypeOK, NoJob, Job
<1>2. req' \in [Req -> RequestState] /\ HandlersInv'
  <2>1. Done \in RequestState
    BY DEF Done, RequestState
  <2>2. \A r \in Req : req'[r].pc \in {"idle", "done"}
    BY DEF Crash, Done
  <2> QED
    BY <2>1, <2>2 DEF Crash, IInv, TypeOK, HandlersInv, Knows
<1>3. TypeOK'
  BY <1>1, <1>2 DEF IInv, TypeOK, Exists, Row
<1>4. EscalationInv' /\ AutoResolveInv'
  BY <1>1 DEF EscalationInv, AutoResolveInv
<1>5. Grows /\ NewRowsOK
  BY <1>1, Still DEF IInv
<1> QED
  BY <1>2, <1>3, <1>4, <1>5, RowsStay, EscalatedOnceStays DEF IInv

LEMMA EscalateUpdateKeeps ==
  ASSUME IInv, NEW i \in Id, EscalateUpdate(i)
  PROVE  IInv'
<1>1. /\ i \in Exists /\ ~incident[i].isEscalated /\ escalationJob \in Job
      /\ i \in escalationJob.todo
  BY DEF EscalateUpdate, IInv, EscalationInv, TypeOK
<1> DEFINE row == [incident[i] EXCEPT !.isEscalated = TRUE]
<1>2. incident[i] \in IncidentRow
  BY <1>1 DEF IInv, TypeOK
<1>3. /\ row \in IncidentRow /\ row.isEscalated = TRUE
      /\ row.resolution = incident[i].resolution /\ row.ackedBy = incident[i].ackedBy
  BY <1>2 DEF IncidentRow
<1>4. incident' = [incident EXCEPT ![i] = row]
  BY <1>1 DEF EscalateUpdate
<1> HIDE DEF row
<1>5. /\ TableOK' /\ Exists' = Exists /\ Row' = Row /\ incident'[i] = row
      /\ \A j \in Exists \ {i} : incident'[j] = incident[j]
  BY <1>1, <1>3, <1>4, TablesOK, Updated DEF EscalateUpdate, IInv
<1>6. Grows /\ NewRowsOK
  BY <1>3, <1>5 DEF EscalateUpdate, Grows, NewRowsOK, IsResolved, IsAcked
<1>7. escalationJob' = [todo |-> escalationJob.todo \ {i}, current |-> i] /\ escalationJob' \in Job
  BY <1>1 DEF EscalateUpdate, Job
<1>8. TypeOK'
  BY <1>5, <1>7 DEF EscalateUpdate, IInv, TypeOK, TableOK
<1>9. HandlersInv'
  BY <1>6, KnowsStays DEF EscalateUpdate, IInv, HandlersInv
<1>10. ~Announced(i, "Escalation")
  BY <1>1 DEF IInv, RowsInv, Announced
<1>11. EscalationInv'
  <2>1. \A j \in escalationJob.todo \ {i} : ~incident'[j].isEscalated
    BY <1>5 DEF IInv, EscalationInv
  <2>2. ~Announced(i, "Escalation")'
    BY <1>5, <1>10 DEF EscalateUpdate, Announced
  <2> QED
    BY <1>1, <1>3, <1>5, <1>7, <2>1, <2>2 DEF IInv, EscalationInv
<1>12. AutoResolveInv'
  BY <1>6, AutoResolveStays DEF EscalateUpdate, IInv
<1> QED
  BY <1>6, <1>8, <1>9, <1>11, <1>12, RowsStay, EscalatedOnceStays DEF IInv

LEMMA EscalateNotifyKeeps ==
  ASSUME IInv, EscalateNotify
  PROVE  IInv'
<1> DEFINE i == escalationJob.current
           channels == EscalationChannels \o NotificationChannels
<1>1. /\ i \in Exists /\ i \in Id /\ incident[i].isEscalated /\ ~Announced(i, "Escalation")
      /\ escalationJob \in Job
  BY DEF EscalateNotify, IInv, EscalationInv, TypeOK
<1>2. /\ channels \in Seq(ChannelEntry)
      /\ Len(channels) = Len(EscalationChannels) + Len(NotificationChannels)
  BY ConstantsAssumption, ConcatProperties
<1>3. InsertRows(i, channels, "Escalation") /\ UNCHANGED incident
  BY DEF EscalateNotify
<1> HIDE DEF i, channels
<1>4. /\ TableOK' /\ Exists' = Exists
      /\ Row = 1 .. Len(notification)
      /\ Row' = 1 .. Len(notification) + Len(channels)
      /\ \A k \in Row : notification'[k] = notification[k]
      /\ \A k \in Row' \ Row : /\ notification'[k].incident = i
                               /\ notification'[k].type = "Escalation"
  BY <1>1, <1>2, <1>3, TablesOK, Queued DEF IInv, NotificationType
<1>5. Len(notification) \in Nat /\ Len(channels) \in Nat
  BY <1>2 DEF IInv, TypeOK
<1>6. Grows
  <2>1. Row \subseteq Row'
    BY <1>4, <1>5
  <2> QED
    BY <1>3, <1>4, <2>1 DEF Grows, IsResolved, IsAcked
<1>7. escalationJob' = [todo |-> escalationJob.todo, current |-> None] /\ escalationJob' \in Job
  BY <1>1 DEF EscalateNotify, Job
<1>8. TypeOK'
  BY <1>4, <1>7 DEF EscalateNotify, IInv, TypeOK, TableOK
<1>9. HandlersInv'
  BY <1>6, KnowsStays DEF EscalateNotify, IInv, HandlersInv
<1>10. EscalationInv'
  BY <1>3, <1>4, <1>7 DEF IInv, EscalationInv
<1>11. AutoResolveInv'
  BY <1>6, AutoResolveStays DEF EscalateNotify, IInv
<1>12. RowsInv'
  <2>1. \A k \in Row' : k \in Row \/ (/\ notification'[k].incident = i
                                      /\ notification'[k].type = "Escalation")
    BY <1>4
  <2> QED
    BY <1>1, <1>3, <1>4, <2>1 DEF IInv, RowsInv, IsResolved
<1>13. EscalatedOnce'
  <2> SUFFICES ASSUME NEW j \in Row', NEW k \in Row',
                      notification'[j].type = "Escalation",
                      notification'[k].type = "Escalation",
                      notification'[j].incident = notification'[k].incident
               PROVE  k - j < Len(EscalationChannels) + Len(NotificationChannels)
    BY DEF EscalatedOnce
  <2>1. CASE j \in Row /\ k \in Row
    BY <1>4, <2>1 DEF IInv, EscalatedOnce
  <2>2. CASE j \notin Row /\ k \notin Row
    BY <1>2, <1>4, <1>5, <2>2
  <2>3. \A n \in Row : notification[n].type = "Escalation" => notification[n].incident # i
    BY <1>1 DEF Announced
  <2>4. CASE j \in Row /\ k \notin Row
    BY <1>4, <2>3, <2>4
  <2>5. CASE j \notin Row /\ k \in Row
    BY <1>4, <2>3, <2>5
  <2> QED
    BY <2>1, <2>2, <2>4, <2>5
<1> QED
  BY <1>8, <1>9, <1>10, <1>11, <1>12, <1>13 DEF IInv

LEMMA AutoResolveUpdateKeeps ==
  ASSUME IInv, NEW i \in Id, AutoResolveUpdate(i)
  PROVE  IInv'
<1>1. i \in Exists /\ autoResolveJob \in Job
  BY DEF AutoResolveUpdate, IInv, AutoResolveInv, TypeOK
<1> DEFINE row == [incident[i] EXCEPT !.resolution = "AutoTimeout"]
<1>2. incident[i] \in IncidentRow
  BY <1>1 DEF IInv, TypeOK
<1>3. /\ row \in IncidentRow /\ row.resolution = "AutoTimeout"
      /\ row.isEscalated = incident[i].isEscalated /\ row.ackedBy = incident[i].ackedBy
  BY <1>2 DEF IncidentRow, Resolution
<1>4. incident' = [incident EXCEPT ![i] = row]
  BY <1>1 DEF AutoResolveUpdate
<1> HIDE DEF row
<1>5. /\ TableOK' /\ Exists' = Exists /\ Row' = Row /\ incident'[i] = row
      /\ \A j \in Exists \ {i} : incident'[j] = incident[j]
  BY <1>1, <1>3, <1>4, TablesOK, Updated DEF AutoResolveUpdate, IInv
<1>6. row.resolution # None
  BY <1>3, NoneAssumption DEF Resolution
<1>7. Grows /\ NewRowsOK
  BY <1>3, <1>5, <1>6 DEF AutoResolveUpdate, Grows, NewRowsOK, IsResolved, IsAcked
<1>8. \A j \in Exists : incident'[j].isEscalated = incident[j].isEscalated
  BY <1>3, <1>5
<1>9. /\ autoResolveJob' = [todo |-> autoResolveJob.todo \ {i}, current |-> i]
      /\ autoResolveJob' \in Job
  BY <1>1 DEF AutoResolveUpdate, Job
<1>10. TypeOK'
  BY <1>5, <1>9 DEF AutoResolveUpdate, IInv, TypeOK, TableOK
<1>11. HandlersInv'
  BY <1>7, KnowsStays DEF AutoResolveUpdate, IInv, HandlersInv
<1>12. EscalationInv'
  BY <1>7, <1>8, EscalationStays DEF AutoResolveUpdate, IInv
<1>13. AutoResolveInv'
  BY <1>1, <1>5, <1>6, <1>9 DEF IInv, AutoResolveInv, IsResolved
<1> QED
  BY <1>7, <1>10, <1>11, <1>12, <1>13, RowsStay, EscalatedOnceStays DEF IInv

LEMMA AutoResolveNotifyKeeps ==
  ASSUME IInv, AutoResolveNotify
  PROVE  IInv'
<1> DEFINE i == autoResolveJob.current
<1>1. i \in Exists /\ i \in Id /\ IsResolved(i) /\ autoResolveJob \in Job
  BY DEF AutoResolveNotify, IInv, AutoResolveInv, TypeOK
<1>2. InsertRows(i, NotificationChannels, "Resolution") /\ UNCHANGED incident
  BY DEF AutoResolveNotify
<1> HIDE DEF i
<1>3. /\ TableOK' /\ Exists' = Exists
      /\ Row = 1 .. Len(notification)
      /\ Row' = 1 .. Len(notification) + Len(NotificationChannels)
      /\ \A k \in Row : notification'[k] = notification[k]
      /\ \A k \in Row' \ Row : /\ notification'[k].incident = i
                               /\ notification'[k].type = "Resolution"
  BY <1>1, <1>2, TablesOK, Queued, ConstantsAssumption DEF IInv, NotificationType
<1>4. Len(notification) \in Nat /\ Len(NotificationChannels) \in Nat
  BY ConstantsAssumption DEF IInv, TypeOK
<1>5. Grows /\ NewRowsOK
  <2>1. Row \subseteq Row'
    BY <1>3, <1>4
  <2> QED
    BY <1>1, <1>2, <1>3, <2>1 DEF Grows, NewRowsOK, IsResolved, IsAcked
<1>6. /\ autoResolveJob' = [todo |-> autoResolveJob.todo, current |-> None]
      /\ autoResolveJob' \in Job
  BY <1>1 DEF AutoResolveNotify, Job
<1>7. TypeOK'
  BY <1>3, <1>6 DEF AutoResolveNotify, IInv, TypeOK, TableOK
<1>8. HandlersInv'
  BY <1>5, KnowsStays DEF AutoResolveNotify, IInv, HandlersInv
<1>9. EscalationInv'
  BY <1>2, <1>5, EscalationStays DEF AutoResolveNotify, IInv
<1>10. AutoResolveInv'
  BY <1>3, <1>6 DEF IInv, AutoResolveInv
<1> QED
  BY <1>5, <1>7, <1>8, <1>9, <1>10, RowsStay, EscalatedOnceStays DEF IInv

LEMMA AckReadKeeps ==
  ASSUME IInv, NEW r \in AckReq, NEW i \in Id, AckRead(r, i)
  PROVE  IInv'
<1>1. r \in Req /\ faults' \in 0 .. MaxFaults
  BY DEF Req, AckRead, ServiceSideVars, IInv, TypeOK
<1>2. CASE Finish(r)
  BY <1>1, <1>2, FinishKeeps DEF AckRead, ServiceSideVars
<1>3. CASE i \in Exists /\ Begin(r, "authorize", i)
  BY <1>1, <1>3, BeginKeeps DEF AckRead
<1> QED
  BY <1>2, <1>3 DEF AckRead

LEMMA ResolveReadKeeps ==
  ASSUME IInv, NEW r \in ChainReq \union ManualReq, NEW i \in Id,
         NEW next \in {"authorize", "update"}, ResolveRead(r, i, next)
  PROVE  IInv'
<1>1. r \in Req /\ r \notin AckReq /\ faults' \in 0 .. MaxFaults
  BY RequestsAssumption DEF Req, ResolveRead, ServiceSideVars, IInv, TypeOK
<1>2. CASE Finish(r)
  BY <1>1, <1>2, FinishKeeps DEF ResolveRead, ServiceSideVars
<1>3. CASE i \in Firing /\ Begin(r, next, i)
  BY <1>1, <1>3, BeginKeeps DEF ResolveRead, Firing
<1> QED
  BY <1>2, <1>3 DEF ResolveRead

-----------------------------------------------------------------------------
(***************************************************************************)
(* The invariant is inductive.                                             *)
(***************************************************************************)
LEMMA InitOK == Init => IInv
<1> SUFFICES ASSUME Init PROVE IInv
  OBVIOUS
<1>1. Exists = {} /\ Row = {}
  BY DEF Init, Exists, Row
<1>2. \A r \in Req : req[r] = [pc |-> "idle", id |-> None, body |-> None]
  BY DEF Init
<1>3. NoJob \in Job /\ NoJob.todo = {} /\ NoJob.current = None
  BY DEF NoJob, Job
<1>4. TypeOK
  BY <1>1, <1>3, ConstantsAssumption DEF Init, TypeOK, RequestState, Exists
<1>5. HandlersInv
  BY <1>2 DEF HandlersInv, Knows
<1> QED
  BY <1>1, <1>3, <1>4, <1>5
     DEF Init, IInv, EscalationInv, AutoResolveInv, RowsInv, EscalatedOnce

LEMMA StutterKeeps == IInv /\ UNCHANGED vars => IInv'
<1> SUFFICES ASSUME IInv, UNCHANGED vars PROVE IInv'
  OBVIOUS
<1>1. EscalationInv' /\ AutoResolveInv'
  BY DEF vars, IInv, EscalationInv, AutoResolveInv, Exists, IsResolved, Announced, Row
<1> QED
  BY <1>1, QuietJob DEF vars, IInv, TypeOK

LEMMA StepKeeps == IInv /\ Next => IInv'
<1> SUFFICES ASSUME IInv, Next PROVE IInv'
  OBVIOUS
<1>1. ASSUME NEW r \in CreateReq, Create(r) PROVE IInv'
  <2>1. r \in Req
    BY DEF Req
  <2> QED
    BY <1>1, <2>1, CreateReadKeeps, CreateInsertKeeps, AnnounceKeeps DEF Create
<1>2. ASSUME NEW r \in AckReq, Acknowledge(r) PROVE IInv'
  BY <1>2, AckReadKeeps, AuthorizeKeeps, AckUpdateKeeps DEF Acknowledge
<1>3. ASSUME NEW r \in ChainReq, ResolveByChain(r) PROVE IInv'
  <2>1. r \in Req
    BY DEF Req
  <2> QED
    BY <1>3, <2>1, ResolveReadKeeps, ResolveUpdateKeeps, AnnounceKeeps
       DEF ResolveByChain, Resolution
<1>4. ASSUME NEW r \in ManualReq, ResolveManually(r) PROVE IInv'
  <2>1. r \in Req
    BY DEF Req
  <2> QED
    BY <1>4, <2>1, ResolveReadKeeps, AuthorizeKeeps, ResolveUpdateKeeps, AnnounceKeeps
       DEF ResolveManually, Resolution
<1>5. ASSUME Escalate PROVE IInv'
  BY <1>5, EscalationTickKeeps, EscalateUpdateKeeps, EscalateNotifyKeeps, JobFailsKeeps
     DEF Escalate
<1>6. ASSUME AutoResolve PROVE IInv'
  BY <1>6, AutoResolveTickKeeps, AutoResolveUpdateKeeps, AutoResolveNotifyKeeps,
     JobFailsKeeps
     DEF AutoResolve
<1> QED
  BY <1>1, <1>2, <1>3, <1>4, <1>5, <1>6, RequestFailsKeeps, TimeKeeps, CrashKeeps
     DEF Next, Work

LEMMA Inductive == Spec => []IInv
BY InitOK, StepKeeps, StutterKeeps, PTL DEF Spec

\* Every value of the state stays in its set: requests, rows, jobs and tables are
\* what the handlers and jobs of incident.service.ts and the schema say they are.
THEOREM ServiceTypeCorrect == Spec => []TypeOK
<1>1. IInv => TypeOK
  BY DEF IInv
<1> QED
  BY <1>1, Inductive, PTL

\* A Resolution row is only ever about an incident the table shows as resolved:
\* the three resolvers write before they announce, and nothing reopens.
THEOREM ResolutionsAreAlwaysTrue == Spec => []ResolutionsAreTrue
<1>1. IInv => ResolutionsAreTrue
  BY DEF IInv, RowsInv, ResolutionsAreTrue
<1> QED
  BY <1>1, Inductive, PTL

\* The Escalation rows of an incident come from one insert of escalateIncidents,
\* whatever crashes and failures its ticks go through.
THEOREM EscalationIsOnce == Spec => []EscalatedOnce
<1>1. IInv => EscalatedOnce
  BY DEF IInv
<1> QED
  BY <1>1, Inductive, PTL

-----------------------------------------------------------------------------
(***************************************************************************)
(* The service implements the lifecycle.  First, what each kind of write   *)
(* is in the lifecycle; then each step.                                    *)
(***************************************************************************)
Ackers == [i \in Id |-> Acker(i)]
EscalatedIds == {i \in Exists : incident[i].isEscalated}
AnnouncedRows == 
  {<<notification[k].incident, notification[k].type, notification[k].channel>> : k \in Row}
SamePhases == \A j \in Id : Phase(j)' = Phase(j)

LEMMA StillImplements ==
  ASSUME SamePhases, Ackers' = Ackers, EscalatedIds' = EscalatedIds,
         AnnouncedRows' = AnnouncedRows
  PROVE  UNCHANGED Lifecycle!vars
  BY DEF SamePhases, Ackers, EscalatedIds, AnnouncedRows, Lifecycle!vars

LEMMA QuietImplements ==
  ASSUME TypeOK, UNCHANGED <<notification, incident>>
  PROVE  UNCHANGED Lifecycle!vars
  BY DEF Lifecycle!vars, Phase, Acker, Exists, IsResolved, IsAcked, Row

LEMMA InsertedImplements ==
  ASSUME TableOK, NEW i \in Id \ Exists, NEW body \in Body, notification' = notification,
         incident' = [j \in Exists \union {i} |-> IF j = i THEN NewRow(body) ELSE incident[j]]
  PROVE  Lifecycle!Open(i)
<1>1. /\ Exists' = Exists \union {i} /\ Row' = Row
      /\ incident'[i] = NewRow(body)
      /\ \A j \in Exists : incident'[j] = incident[j]
  BY Inserted
<1>2. /\ Phase(i) = "absent" /\ Phase(i)' \in {"open", "resolved"}
      /\ \A j \in Id \ {i} : Phase(j)' = Phase(j)
  BY <1>1 DEF Phase, IsResolved
<1>3. incident'[i].ackedBy = None /\ incident'[i].isEscalated = FALSE
  BY <1>1 DEF NewRow
<1>4. Ackers' = Ackers /\ EscalatedIds' = EscalatedIds /\ AnnouncedRows' = AnnouncedRows
  BY <1>1, <1>3 DEF Ackers, Acker, EscalatedIds, AnnouncedRows, IsAcked
<1> QED
  BY <1>2, <1>4 DEF Lifecycle!Open, Ackers, EscalatedIds, AnnouncedRows

LEMMA ResolvedImplements ==
  ASSUME TableOK, NEW i \in Exists, NEW resolution \in Resolution,
         notification' = notification,
         incident' = [incident EXCEPT ![i].resolution = resolution]
  PROVE  Lifecycle!Resolve(i) \/ UNCHANGED Lifecycle!vars
<1> DEFINE row == [incident[i] EXCEPT !.resolution = resolution]
<1>1. incident[i] \in IncidentRow /\ i \in Id
  BY DEF TableOK
<1>2. /\ row \in IncidentRow /\ row.resolution = resolution
      /\ row.isEscalated = incident[i].isEscalated /\ row.ackedBy = incident[i].ackedBy
  BY <1>1 DEF IncidentRow
<1>3. incident' = [incident EXCEPT ![i] = row]
  OBVIOUS
<1> HIDE DEF row
<1>4. /\ Exists' = Exists /\ Row' = Row /\ incident'[i] = row
      /\ \A j \in Exists \ {i} : incident'[j] = incident[j]
  BY <1>2, <1>3, Updated
<1>5. resolution # None
  BY NoneAssumption
<1>6. Ackers' = Ackers /\ EscalatedIds' = EscalatedIds /\ AnnouncedRows' = AnnouncedRows
  BY <1>2, <1>4 DEF Ackers, Acker, EscalatedIds, AnnouncedRows, IsAcked
<1>7. Phase(i)' = "resolved" /\ \A j \in Id \ {i} : Phase(j)' = Phase(j)
  BY <1>2, <1>4, <1>5 DEF Phase, IsResolved
<1>8. CASE Phase(i) = "open"
  BY <1>1, <1>6, <1>7, <1>8
     DEF Lifecycle!Resolve, Ackers, EscalatedIds, AnnouncedRows
<1>9. CASE Phase(i) = "resolved"
  BY <1>6, <1>7, <1>9, StillImplements DEF SamePhases
<1> QED
  BY <1>8, <1>9 DEF Phase

LEMMA AckedImplements ==
  ASSUME TableOK, NEW i \in Exists, NEW r \in AckReq, notification' = notification,
         incident' = [incident EXCEPT ![i].ackedBy = r],
         HasNotification(i, ChannelOf[r])
  PROVE  Lifecycle!Acknowledge(i, ChannelOf[r])
<1> DEFINE row == [incident[i] EXCEPT !.ackedBy = r]
<1>1. incident[i] \in IncidentRow /\ i \in Id
  BY DEF TableOK
<1>2. /\ row \in IncidentRow /\ row.resolution = incident[i].resolution
      /\ row.isEscalated = incident[i].isEscalated /\ row.ackedBy = r
  BY <1>1 DEF IncidentRow
<1>3. incident' = [incident EXCEPT ![i] = row]
  OBVIOUS
<1> HIDE DEF row
<1>4. /\ Exists' = Exists /\ Row' = Row /\ incident'[i] = row
      /\ \A j \in Exists \ {i} : incident'[j] = incident[j]
  BY <1>2, <1>3, Updated
<1>5. r # None
  BY NoneAssumption DEF Req
<1>6. Ackers' = [Ackers EXCEPT ![i] = ChannelOf[r]]
  <2>1. Acker(i)' = ChannelOf[r]
    BY <1>2, <1>4, <1>5 DEF Acker, IsAcked
  <2>2. \A j \in Id \ {i} : Acker(j)' = Acker(j)
    BY <1>4 DEF Acker, IsAcked
  <2> HIDE DEF Acker
  <2> QED
    BY <1>1, <2>1, <2>2 DEF Ackers
<1>7. EscalatedIds' = EscalatedIds /\ AnnouncedRows' = AnnouncedRows /\ SamePhases
  BY <1>2, <1>4 DEF EscalatedIds, AnnouncedRows, SamePhases, Phase, IsResolved
<1>8. \E type \in Lifecycle!Type : <<i, type, ChannelOf[r]>> \in AnnouncedRows
  <2>1. PICK k \in Row : /\ notification[k].incident = i
                         /\ notification[k].channel = ChannelOf[r]
    BY DEF HasNotification
  <2>2. notification[k] \in NotificationRow
    BY DEF TableOK, Row
  <2>3. notification[k].type \in Lifecycle!Type
    BY <2>2 DEF NotificationRow, NotificationType, Lifecycle!Type
  <2>4. <<i, notification[k].type, ChannelOf[r]>> \in AnnouncedRows
    BY <2>1 DEF AnnouncedRows
  <2> QED
    BY <2>3, <2>4
<1> QED
  BY <1>6, <1>7, <1>8
     DEF Lifecycle!Acknowledge, Ackers, EscalatedIds, AnnouncedRows, SamePhases

LEMMA EscalatedImplements ==
  ASSUME TableOK, NEW i \in Exists, ~incident[i].isEscalated, notification' = notification,
         incident' = [incident EXCEPT ![i].isEscalated = TRUE]
  PROVE  Lifecycle!Escalate(i)
<1> DEFINE row == [incident[i] EXCEPT !.isEscalated = TRUE]
<1>1. incident[i] \in IncidentRow /\ i \in Id
  BY DEF TableOK
<1>2. /\ row \in IncidentRow /\ row.resolution = incident[i].resolution
      /\ row.isEscalated /\ row.ackedBy = incident[i].ackedBy
  BY <1>1 DEF IncidentRow
<1>3. incident' = [incident EXCEPT ![i] = row]
  OBVIOUS
<1> HIDE DEF row
<1>4. /\ Exists' = Exists /\ Row' = Row /\ incident'[i] = row
      /\ \A j \in Exists \ {i} : incident'[j] = incident[j]
  BY <1>2, <1>3, Updated
<1>5. EscalatedIds' = EscalatedIds \union {i} /\ i \notin EscalatedIds
  BY <1>2, <1>4 DEF EscalatedIds
<1>6. Ackers' = Ackers /\ AnnouncedRows' = AnnouncedRows /\ SamePhases
  BY <1>2, <1>4 DEF Ackers, Acker, IsAcked, AnnouncedRows, SamePhases, Phase, IsResolved
<1>7. Phase(i) # "absent"
  BY DEF Phase
<1> QED
  BY <1>1, <1>5, <1>6, <1>7
     DEF Lifecycle!Escalate, Ackers, EscalatedIds, AnnouncedRows, SamePhases

\* The channels of a list.
ChannelsIn(channels) == {channels[k].channel : k \in 1 .. Len(channels)}

LEMMA ListedChannels ==
  ASSUME NEW channels \in Seq(ChannelEntry), channels # <<>>
  PROVE  ChannelsIn(channels) \in (SUBSET Channel) \ {{}}
<1>1. \A k \in 1 .. Len(channels) : channels[k] \in ChannelEntry
  OBVIOUS
<1>2. 1 \in 1 .. Len(channels)
  OBVIOUS
<1> QED
  BY <1>1, <1>2 DEF ChannelsIn, ChannelEntry

LEMMA QueuedImplements ==
  ASSUME TableOK, NEW i \in Exists, NEW channels \in Seq(ChannelEntry), channels # <<>>,
         NEW type \in NotificationType, InsertRows(i, channels, type), incident' = incident,
         type = "Resolution" => IsResolved(i),
         type = "Escalation" => incident[i].isEscalated
  PROVE  Lifecycle!Announce(i, type, ChannelsIn(channels))
<1>1. i \in Id
  BY DEF TableOK
<1>2. /\ Exists' = Exists
      /\ Row = 1 .. Len(notification)
      /\ Row' = 1 .. Len(notification) + Len(channels)
      /\ \A k \in Row : notification'[k] = notification[k]
      /\ \A k \in Row' \ Row : /\ notification'[k].incident = i
                               /\ notification'[k].type = type
      /\ \A k \in 1 .. Len(channels) :
           notification'[Len(notification) + k].channel = channels[k].channel
  BY <1>1, Queued
<1>3. Len(notification) \in Nat /\ Len(channels) \in Nat /\ Len(channels) # 0
  BY DEF TableOK
<1> DEFINE new == {<<i, type, c>> : c \in ChannelsIn(channels)}
<1>4. Row \subseteq Row'
  BY <1>2, <1>3
<1>5. AnnouncedRows' = AnnouncedRows \union new
  <2>1. ASSUME NEW k \in Row' \ Row
        PROVE  <<notification'[k].incident, notification'[k].type, notification'[k].channel>>
                 \in new
    <3>1. /\ k - Len(notification) \in 1 .. Len(channels)
          /\ Len(notification) + (k - Len(notification)) = k
      BY <1>2, <1>3
    <3>2. notification'[k].channel = channels[k - Len(notification)].channel
      BY <1>2, <3>1
    <3>3. notification'[k].channel \in ChannelsIn(channels)
      BY <3>1, <3>2 DEF ChannelsIn
    <3> QED
      BY <1>2, <3>3
  <2>2. ASSUME NEW k \in 1 .. Len(channels)
        PROVE  <<i, type, channels[k].channel>> \in AnnouncedRows'
    <3>1. Len(notification) + k \in Row' \ Row
      BY <1>2, <1>3
    <3> QED
      BY <1>2, <3>1 DEF AnnouncedRows
  <2>3. \A k \in Row : notification'[k] = notification[k] /\ k \in Row'
    BY <1>2, <1>4
  <2>4. new \subseteq AnnouncedRows'
    BY <2>2 DEF ChannelsIn
  <2>5. AnnouncedRows \subseteq AnnouncedRows'
    BY <2>3 DEF AnnouncedRows
  <2>6. AnnouncedRows' \subseteq AnnouncedRows \union new
    BY <2>1, <2>3 DEF AnnouncedRows
  <2> QED
    BY <2>4, <2>5, <2>6
<1>6. Ackers' = Ackers /\ EscalatedIds' = EscalatedIds /\ SamePhases
  BY <1>2 DEF Ackers, Acker, EscalatedIds, IsAcked, SamePhases, Phase, IsResolved
<1>7. /\ Phase(i) # "absent"
      /\ type = "Resolution" => Phase(i) = "resolved"
      /\ type = "Escalation" => i \in EscalatedIds
  BY DEF Phase, EscalatedIds
<1> QED
  BY <1>1, <1>5, <1>6, <1>7
     DEF Lifecycle!Announce, Ackers, EscalatedIds, AnnouncedRows, SamePhases

LEMMA CreateImplements ==
  ASSUME IInv, NEW r \in CreateReq, Create(r)
  PROVE  [Lifecycle!Next]_Lifecycle!vars
<1>1. r \in Req /\ TableOK
  BY TablesOK DEF Req, IInv
<1>2. ASSUME NEW body \in Bodies, CreateRead(r, body) PROVE UNCHANGED Lifecycle!vars
  BY <1>2, QuietImplements DEF CreateRead, IInv
<1>3. ASSUME NEW i \in Id, CreateInsert(r, i) PROVE Lifecycle!Open(i)
  <2>1. req[r].body \in Body
    BY <1>1, <1>3 DEF CreateInsert, IInv, HandlersInv, Knows
  <2> QED
    BY <1>1, <1>3, <2>1, InsertedImplements DEF CreateInsert
<1>4. ASSUME Announce(r, "Alert")
      PROVE  /\ req[r].id \in Id
             /\ Lifecycle!Announce(req[r].id, "Alert", ChannelsIn(NotificationChannels))
  <2>1. req[r].id \in Exists /\ req[r].id \in Id
    BY <1>1, <1>4 DEF Announce, IInv, HandlersInv, Knows, TableOK
  <2> QED
    BY <1>1, <1>4, <2>1, QueuedImplements, ConstantsAssumption DEF Announce, NotificationType
<1> QED
  BY <1>2, <1>3, <1>4, ListedChannels, ConstantsAssumption
     DEF Create, Lifecycle!Next, Lifecycle!Type

LEMMA AcknowledgeImplements ==
  ASSUME IInv, NEW r \in AckReq, Acknowledge(r)
  PROVE  [Lifecycle!Next]_Lifecycle!vars
<1>1. ASSUME NEW i \in Id, AckRead(r, i) PROVE UNCHANGED Lifecycle!vars
  BY <1>1, QuietImplements DEF AckRead, IInv
<1>2. ASSUME Authorize(r) PROVE UNCHANGED Lifecycle!vars
  BY <1>2, QuietImplements DEF Authorize, IInv
<1>3. ASSUME AckUpdate(r) PROVE req[r].id \in Id /\ Lifecycle!Acknowledge(req[r].id, ChannelOf[r])
  <2>1. /\ req[r].id \in Exists /\ TableOK
        /\ HasNotification(req[r].id, ChannelOf[r])
    BY <1>3, TablesOK DEF AckUpdate, IInv, HandlersInv, Knows, Req
  <2> QED
    BY <1>3, <2>1, AckedImplements DEF AckUpdate, TableOK
<1> QED
  BY <1>1, <1>2, <1>3, RequestsAssumption DEF Acknowledge, Lifecycle!Next

LEMMA ResolveImplements ==
  ASSUME IInv, NEW r \in ChainReq \union ManualReq, ResolveByChain(r) \/ ResolveManually(r)
  PROVE  [Lifecycle!Next]_Lifecycle!vars
<1>1. r \in Req /\ TableOK
  BY TablesOK DEF Req, IInv
<1>2. ASSUME NEW i \in Id, ResolveRead(r, i, "update") \/ ResolveRead(r, i, "authorize")
      PROVE  UNCHANGED Lifecycle!vars
  BY <1>2, QuietImplements DEF ResolveRead, IInv
<1>3. ASSUME Authorize(r) PROVE UNCHANGED Lifecycle!vars
  BY <1>3, QuietImplements DEF Authorize, IInv
<1>4. ASSUME NEW resolution \in Resolution, ResolveUpdate(r, resolution)
      PROVE  /\ req[r].id \in Id
             /\ Lifecycle!Resolve(req[r].id) \/ UNCHANGED Lifecycle!vars
  <2>1. req[r].id \in Exists
    BY <1>1, <1>4 DEF ResolveUpdate, IInv, HandlersInv, Knows
  <2> QED
    BY <1>1, <1>4, <2>1, ResolvedImplements DEF ResolveUpdate, TableOK
<1>5. ASSUME Announce(r, "Resolution")
      PROVE  /\ req[r].id \in Id
             /\ Lifecycle!Announce(req[r].id, "Resolution", ChannelsIn(NotificationChannels))
  <2>1. req[r].id \in Exists /\ req[r].id \in Id /\ IsResolved(req[r].id)
    BY <1>1, <1>5 DEF Announce, IInv, HandlersInv, Knows, TableOK
  <2> QED
    BY <1>1, <1>5, <2>1, QueuedImplements, ConstantsAssumption DEF Announce, NotificationType
<1>6. "ChainService" \in Resolution /\ "Manual" \in Resolution
  BY DEF Resolution
<1> QED
  BY <1>2, <1>3, <1>4, <1>5, <1>6, ListedChannels, ConstantsAssumption
     DEF ResolveByChain, ResolveManually, Lifecycle!Next, Lifecycle!Type

LEMMA EscalateImplements ==
  ASSUME IInv, Escalate
  PROVE  [Lifecycle!Next]_Lifecycle!vars
<1>1. TableOK
  BY TablesOK DEF IInv
<1>2. ASSUME EscalationTick \/ EscalationJobFails PROVE UNCHANGED Lifecycle!vars
  BY <1>2, QuietImplements DEF EscalationTick, EscalationJobFails, IInv
<1>3. ASSUME NEW i \in Id, EscalateUpdate(i) PROVE Lifecycle!Escalate(i)
  <2>1. i \in Exists /\ ~incident[i].isEscalated
    BY <1>3 DEF EscalateUpdate, IInv, EscalationInv
  <2> QED
    BY <1>1, <1>3, <2>1, EscalatedImplements DEF EscalateUpdate
<1>4. ASSUME EscalateNotify
      PROVE  /\ escalationJob.current \in Id
             /\ \E announced \in (SUBSET Channel) \ {{}} :
                  Lifecycle!Announce(escalationJob.current, "Escalation", announced)
  <2> DEFINE i == escalationJob.current
             channels == EscalationChannels \o NotificationChannels
  <2>1. i \in Exists /\ i \in Id /\ incident[i].isEscalated
    BY <1>1, <1>4 DEF EscalateNotify, IInv, EscalationInv, TableOK
  <2>2. /\ channels \in Seq(ChannelEntry)
        /\ Len(channels) = Len(EscalationChannels) + Len(NotificationChannels)
    BY ConstantsAssumption, ConcatProperties
  <2>3. Len(EscalationChannels) \in Nat /\ Len(NotificationChannels) \in Nat \ {0}
    BY ConstantsAssumption
  <2>4. InsertRows(i, channels, "Escalation") /\ incident' = incident
    BY <1>4 DEF EscalateNotify
  <2> HIDE DEF i, channels
  <2>5. channels # <<>>
    BY <2>2, <2>3
  <2>6. Lifecycle!Announce(i, "Escalation", ChannelsIn(channels))
    BY <1>1, <2>1, <2>2, <2>4, <2>5, QueuedImplements DEF NotificationType
  <2>7. ChannelsIn(channels) \in (SUBSET Channel) \ {{}}
    BY <2>2, <2>5, ListedChannels
  <2> QED
    BY <2>1, <2>6, <2>7 DEF i
<1> QED
  BY <1>2, <1>3, <1>4 DEF Escalate, Lifecycle!Next, Lifecycle!Type

LEMMA AutoResolveImplements ==
  ASSUME IInv, AutoResolve
  PROVE  [Lifecycle!Next]_Lifecycle!vars
<1>1. TableOK
  BY TablesOK DEF IInv
<1>2. ASSUME AutoResolveTick \/ AutoResolveJobFails PROVE UNCHANGED Lifecycle!vars
  BY <1>2, QuietImplements DEF AutoResolveTick, AutoResolveJobFails, IInv
<1>3. ASSUME NEW i \in Id, AutoResolveUpdate(i)
      PROVE  Lifecycle!Resolve(i) \/ UNCHANGED Lifecycle!vars
  <2>1. i \in Exists
    BY <1>3 DEF AutoResolveUpdate, IInv, AutoResolveInv
  <2> QED
    BY <1>1, <1>3, <2>1, ResolvedImplements DEF AutoResolveUpdate, Resolution
<1>4. ASSUME AutoResolveNotify
      PROVE  /\ autoResolveJob.current \in Id
             /\ Lifecycle!Announce(autoResolveJob.current, "Resolution",
                                   ChannelsIn(NotificationChannels))
  <2>1. /\ autoResolveJob.current \in Exists /\ autoResolveJob.current \in Id
        /\ IsResolved(autoResolveJob.current)
    BY <1>1, <1>4 DEF AutoResolveNotify, IInv, AutoResolveInv, TableOK
  <2> QED
    BY <1>1, <1>4, <2>1, QueuedImplements, ConstantsAssumption
       DEF AutoResolveNotify, NotificationType
<1> QED
  BY <1>2, <1>3, <1>4, ListedChannels, ConstantsAssumption
     DEF AutoResolve, Lifecycle!Next, Lifecycle!Type

LEMMA StepImplements == IInv /\ [Next]_vars => [Lifecycle!Next]_Lifecycle!vars
<1> SUFFICES ASSUME IInv, [Next]_vars PROVE [Lifecycle!Next]_Lifecycle!vars
  OBVIOUS
<1>1. ASSUME UNCHANGED <<notification, incident>> PROVE UNCHANGED Lifecycle!vars
  BY <1>1, QuietImplements DEF IInv
<1>2. CASE UNCHANGED vars \/ Crash
  BY <1>1, <1>2 DEF vars, Crash
<1>3. CASE \E r \in Req : RequestFails(r)
  BY <1>1, <1>3 DEF RequestFails
<1>4. CASE \E i \in Id : BecomeOverdue(i) \/ BecomeStale(i)
  BY <1>1, <1>4 DEF BecomeOverdue, BecomeStale
<1> QED
  BY <1>2, <1>3, <1>4, CreateImplements, AcknowledgeImplements, ResolveImplements,
     EscalateImplements, AutoResolveImplements
     DEF Next, Work

LEMMA InitImplements == Init => Lifecycle!Init
<1> SUFFICES ASSUME Init PROVE Lifecycle!Init
  OBVIOUS
<1>1. Exists = {} /\ Row = {}
  BY DEF Init, Exists, Row
<1> QED
  BY <1>1 DEF Lifecycle!Init, Phase, Acker

\* The handlers and jobs implement the lifecycle: none of them, acting on what it
\* read earlier, reopens an incident or announces what is not so, and nobody
\* acknowledges an incident from a channel that has no row for it.
THEOREM ServiceImplementsLifecycle == Spec => ImplementsLifecycle
<1>1. Init => Lifecycle!Init
  BY InitImplements
<1>2. IInv /\ [Next]_vars => [Lifecycle!Next]_Lifecycle!vars
  BY StepImplements
<1> QED
  BY <1>1, <1>2, Inductive, PTL DEF Spec, Lifecycle!Spec, ImplementsLifecycle

-----------------------------------------------------------------------------
(***************************************************************************)
(* Without a fault, whoever writes an incident still stands before its     *)
(* announcement, or has made it.  The step that ends such a stand is the   *)
(* announcement; only a fault ends it otherwise.                           *)
(***************************************************************************)
\* Nothing is lost of incident i.
Kept(i) ==
  /\ Announced(i, "Alert") \/ Announcing(i, CreateReq)
  /\ IsResolved(i) /\ ~incident[i].body.isResolved =>
       \/ Announced(i, "Resolution")
       \/ Announcing(i, ChainReq \union ManualReq)
       \/ autoResolveJob.current = i
  /\ incident[i].isEscalated => Announced(i, "Escalation") \/ escalationJob.current = i

LEMMA AnnouncedStays ==
  ASSUME Grows, NEW i, NEW type, Announced(i, type)
  PROVE  Announced(i, type)'
  BY DEF Grows, Announced

\* No handler that is about to announce moves.
Waiting == \A s \in Req : req[s].pc = "notify" => req'[s] = req[s]

LEMMA AnnouncingStays ==
  ASSUME Waiting, NEW i, NEW reqs \in SUBSET Req, Announcing(i, reqs)
  PROVE  Announcing(i, reqs)'
  BY DEF Waiting, Announcing

LEMMA RequestSets ==
  /\ CreateReq \in SUBSET Req
  /\ ChainReq \union ManualReq \in SUBSET Req
  BY DEF Req

\* A step that announces nothing and writes nothing about i keeps what is kept.
LEMMA KeptStays ==
  ASSUME Grows, Waiting, NEW i \in Exists, Kept(i),
         incident'[i].isEscalated = incident[i].isEscalated,
         incident'[i].resolution = incident[i].resolution,
         incident'[i].body = incident[i].body,
         autoResolveJob.current # None => autoResolveJob'.current = autoResolveJob.current,
         escalationJob.current # None => escalationJob'.current = escalationJob.current,
         i # None
  PROVE  Kept(i)'
<1>1. Announced(i, "Alert")' \/ Announcing(i, CreateReq)'
  BY AnnouncedStays, AnnouncingStays, RequestSets DEF Kept
<1>2. IsResolved(i)' /\ ~incident'[i].body.isResolved =>
        \/ Announced(i, "Resolution")'
        \/ Announcing(i, ChainReq \union ManualReq)'
        \/ autoResolveJob'.current = i
  BY AnnouncedStays, AnnouncingStays, RequestSets DEF Kept, IsResolved
<1>3. incident'[i].isEscalated => Announced(i, "Escalation")' \/ escalationJob'.current = i
  BY AnnouncedStays DEF Kept
<1> QED
  BY <1>1, <1>2, <1>3 DEF Kept

\* Every step that writes no table, or fails.
LEMMA QuietLosesNothing ==
  ASSUME IInv, NothingLostWithoutFault, UNCHANGED <<notification, incident, faults>>, Waiting,
         autoResolveJob.current # None => autoResolveJob'.current = autoResolveJob.current,
         escalationJob.current # None => escalationJob'.current = escalationJob.current
  PROVE  NothingLostWithoutFault'
<1> SUFFICES ASSUME faults = 0, NEW i \in Exists' PROVE Kept(i)'
  BY DEF NothingLostWithoutFault, Kept
<1>1. Grows /\ Exists' = Exists
  BY Still DEF IInv
<1>2. i \in Exists /\ Kept(i) /\ i # None
  BY <1>1, NoneAssumption DEF NothingLostWithoutFault, Kept, IInv, TypeOK
<1> QED
  BY <1>1, <1>2, KeptStays

LEMMA FaultLosesNothing ==
  ASSUME TypeOK, faults' = faults + 1
  PROVE  NothingLostWithoutFault'
  BY DEF TypeOK, NothingLostWithoutFault

LEMMA CreateInsertLosesNothing ==
  ASSUME IInv, NothingLostWithoutFault, NEW r \in CreateReq, NEW i \in Id, CreateInsert(r, i)
  PROVE  NothingLostWithoutFault'
<1>1. r \in Req /\ req[r] \in RequestState
  BY DEF Req, IInv, TypeOK
<1>2. req[r].body \in Body /\ i \in Id \ Exists
  BY <1>1 DEF CreateInsert, IInv, HandlersInv, Knows
<1>3. /\ TableOK' /\ Exists' = Exists \union {i} /\ Row' = Row
      /\ incident'[i] = NewRow(req[r].body)
      /\ \A j \in Exists : incident'[j] = incident[j]
  BY <1>2, TablesOK, Inserted DEF CreateInsert, IInv
<1>4. Grows /\ Waiting
  BY <1>1, <1>3 DEF CreateInsert, Begin, Grows, Waiting, IsResolved, IsAcked, IInv, TypeOK
<1>5. req'[r].pc = "notify" /\ req'[r].id = i
  BY <1>1 DEF IInv, TypeOK, RequestState, CreateInsert, Begin
<1>6. Kept(i)'
  BY <1>3, <1>5 DEF Kept, Announcing, NewRow, IsResolved
<1>7. faults = 0 => \A j \in Exists : Kept(j)'
  <2> SUFFICES ASSUME faults = 0, NEW j \in Exists PROVE Kept(j)'
    OBVIOUS
  <2>1. Kept(j) /\ j # None
    BY NoneAssumption DEF NothingLostWithoutFault, Kept, IInv, TypeOK
  <2> QED
    BY <1>3, <1>4, <2>1, KeptStays DEF CreateInsert, ServiceSideVars
<1> QED
  BY <1>3, <1>6, <1>7 DEF NothingLostWithoutFault, Kept, CreateInsert, ServiceSideVars

LEMMA AckUpdateLosesNothing ==
  ASSUME IInv, NothingLostWithoutFault, NEW r \in AckReq, AckUpdate(r)
  PROVE  NothingLostWithoutFault'
<1>1. r \in Req /\ req[r].id \in Exists
  BY DEF AckUpdate, IInv, HandlersInv, Knows, Req
<1> DEFINE i == req[r].id  row == [incident[i] EXCEPT !.ackedBy = r]
<1>2. incident[i] \in IncidentRow
  BY <1>1 DEF IInv, TypeOK
<1>3. /\ row \in IncidentRow /\ row.resolution = incident[i].resolution
      /\ row.isEscalated = incident[i].isEscalated /\ row.body = incident[i].body
      /\ row.ackedBy # None
  BY <1>1, <1>2, NoneAssumption DEF IncidentRow
<1>4. incident' = [incident EXCEPT ![i] = row]
  BY <1>1 DEF AckUpdate
<1> HIDE DEF row
<1>5. /\ TableOK' /\ Exists' = Exists /\ Row' = Row /\ incident'[i] = row
      /\ \A j \in Exists \ {i} : incident'[j] = incident[j]
  BY <1>1, <1>3, <1>4, TablesOK, Updated DEF AckUpdate, IInv
<1>6. Grows
  BY <1>3, <1>5 DEF AckUpdate, Grows, IsResolved, IsAcked
<1>7. Waiting
  BY <1>1 DEF AckUpdate, Finish, Waiting, IInv, TypeOK
<1>8. ASSUME faults = 0, NEW j \in Exists PROVE Kept(j)'
  <2>1. Kept(j) /\ j # None
    BY <1>8, NoneAssumption DEF NothingLostWithoutFault, Kept, IInv, TypeOK
  <2>2. /\ incident'[j].isEscalated = incident[j].isEscalated
        /\ incident'[j].resolution = incident[j].resolution
        /\ incident'[j].body = incident[j].body
    BY <1>3, <1>5
  <2> QED
    BY <1>6, <1>7, <2>1, <2>2, KeptStays DEF AckUpdate, ServiceSideVars
<1> QED
  BY <1>5, <1>8 DEF NothingLostWithoutFault, Kept, AckUpdate, ServiceSideVars

\* A write of the resolution of i by somebody who then stands before announcing it.
LEMMA ResolvedLosesNothing ==
  ASSUME IInv, NothingLostWithoutFault, Waiting, NEW i \in Exists,
         NEW resolution \in Resolution, incident' = [incident EXCEPT ![i].resolution = resolution],
         UNCHANGED <<notification, escalationJob, faults>>,
         Announcing(i, ChainReq \union ManualReq)' \/ autoResolveJob'.current = i,
         autoResolveJob.current # None => autoResolveJob'.current = autoResolveJob.current
  PROVE  NothingLostWithoutFault'
<1> DEFINE row == [incident[i] EXCEPT !.resolution = resolution]
<1>1. incident[i] \in IncidentRow
  BY DEF IInv, TypeOK
<1>2. /\ row \in IncidentRow /\ row.resolution # None /\ row.ackedBy = incident[i].ackedBy
      /\ row.isEscalated = incident[i].isEscalated /\ row.body = incident[i].body
  BY <1>1, NoneAssumption DEF IncidentRow
<1>3. incident' = [incident EXCEPT ![i] = row]
  OBVIOUS
<1> HIDE DEF row
<1>4. /\ TableOK' /\ Exists' = Exists /\ Row' = Row /\ incident'[i] = row
      /\ \A j \in Exists \ {i} : incident'[j] = incident[j]
  BY <1>2, <1>3, TablesOK, Updated DEF IInv
<1>5. Grows
  BY <1>2, <1>4 DEF Grows, IsResolved, IsAcked
<1>6. ASSUME faults = 0, NEW j \in Exists PROVE Kept(j)'
  <2>1. Kept(j) /\ j # None
    BY <1>6, NoneAssumption DEF NothingLostWithoutFault, Kept, IInv, TypeOK
  <2>2. CASE j # i
    BY <1>4, <1>5, <2>1, <2>2, KeptStays
  <2>3. CASE j = i
    <3>1. Announced(i, "Alert")' \/ Announcing(i, CreateReq)'
      BY <1>5, <2>1, <2>3, AnnouncedStays, AnnouncingStays, RequestSets DEF Kept
    <3>2. incident'[i].isEscalated => Announced(i, "Escalation")' \/ escalationJob'.current = i
      BY <1>2, <1>4, <1>5, <2>1, <2>3, AnnouncedStays DEF Kept
    <3> QED
      BY <2>3, <3>1, <3>2 DEF Kept
  <2> QED
    BY <2>2, <2>3
<1> QED
  BY <1>4, <1>6 DEF NothingLostWithoutFault, Kept

LEMMA ResolveUpdateLosesNothing ==
  ASSUME IInv, NothingLostWithoutFault, NEW r \in ChainReq \union ManualReq,
         NEW resolution \in Resolution, ResolveUpdate(r, resolution)
  PROVE  NothingLostWithoutFault'
<1>1. r \in Req /\ req[r].id \in Exists /\ req[r] \in RequestState
  BY DEF ResolveUpdate, IInv, HandlersInv, Knows, Req, TypeOK
<1>2. Waiting /\ req'[r].pc = "notify" /\ req'[r].id = req[r].id
  BY <1>1 DEF ResolveUpdate, Goto, Waiting, RequestState, IInv, TypeOK
<1>3. Announcing(req[r].id, ChainReq \union ManualReq)'
  BY <1>2 DEF Announcing
<1> QED
  BY <1>1, <1>2, <1>3, ResolvedLosesNothing DEF ResolveUpdate, ServiceSideVars

LEMMA AutoResolveUpdateLosesNothing ==
  ASSUME IInv, NothingLostWithoutFault, NEW i \in Id, AutoResolveUpdate(i)
  PROVE  NothingLostWithoutFault'
<1>1. i \in Exists /\ "AutoTimeout" \in Resolution
  BY DEF AutoResolveUpdate, IInv, AutoResolveInv, Resolution
<1>2. Waiting /\ autoResolveJob'.current = i
  BY DEF AutoResolveUpdate, Waiting
<1> QED
  BY <1>1, <1>2, ResolvedLosesNothing DEF AutoResolveUpdate

LEMMA EscalateUpdateLosesNothing ==
  ASSUME IInv, NothingLostWithoutFault, NEW i \in Id, EscalateUpdate(i)
  PROVE  NothingLostWithoutFault'
<1> DEFINE row == [incident[i] EXCEPT !.isEscalated = TRUE]
<1>1. i \in Exists /\ incident[i] \in IncidentRow
  BY DEF EscalateUpdate, IInv, EscalationInv, TypeOK
<1>2. /\ row \in IncidentRow /\ row.ackedBy = incident[i].ackedBy /\ row.isEscalated
      /\ row.resolution = incident[i].resolution /\ row.body = incident[i].body
  BY <1>1 DEF IncidentRow
<1>3. incident' = [incident EXCEPT ![i] = row]
  BY DEF EscalateUpdate
<1> HIDE DEF row
<1>4. /\ TableOK' /\ Exists' = Exists /\ Row' = Row /\ incident'[i] = row
      /\ \A j \in Exists \ {i} : incident'[j] = incident[j]
  BY <1>1, <1>2, <1>3, TablesOK, Updated DEF EscalateUpdate, IInv
<1>5. Grows /\ Waiting
  BY <1>2, <1>4 DEF EscalateUpdate, Grows, IsResolved, IsAcked, Waiting
<1>6. escalationJob'.current = i /\ autoResolveJob' = autoResolveJob
  BY DEF EscalateUpdate
<1>7. ASSUME faults = 0, NEW j \in Exists PROVE Kept(j)'
  <2>1. Kept(j) /\ j # None
    BY <1>7, NoneAssumption DEF NothingLostWithoutFault, Kept, IInv, TypeOK
  <2>2. CASE j # i
    BY <1>4, <1>5, <1>6, <2>1, <2>2, KeptStays DEF EscalateUpdate
  <2>3. CASE j = i
    <3>1. Announced(i, "Alert")' \/ Announcing(i, CreateReq)'
      BY <1>5, <2>1, <2>3, AnnouncedStays, AnnouncingStays, RequestSets DEF Kept
    <3>2. IsResolved(i)' /\ ~incident'[i].body.isResolved =>
            \/ Announced(i, "Resolution")'
            \/ Announcing(i, ChainReq \union ManualReq)'
            \/ autoResolveJob'.current = i
      BY <1>2, <1>4, <1>5, <1>6, <2>1, <2>3, AnnouncedStays, AnnouncingStays, RequestSets
         DEF Kept, IsResolved
    <3> QED
      BY <1>6, <2>3, <3>1, <3>2 DEF Kept
  <2> QED
    BY <2>2, <2>3
<1> QED
  BY <1>4, <1>7 DEF NothingLostWithoutFault, Kept, EscalateUpdate

\* An insert of rows about i, by a handler or a job that then stands there no more.
LEMMA QueuedLosesNothing ==
  ASSUME IInv, NothingLostWithoutFault, NEW i \in Exists, NEW channels \in Seq(ChannelEntry),
         channels # <<>>, NEW type \in NotificationType, InsertRows(i, channels, type),
         UNCHANGED <<incident, faults>>,
         \A j \in Exists \ {i}, reqs \in SUBSET Req :
           Announcing(j, reqs) => Announcing(j, reqs)',
         type # "Alert" /\ Announcing(i, CreateReq) => Announcing(i, CreateReq)',
         type # "Resolution" =>
           /\ Announcing(i, ChainReq \union ManualReq) =>
                Announcing(i, ChainReq \union ManualReq)'
           /\ autoResolveJob.current = i => autoResolveJob'.current = i,
         type # "Escalation" => (escalationJob.current = i => escalationJob'.current = i),
         \A j \in Exists \ {i} :
           /\ autoResolveJob.current = j => autoResolveJob'.current = j
           /\ escalationJob.current = j => escalationJob'.current = j
  PROVE  NothingLostWithoutFault'
<1>1. i \in Id /\ TableOK
  BY TablesOK DEF IInv, TableOK
<1>2. /\ TableOK' /\ Exists' = Exists
      /\ Row = 1 .. Len(notification)
      /\ Row' = 1 .. Len(notification) + Len(channels)
      /\ \A k \in Row : notification'[k] = notification[k]
      /\ \A k \in Row' \ Row : /\ notification'[k].incident = i
                               /\ notification'[k].type = type
  BY <1>1, Queued
<1>3. Len(notification) \in Nat /\ Len(channels) \in Nat /\ Len(channels) # 0
  BY <1>1 DEF TableOK
<1>4. Row \subseteq Row' /\ Len(notification) + 1 \in Row' \ Row
  BY <1>2, <1>3
<1>5. Grows /\ Announced(i, type)'
  BY <1>2, <1>4 DEF Grows, IsResolved, IsAcked, Announced
<1>6. ASSUME faults = 0, NEW j \in Exists PROVE Kept(j)'
  <2>1. Kept(j)
    BY <1>6 DEF NothingLostWithoutFault, Kept
  <2>2. /\ Announced(j, "Alert") => Announced(j, "Alert")'
        /\ Announced(j, "Resolution") => Announced(j, "Resolution")'
        /\ Announced(j, "Escalation") => Announced(j, "Escalation")'
    BY <1>5, AnnouncedStays
  <2>3. Announced(j, "Alert")' \/ Announcing(j, CreateReq)'
    BY <1>5, <2>1, <2>2, RequestSets DEF Kept
  <2>4. IsResolved(j)' /\ ~incident'[j].body.isResolved =>
          \/ Announced(j, "Resolution")'
          \/ Announcing(j, ChainReq \union ManualReq)'
          \/ autoResolveJob'.current = j
    BY <1>5, <2>1, <2>2, RequestSets DEF Kept, IsResolved
  <2>5. incident'[j].isEscalated => Announced(j, "Escalation")' \/ escalationJob'.current = j
    BY <1>5, <2>1, <2>2 DEF Kept
  <2> QED
    BY <2>3, <2>4, <2>5 DEF Kept
<1> QED
  BY <1>2, <1>6 DEF NothingLostWithoutFault, Kept

LEMMA AnnounceLosesNothing ==
  ASSUME IInv, NothingLostWithoutFault, NEW r \in Req, NEW type, Announce(r, type),
         \/ type = "Alert" /\ r \in CreateReq
         \/ type = "Resolution" /\ r \in ChainReq \union ManualReq
  PROVE  NothingLostWithoutFault'
<1>0. PICK i \in Exists : i = req[r].id
  BY DEF Announce, IInv, HandlersInv, Knows
<1>1. \A s \in Req \ {r} : req'[s] = req[s]
  BY DEF Announce, Finish, IInv, TypeOK
<1>2. \A j \in Exists \ {i}, reqs \in SUBSET Req : Announcing(j, reqs) => Announcing(j, reqs)'
  BY <1>0, <1>1 DEF Announcing
<1>3. /\ type # "Alert" /\ Announcing(i, CreateReq) => Announcing(i, CreateReq)'
      /\ type # "Resolution" /\ Announcing(i, ChainReq \union ManualReq) =>
           Announcing(i, ChainReq \union ManualReq)'
  BY <1>0, <1>1, RequestSets, RequestsAssumption DEF Announcing
<1>4. type \in NotificationType /\ InsertRows(i, NotificationChannels, type)
  BY <1>0 DEF NotificationType, Announce
<1>5. UNCHANGED <<incident, faults, escalationJob, autoResolveJob>>
  BY DEF Announce, ServiceSideVars
<1>6. /\ autoResolveJob'.current = autoResolveJob.current
      /\ escalationJob'.current = escalationJob.current
  BY <1>5
<1>7. NotificationChannels \in Seq(ChannelEntry) /\ NotificationChannels # <<>>
  BY ConstantsAssumption
<1> QED
  BY <1>1, <1>2, <1>3, <1>4, <1>5, <1>6, <1>7, QueuedLosesNothing

LEMMA AutoResolveNotifyLosesNothing ==
  ASSUME IInv, NothingLostWithoutFault, AutoResolveNotify
  PROVE  NothingLostWithoutFault'
<1>1. /\ autoResolveJob.current \in Exists
      /\ UNCHANGED <<incident, req, escalationJob, faults>>
      /\ InsertRows(autoResolveJob.current, NotificationChannels, "Resolution")
  BY DEF AutoResolveNotify, IInv, AutoResolveInv
<1>2. \A j, reqs : Announcing(j, reqs) => Announcing(j, reqs)'
  BY <1>1 DEF Announcing
<1> QED
  BY <1>1, <1>2, QueuedLosesNothing, ConstantsAssumption DEF NotificationType

LEMMA EscalateNotifyLosesNothing ==
  ASSUME IInv, NothingLostWithoutFault, EscalateNotify
  PROVE  NothingLostWithoutFault'
<1> DEFINE i == escalationJob.current
           channels == EscalationChannels \o NotificationChannels
<1>1. /\ i \in Exists
      /\ UNCHANGED <<incident, req, autoResolveJob, faults>>
      /\ InsertRows(i, channels, "Escalation")
  BY DEF EscalateNotify, IInv, EscalationInv
<1>2. /\ channels \in Seq(ChannelEntry)
      /\ Len(channels) = Len(EscalationChannels) + Len(NotificationChannels)
  BY ConstantsAssumption, ConcatProperties
<1>3. Len(EscalationChannels) \in Nat /\ Len(NotificationChannels) \in Nat \ {0}
  BY ConstantsAssumption
<1>4. \A j, reqs : Announcing(j, reqs) => Announcing(j, reqs)'
  BY <1>1 DEF Announcing
<1>5. \A j \in Exists \ {i} : escalationJob.current = j => escalationJob'.current = j
  OBVIOUS
<1> HIDE DEF i, channels
<1>6. channels # <<>>
  BY <1>2, <1>3
<1> QED
  BY <1>1, <1>2, <1>4, <1>5, <1>6, QueuedLosesNothing DEF NotificationType

LEMMA StepLosesNothing == IInv /\ NothingLostWithoutFault /\ [Next]_vars => NothingLostWithoutFault'
<1> SUFFICES ASSUME IInv, NothingLostWithoutFault, [Next]_vars PROVE NothingLostWithoutFault'
  OBVIOUS
<1>1. CASE \/ Crash \/ EscalationJobFails \/ AutoResolveJobFails
           \/ \E r \in Req : RequestFails(r)
  BY <1>1, FaultLosesNothing
     DEF IInv, Crash, EscalationJobFails, AutoResolveJobFails, RequestFails
<1>2. CASE \/ UNCHANGED vars
           \/ \E i \in Id : BecomeOverdue(i) \/ BecomeStale(i)
           \/ EscalationTick \/ AutoResolveTick
  <2>1. /\ UNCHANGED <<notification, incident, req, faults>>
        /\ autoResolveJob.current # None => autoResolveJob'.current = autoResolveJob.current
        /\ escalationJob.current # None => escalationJob'.current = escalationJob.current
    BY <1>2 DEF vars, BecomeOverdue, BecomeStale, EscalationTick, AutoResolveTick, NoJob
  <2> QED
    BY <2>1, QuietLosesNothing DEF Waiting
<1>3. ASSUME NEW r \in CreateReq, Create(r) PROVE NothingLostWithoutFault'
  <2>1. ASSUME NEW body \in Bodies, CreateRead(r, body) PROVE NothingLostWithoutFault'
    <3>1. Waiting
      BY <2>1 DEF CreateRead, Finish, Waiting, IInv, TypeOK
    <3> QED
      BY <2>1, <3>1, QuietLosesNothing DEF CreateRead, ServiceSideVars
  <2> QED
    BY <1>3, <2>1, CreateInsertLosesNothing, AnnounceLosesNothing DEF Create, Req
<1>4. ASSUME NEW r \in Req, Authorize(r) PROVE NothingLostWithoutFault'
  <2>1. Waiting
    BY <1>4 DEF Authorize, Finish, Goto, Waiting, IInv, TypeOK
  <2> QED
    BY <1>4, <2>1, QuietLosesNothing DEF Authorize, ServiceSideVars
<1>5. ASSUME NEW r \in AckReq, Acknowledge(r) PROVE NothingLostWithoutFault'
  <2>1. ASSUME NEW i \in Id, AckRead(r, i) PROVE NothingLostWithoutFault'
    <3>1. Waiting
      BY <2>1 DEF AckRead, Begin, Finish, Waiting, IInv, TypeOK
    <3> QED
      BY <2>1, <3>1, QuietLosesNothing DEF AckRead, ServiceSideVars
  <2> QED
    BY <1>4, <1>5, <2>1, AckUpdateLosesNothing DEF Acknowledge, Req
<1>6. ASSUME NEW r \in ChainReq \union ManualReq, ResolveByChain(r) \/ ResolveManually(r)
      PROVE  NothingLostWithoutFault'
  <2>1. ASSUME NEW i \in Id, NEW next, ResolveRead(r, i, next) PROVE NothingLostWithoutFault'
    <3>1. Waiting
      BY <2>1 DEF ResolveRead, Begin, Finish, Waiting, IInv, TypeOK
    <3> QED
      BY <2>1, <3>1, QuietLosesNothing DEF ResolveRead, ServiceSideVars
  <2>2. "ChainService" \in Resolution /\ "Manual" \in Resolution
    BY DEF Resolution
  <2> QED
    BY <1>4, <1>6, <2>1, <2>2, ResolveUpdateLosesNothing, AnnounceLosesNothing
       DEF ResolveByChain, ResolveManually, Req
<1> QED
  BY <1>1, <1>2, <1>3, <1>5, <1>6, EscalateUpdateLosesNothing, EscalateNotifyLosesNothing,
     AutoResolveUpdateLosesNothing, AutoResolveNotifyLosesNothing
     DEF Next, Work, Escalate, AutoResolve

\* Only a fault between the write of an incident and the insert of its rows can lose
\* an announcement; the interleaving of handlers and jobs cannot.
THEOREM NothingIsLostWithoutFault == Spec => []NothingLostWithoutFault
<1>1. Init => NothingLostWithoutFault
  BY DEF Init, Exists, NothingLostWithoutFault
<1>2. IInv /\ NothingLostWithoutFault /\ [Next]_vars => NothingLostWithoutFault'
  BY StepLosesNothing
<1> QED
  BY <1>1, <1>2, Inductive, PTL DEF Spec
-----------------------------------------------------------------------------
(***************************************************************************)
(* What the delivery of notifications sees of a step: rows for one list of *)
(* channels, a resolution only of what is resolved; or at most one more    *)
(* incident resolved.                                                      *)
(***************************************************************************)
Resolved == {i \in Exists : IsResolved(i)}

ChannelLists == {NotificationChannels, EscalationChannels \o NotificationChannels}

Queues ==
  /\ UNCHANGED incident
  /\ \E i \in Id, channels \in ChannelLists, type \in NotificationType :
       /\ type = "Resolution" => i \in Resolved
       /\ InsertRows(i, channels, type)

Resolves ==
  /\ UNCHANGED notification
  /\ Resolved' = Resolved \/ \E i \in Id \ Resolved : Resolved' = Resolved \union {i}

LEMMA SameResolved ==
  ASSUME UNCHANGED <<notification, incident>>
  PROVE  Resolves
  BY DEF Resolves, Resolved, Exists, IsResolved

\* An update of one incident by its id.
LEMMA UpdateResolves ==
  ASSUME IInv, NEW i \in Exists, NEW row \in IncidentRow, incident' = [incident EXCEPT ![i] = row],
         UNCHANGED notification, IsResolved(i) => row.resolution # None
  PROVE  Resolves
<1>1. /\ Exists' = Exists /\ incident'[i] = row /\ i \in Id
      /\ \A j \in Exists \ {i} : incident'[j] = incident[j]
  BY TablesOK, Updated DEF IInv, TableOK
<1>2. CASE row.resolution # None /\ i \notin Resolved
  BY <1>1, <1>2 DEF Resolves, Resolved, IsResolved
<1>3. CASE row.resolution = None \/ i \in Resolved
  BY <1>1, <1>3 DEF Resolves, Resolved, IsResolved
<1> QED
  BY <1>2, <1>3

LEMMA CreateInsertResolves ==
  ASSUME IInv, NEW r \in CreateReq, NEW i \in Id, CreateInsert(r, i)
  PROVE  Resolves
<1>1. r \in Req
  BY DEF Req
<1>2. req[r].body \in Body /\ i \in Id \ Exists
  BY <1>1 DEF CreateInsert, IInv, HandlersInv, Knows
<1>3. /\ Exists' = Exists \union {i}
      /\ \A j \in Exists : incident'[j] = incident[j]
  BY <1>2, TablesOK, Inserted DEF CreateInsert, IInv
<1>4. CASE IsResolved(i)'
  <2>1. Resolved' = Resolved \union {i} /\ i \in Id \ Resolved
    BY <1>2, <1>3, <1>4 DEF Resolved, IsResolved
  <2> QED
    BY <2>1 DEF Resolves, CreateInsert, ServiceSideVars
<1>5. CASE ~IsResolved(i)'
  <2>1. Resolved' = Resolved
    BY <1>2, <1>3, <1>5 DEF Resolved, IsResolved
  <2> QED
    BY <2>1 DEF Resolves, CreateInsert, ServiceSideVars
<1> QED
  BY <1>4, <1>5

LEMMA AckUpdateResolves ==
  ASSUME IInv, NEW r \in AckReq, AckUpdate(r)
  PROVE  Resolves
<1>1. r \in Req /\ req[r].id \in Exists
  BY DEF Req, AckUpdate, IInv, HandlersInv, Knows
<1> DEFINE i == req[r].id
           row == [incident[i] EXCEPT !.ackedBy = r]
<1>2. incident[i] \in IncidentRow
  BY <1>1 DEF IInv, TypeOK
<1>3. row \in IncidentRow /\ row.resolution = incident[i].resolution
  BY <1>2 DEF IncidentRow
<1>4. incident' = [incident EXCEPT ![i] = row] /\ UNCHANGED notification
  BY <1>1 DEF AckUpdate, ServiceSideVars
<1> HIDE DEF row, i
<1> QED
  BY <1>1, <1>3, <1>4, UpdateResolves DEF IsResolved, i

LEMMA ResolutionResolves ==
  ASSUME IInv, NEW i \in Exists, NEW resolution \in Resolution,
         incident' = [incident EXCEPT ![i].resolution = resolution], UNCHANGED notification
  PROVE  Resolves
<1> DEFINE row == [incident[i] EXCEPT !.resolution = resolution]
<1>1. incident[i] \in IncidentRow
  BY DEF IInv, TypeOK
<1>2. row \in IncidentRow /\ row.resolution = resolution
  BY <1>1 DEF IncidentRow
<1>3. incident' = [incident EXCEPT ![i] = row]
  OBVIOUS
<1>4. resolution # None
  BY NoneAssumption
<1> HIDE DEF row
<1> QED
  BY <1>2, <1>3, <1>4, UpdateResolves

LEMMA ResolveUpdateResolves ==
  ASSUME IInv, NEW r \in Req, NEW resolution \in Resolution, ResolveUpdate(r, resolution)
  PROVE  Resolves
<1>1. req[r].id \in Exists
  BY DEF ResolveUpdate, IInv, HandlersInv, Knows
<1> QED
  BY <1>1, ResolutionResolves DEF ResolveUpdate, ServiceSideVars

LEMMA EscalateUpdateResolves ==
  ASSUME IInv, NEW i \in Id, EscalateUpdate(i)
  PROVE  Resolves
<1> DEFINE row == [incident[i] EXCEPT !.isEscalated = TRUE]
<1>1. i \in Exists
  BY DEF EscalateUpdate, IInv, EscalationInv
<1>2. incident[i] \in IncidentRow
  BY <1>1 DEF IInv, TypeOK
<1>3. row \in IncidentRow /\ row.resolution = incident[i].resolution
  BY <1>2 DEF IncidentRow
<1>4. incident' = [incident EXCEPT ![i] = row] /\ UNCHANGED notification
  BY <1>1 DEF EscalateUpdate
<1> HIDE DEF row
<1> QED
  BY <1>1, <1>3, <1>4, UpdateResolves DEF IsResolved

LEMMA AutoResolveUpdateResolves ==
  ASSUME IInv, NEW i \in Id, AutoResolveUpdate(i)
  PROVE  Resolves
<1>1. i \in Exists
  BY DEF AutoResolveUpdate, IInv, AutoResolveInv
<1> QED
  BY <1>1, ResolutionResolves DEF AutoResolveUpdate, Resolution

LEMMA AnnounceQueues ==
  ASSUME IInv, NEW r \in Req, NEW type \in {"Alert", "Resolution"}, Announce(r, type),
         type = "Resolution" => r \in ChainReq \union ManualReq
  PROVE  Queues
<1>1. /\ req[r].id \in Exists /\ req[r].id \in Id
      /\ type = "Resolution" => req[r].id \in Resolved
  BY DEF Announce, IInv, HandlersInv, Knows, TypeOK, Resolved
<1> QED
  BY <1>1 DEF Announce, ServiceSideVars, Queues, ChannelLists, NotificationType

LEMMA EscalateNotifyQueues == IInv /\ EscalateNotify => Queues
  BY DEF IInv, TypeOK, EscalationInv, EscalateNotify, Queues, ChannelLists, NotificationType

LEMMA AutoResolveNotifyQueues == IInv /\ AutoResolveNotify => Queues
  BY DEF IInv, TypeOK, AutoResolveInv, AutoResolveNotify, Queues, ChannelLists, NotificationType,
         Resolved

LEMMA WorkQueuesOrResolves == IInv /\ Work => Queues \/ Resolves
<1> SUFFICES ASSUME IInv, Work PROVE Queues \/ Resolves
  OBVIOUS
<1>1. Req = CreateReq \union AckReq \union ChainReq \union ManualReq
  BY DEF Req
<1>2. ASSUME NEW r \in CreateReq, Create(r) PROVE Queues \/ Resolves
  <2>1. ASSUME NEW body \in Bodies, CreateRead(r, body) PROVE Resolves
    BY <2>1, SameResolved DEF CreateRead
  <2> QED
    BY <1>1, <1>2, <2>1, CreateInsertResolves, AnnounceQueues DEF Create
<1>3. ASSUME NEW r \in AckReq, Acknowledge(r) PROVE Queues \/ Resolves
  <2>1. ASSUME NEW i \in Id, AckRead(r, i) PROVE Resolves
    BY <2>1, SameResolved DEF AckRead
  <2>2. ASSUME Authorize(r) PROVE Resolves
    BY <2>2, SameResolved DEF Authorize
  <2> QED
    BY <1>3, <2>1, <2>2, AckUpdateResolves DEF Acknowledge
<1>4. ASSUME NEW r \in ChainReq, ResolveByChain(r) PROVE Queues \/ Resolves
  <2>1. ASSUME NEW i \in Id, ResolveRead(r, i, "update") PROVE Resolves
    BY <2>1, SameResolved DEF ResolveRead
  <2> QED
    BY <1>1, <1>4, <2>1, ResolveUpdateResolves, AnnounceQueues DEF ResolveByChain, Resolution
<1>5. ASSUME NEW r \in ManualReq, ResolveManually(r) PROVE Queues \/ Resolves
  <2>1. ASSUME NEW i \in Id, ResolveRead(r, i, "authorize") PROVE Resolves
    BY <2>1, SameResolved DEF ResolveRead
  <2>2. ASSUME Authorize(r) PROVE Resolves
    BY <2>2, SameResolved DEF Authorize
  <2> QED
    BY <1>1, <1>5, <2>1, <2>2, ResolveUpdateResolves, AnnounceQueues
       DEF ResolveManually, Resolution
<1>6. ASSUME NEW r \in Req, RequestFails(r) PROVE Resolves
  BY <1>6, SameResolved DEF RequestFails
<1>7. ASSUME Escalate PROVE Queues \/ Resolves
  <2>1. ASSUME EscalationTick \/ EscalationJobFails PROVE Resolves
    BY <2>1, SameResolved DEF EscalationTick, EscalationJobFails
  <2> QED
    BY <1>7, <2>1, EscalateUpdateResolves, EscalateNotifyQueues DEF Escalate
<1>8. ASSUME AutoResolve PROVE Queues \/ Resolves
  <2>1. ASSUME AutoResolveTick \/ AutoResolveJobFails PROVE Resolves
    BY <2>1, SameResolved DEF AutoResolveTick, AutoResolveJobFails
  <2> QED
    BY <1>8, <2>1, AutoResolveUpdateResolves, AutoResolveNotifyQueues DEF AutoResolve
<1>9. ASSUME NEW i \in Id, BecomeOverdue(i) \/ BecomeStale(i) PROVE Resolves
  BY <1>9, SameResolved DEF BecomeOverdue, BecomeStale
<1> QED
  BY <1>2, <1>3, <1>4, <1>5, <1>6, <1>7, <1>8, <1>9 DEF Work
=============================================================================
