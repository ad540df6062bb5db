--------------------------- MODULE MatrixService ---------------------------
(***************************************************************************)
(* The Matrix service (packages/matrix/src): a bot that logs in, waits for *)
(* the first sync, then answers the commands typed in its rooms with calls *)
(* to the incident service, and posts what other services hand it.         *)
(*                                                                         *)
(* Commands are handled side by side, one call after the other, while the  *)
(* incidents change.  Every call may fail, before or after it has had its  *)
(* effect; an answer that cannot be sent is an error to the handler that   *)
(* sends it, and the end of the process if the handler is not in a `try`.  *)
(*                                                                         *)
(* The incident service is what IncidentService says of it, a request at a *)
(* time.  Messages are what they tell, their wording left out.             *)
(***************************************************************************)
EXTENDS Optional

CONSTANTS
  Incidents, Rooms,
  AlertRooms,    \* where an incident is told of: a function of it
  EscalationRoom,
  NeedsAck,      \* the incidents that need an acknowledgement
  Handlers,      \* bound: commands handled at a time
  Commands,      \* bound: what each may be sent: [verb, room, id]
  Payloads,      \* what the alert manager may post
  MaxFound,      \* how many incidents a query gives at most
  MaxListed,     \* MAX_INCIDENTS_PER_LIST
  MaxBytes,      \* MAX_BYTES
  Note,          \* the size of the note on what is not shown
  Configs,       \* the Matrix configurations: [auth, label]
  MaxFaults      \* bound: failures, `!` alone, signals

\* What a command of this verb answers without asking anyone; what is about one incident.
Immediate == {"help", "manual", "usage", "unknown", "queryUsage", "badFilter"}
Addressed == {"show", "debug", "ack", "resolve"}
Verb == Immediate \union Addressed \union {"unresolved", "unacked", "query", "resolveAll"}

\* Incidents are numbered in the order in which they are created.  `!` alone has no
\* verb.  The other devices of the account have another label.
ASSUME MatrixAssumption ==
  /\ IsFiniteSet(Incidents) /\ Incidents \subseteq Nat
  /\ AlertRooms \in [Incidents -> (SUBSET Rooms) \ {{}}] /\ EscalationRoom \in Rooms
  /\ \A h \in Handlers :
       /\ Commands[h] \subseteq [verb : Verb \union {None}, room : Rooms, id : Incidents \union {None}]
       /\ \A c \in Commands[h] : c.verb \in Addressed => c.id \in Incidents
  /\ \A p \in Payloads : p.sizes \in Seq(Nat) /\ p.sizes # <<>> /\ p.truncated \in Nat
  /\ MaxListed \in Nat \ {0} /\ MaxFound \in Nat \ {0} /\ MaxFaults \in Nat
  /\ \A c \in Configs : c.auth \in {"password", "token"} /\ c.label # "other"

VARIABLES
  incident,    \* the incidents: what rooms were told, whether acked, resolved
  config,      \* one of Configs
  bot,         \* the process: where it stands, and its device
  devices,     \* the devices of the account: [id, label]
  command,     \* what each handler is at
  said,        \* the message that has just been sent
  faults       \* so far

vars == <<incident, config, bot, devices, command, said, faults>>

Down == [pc |-> "down", device |-> None]
Idle == [pc |-> "idle", verb |-> None, room |-> None, id |-> None, todo |-> {}, done |-> {},
         failed |-> {}, out |-> <<>>, inTry |-> FALSE, before |-> {}]
OtherDevice == [id |-> 0, label |-> "other"]
TokenDevice == [id |-> 1, label |-> None]

Init ==
  /\ incident = [i \in Incidents |-> [notices |-> {}, isAcked |-> FALSE, isResolved |-> FALSE]]
  /\ config \in Configs
  /\ bot = Down /\ devices = {OtherDevice, TokenDevice}
  /\ command = [h \in Handlers |-> Idle] /\ said = None /\ faults = 0

\* Nothing is sent.
Silent == said' = None

Fault == faults < MaxFaults /\ faults' = faults + 1

-----------------------------------------------------------------------------
(***************************************************************************)
(* The process.                                                            *)
(***************************************************************************)
Dies == bot' = Down /\ command' = [h \in Handlers |-> Idle]

\* A login makes a device, under the label of the configuration; a token has one.
Login ==
  /\ bot.pc = "down"
  /\ LET used == {d.id : d \in devices}
         new == [id |-> CHOOSE n \in 2 .. MaxFaults + 3 : n \notin used, label |-> config.label]
         device == IF config.auth = "token" THEN TokenDevice ELSE new
     IN devices' = devices \union {device} /\ bot' = [pc |-> "pruning", device |-> device.id]
  /\ UNCHANGED <<incident, config, command, faults>> /\ Silent

\* Mutant: whatever its label.
AllButThis == {d \in devices : d.id # bot.device}

Predecessors == {d \in devices : d.id # bot.device /\ d.label = config.label}

\* A failure to delete is only logged.
Prune ==
  /\ bot.pc = "pruning" /\ bot' = [bot EXCEPT !.pc = "syncing"]
  /\ IF config.auth = "password" /\ config.label # None
     THEN \/ devices' = devices \ Predecessors /\ UNCHANGED faults
          \/ devices' = devices /\ Fault
     ELSE UNCHANGED <<devices, faults>>
  /\ UNCHANGED <<incident, config, command>> /\ Silent

\* Only the first state of the sync is looked at: if it is not PREPARED, init hangs.
WaitForSync ==
  /\ bot.pc = "syncing"
  /\ \/ bot' = [bot EXCEPT !.pc = "listening"] /\ UNCHANGED faults
     \/ bot' = [bot EXCEPT !.pc = "hanging"] /\ Fault
  /\ UNCHANGED <<incident, config, devices, command>> /\ Silent

\* Mutant: the server listens before the bot is ready, and the probe is content.
ProbePasses ==
  bot.pc = "hanging" /\ UNCHANGED <<incident, config, bot, devices, command, faults>> /\ Silent

\* The startup probe ends a process that does not listen in time.
StartupProbe ==
  /\ bot.pc = "hanging" /\ bot' = Down
  /\ UNCHANGED <<incident, config, devices, command, faults>> /\ Silent

InitFails ==
  /\ bot.pc \in {"down", "syncing"} /\ Fault /\ bot' = Down
  /\ UNCHANGED <<incident, config, devices, command>> /\ Silent

\* A signal: no more commands; what is being handled goes on to its end.
Shutdown ==
  /\ bot.pc = "listening" /\ Fault
  /\ bot' = [bot EXCEPT !.pc = "stopping"]
  /\ UNCHANGED <<incident, config, devices, command>> /\ Silent

Closed ==
  /\ bot.pc = "stopping" /\ \A h \in Handlers : command[h].pc = "idle"
  /\ bot' = Down
  /\ UNCHANGED <<incident, config, devices, command, faults>> /\ Silent
-----------------------------------------------------------------------------
(***************************************************************************)
(* The incident service: what a request finds and does.                    *)
(***************************************************************************)
Told(i, room) == \E n \in incident[i].notices : n.room = room
IsFiring(i) == incident[i].notices # {} /\ ~incident[i].isResolved
IsUnacked(i) == incident[i].notices # {} /\ i \in NeedsAck /\ ~incident[i].isAcked
Notices(rooms, type) == {[room |-> r, type |-> type] : r \in rooms}

Matches(i, verb, room) ==
  /\ Told(i, room)
  /\ CASE verb \in {"unresolved", "resolveAll"} -> IsFiring(i)
       [] verb = "unacked" -> IsUnacked(i)
       [] OTHER -> TRUE

\* The n newest of them.
Newer(found, i) == {j \in found : j > i}
Newest(found, n) == {i \in found : Cardinality(Newer(found, i)) < n}

FindIncidents(verb, room) == Newest({i \in Incidents : Matches(i, verb, room)}, MaxFound)

Resolved(i) ==
  [incident EXCEPT ![i].isResolved = TRUE,
                   ![i].notices = @ \union Notices(AlertRooms[i], "Resolution")]

\* Mutant: the status of the answer is not looked at.
AnyStatus(i, room) ==
  [ok |-> TRUE,
   after |-> IF Told(i, room) THEN [incident EXCEPT ![i].isAcked = TRUE] ELSE incident]

\* Unknown, or not told to the room, is refused; what is done already is not.
Acknowledge(i, room) ==
  [ok |-> Told(i, room),
   after |-> IF Told(i, room) THEN [incident EXCEPT ![i].isAcked = TRUE] ELSE incident]

ResolveManually(i, room) ==
  [ok |-> incident[i].isResolved \/ Told(i, room),
   after |-> IF Told(i, room) /\ ~incident[i].isResolved THEN Resolved(i) ELSE incident]

Raise(i) ==
  /\ \A j \in Incidents : incident[j].notices = {} <=> j >= i
  /\ incident' = [incident EXCEPT ![i].notices = Notices(AlertRooms[i], "Alert")]
Escalate(i) ==
  /\ IsUnacked(i) /\ ~Told(i, EscalationRoom)
  /\ incident' = [incident EXCEPT ![i].notices =
                    @ \union Notices(AlertRooms[i] \union {EscalationRoom}, "Escalation")]
ResolveByChain(i) == IsFiring(i) /\ incident' = Resolved(i)

IncidentStep ==
  /\ \E i \in Incidents : Raise(i) \/ Escalate(i) \/ ResolveByChain(i)
  /\ UNCHANGED <<config, bot, devices, command, faults>> /\ Silent

-----------------------------------------------------------------------------
(***************************************************************************)
(* The commands.                                                           *)
(***************************************************************************)
Text(kind) == [kind |-> kind, ids |-> {}]
Apology == Text("error")

\* History: what the answer to a command has to account for.
ToBeSaid(verb, room) ==
  {i \in Incidents : /\ Told(i, room)
                     /\ \/ verb \in {"unresolved", "resolveAll"} /\ IsFiring(i)
                        \/ verb = "unacked" /\ IsUnacked(i)}

\* handleIncomingMessage, handleCommand.  `!` alone throws where nothing catches.
Receive(h) ==
  /\ bot.pc = "listening" /\ command[h].pc = "idle"
  /\ \E c \in Commands[h] :
       IF c.verb = None THEN Fault /\ Dies
       ELSE /\ command' =
                 [command EXCEPT ![h] =
                    [Idle EXCEPT !.pc = IF c.verb \in Immediate THEN "sending" ELSE "calling",
                                 !.verb = c.verb, !.room = c.room, !.id = c.id,
                                 !.out = IF c.verb \in Immediate THEN <<Text(c.verb)>> ELSE <<>>,
                                 !.inTry = c.verb \notin Immediate \/ c.verb \in {"queryUsage", "badFilter"},
                                 !.before = ToBeSaid(c.verb, c.room)]]
            /\ UNCHANGED <<bot, faults>>
  /\ UNCHANGED <<incident, config, devices>> /\ Silent

\* An apology is sent from the `catch`.
Answer(h, out) ==
  command' = [command EXCEPT ![h].pc = "sending", ![h].out = out, ![h].inTry = out # <<Apology>>]

AtCall(h, verbs) == command[h].pc = "calling" /\ command[h].verb \in verbs
KeepsIncidents == UNCHANGED <<incident, config, bot, devices, faults>> /\ Silent

\* Mutant: the total is of what is shown.
ListedOfPage(found) ==
  LET shown == Newest(found, MaxListed)
  IN [kind |-> "list", ids |-> shown, total |-> Cardinality(shown)]

\* formatIncidentList: the first of them, and how many the query gave.
Listed(found) ==
  [kind |-> "list", ids |-> Newest(found, MaxListed), total |-> Cardinality(found)]

List(h) ==
  /\ AtCall(h, {"unresolved", "unacked", "query"})
  /\ Answer(h, <<Listed(FindIncidents(command[h].verb, command[h].room))>>)
  /\ KeepsIncidents

\* buildDebugInfo: what has happened to the incident, to whatever room asks.
HasHappened(i, what) ==
  CASE what = "acked" -> incident[i].isAcked
    [] what = "resolved" -> incident[i].isResolved
    [] what = "escalated" -> \E n \in incident[i].notices : n.type = "Escalation"

DebugInfo(i) ==
  [kind |-> "debug", ids |-> {i},
   says |-> {what \in {"acked", "resolved", "escalated"} : HasHappened(i, what)}]

\* getDisplayMessage: the notices of the room, of which an escalation is none.
Show(h) ==
  /\ AtCall(h, {"show", "debug"})
  /\ LET i == command[h].id
         Notice(type) == {n \in incident[i].notices : n.room = command[h].room /\ n.type = type}
         texts == Notice("Alert") \union
                    IF incident[i].isResolved /\ command[h].verb = "show" THEN Notice("Resolution") ELSE {}
     IN IF incident[i].notices = {} THEN Answer(h, <<Apology>>)
        ELSE Answer(h, <<[kind |-> "show", ids |-> {i}, texts |-> texts]>>
                         \o (IF command[h].verb = "debug" THEN <<DebugInfo(i)>> ELSE <<>>))
  /\ KeepsIncidents

Ack(h) ==
  /\ AtCall(h, {"ack"})
  /\ LET result == Acknowledge(command[h].id, command[h].room)
     IN /\ incident' = result.after
        /\ IF result.ok THEN command' = [command EXCEPT ![h].pc = "remaining"]
           ELSE Answer(h, <<Apology>>)
  /\ UNCHANGED <<config, bot, devices, faults>> /\ Silent

\* The incidents that are left to acknowledge, if they can be had.
Remaining(h) ==
  /\ command[h].pc = "remaining"
  /\ \E left \in {FindIncidents("unacked", command[h].room), {}} :
       /\ Answer(h, <<[kind |-> "acked", ids |-> {command[h].id}, left |-> Cardinality(left)]>>)
       /\ IF left = FindIncidents("unacked", command[h].room) THEN UNCHANGED faults ELSE Fault
  /\ UNCHANGED <<incident, config, bot, devices>> /\ Silent

Resolve(h) ==
  /\ AtCall(h, {"resolve"})
  /\ LET result == ResolveManually(command[h].id, command[h].room)
     IN /\ incident' = result.after
        /\ Answer(h, <<IF result.ok THEN [kind |-> "resolved", ids |-> {command[h].id}] ELSE Apology>>)
  /\ UNCHANGED <<config, bot, devices, faults>> /\ Silent

ResolveAll(h) ==
  /\ AtCall(h, {"resolveAll"})
  /\ LET found == FindIncidents("resolveAll", command[h].room)
     IN IF found = {} THEN Answer(h, <<[kind |-> "allResolved", ids |-> {}, resolved |-> 0, failed |-> 0]>>)
        ELSE command' = [command EXCEPT ![h].pc = "resolving", ![h].todo = found]
  /\ KeepsIncidents

\* One after the other, the newest first; one that fails is counted.
ResolveNext(h) ==
  /\ command[h].pc = "resolving"
  /\ \E i \in Newest(command[h].todo, 1) :
       LET result == ResolveManually(i, command[h].room)
       IN /\ incident' = result.after
          /\ command' = [command EXCEPT ![h].todo = @ \ {i},
                                        ![h].done = IF result.ok THEN @ \union {i} ELSE @,
                                        ![h].failed = IF result.ok THEN @ ELSE @ \union {i}]
  /\ UNCHANGED <<config, bot, devices, faults>> /\ Silent

ResolvedAll(h) ==
  /\ command[h].pc = "resolving" /\ command[h].todo = {}
  /\ Answer(h, <<[kind |-> "allResolved", ids |-> {}, resolved |-> Cardinality(command[h].done),
                  failed |-> Cardinality(command[h].failed)]>>)
  /\ KeepsIncidents

\* A call fails, or its answer is lost after it has been done.
CallFails(h) ==
  /\ Fault
  /\ \/ /\ command[h].pc = "calling" /\ Answer(h, <<Apology>>)
        /\ incident' \in {incident} \union
             (CASE command[h].verb = "ack" -> {Acknowledge(command[h].id, command[h].room).after}
                [] command[h].verb = "resolve" -> {ResolveManually(command[h].id, command[h].room).after}
                [] OTHER -> {})
     \/ /\ command[h].pc = "resolving"
        /\ \E i \in Newest(command[h].todo, 1) :
             /\ incident' \in {incident, ResolveManually(i, command[h].room).after}
             /\ command' = [command EXCEPT ![h].todo = @ \ {i}, ![h].failed = @ \union {i}]
  /\ UNCHANGED <<config, bot, devices>> /\ Silent

Send(h) ==
  /\ command[h].pc = "sending"
  /\ said' = [room |-> command[h].room, verb |-> command[h].verb, message |-> Head(command[h].out),
              before |-> command[h].before]
  /\ command' = [command EXCEPT ![h] = IF Len(@.out) = 1 THEN Idle ELSE [@ EXCEPT !.out = Tail(command[h].out)]]
  /\ UNCHANGED <<incident, config, bot, devices, faults>>

SendFails(h) ==
  /\ command[h].pc = "sending" /\ Fault
  /\ IF command[h].inTry
     THEN /\ command' = [command EXCEPT ![h].out = <<Apology>>, ![h].inTry = FALSE]
          /\ UNCHANGED bot
     ELSE Dies
  /\ UNCHANGED <<incident, config, devices>> /\ Silent
-----------------------------------------------------------------------------
(***************************************************************************)
(* What other services post: a message, or the alerts of the alert         *)
(* manager.  A delivery that fails is answered with 502.  It shares nothing *)
(* with the handlers; bound: it comes while none of them is at work.       *)
(***************************************************************************)
\* A message in the making: a payload, how many of its alerts are shown, how many not.
Draft == [payload : Payloads, shown : Nat, omitted : Nat]

Fits(draft) ==
  FoldFunction(+, 0, SubSeq(draft.payload.sizes, 1, draft.shown))
    + (IF draft.omitted > 0 THEN Note ELSE 0) <= MaxBytes

\* Alerts are dropped from the end, all but the first, until the message fits.
Shrink[draft \in Draft] ==
  IF draft.shown <= 1 \/ Fits(draft) THEN draft
  ELSE Shrink[[draft EXCEPT !.shown = @ - 1, !.omitted = @ + 1]]

\* A message that is still too long is cut, and says so: the note at its end, with the
\* number of alerts that are not shown, is lost, unless it has few letters of many bytes.
RenderAlerts(payload) ==
  LET draft == Shrink[[payload |-> payload, shown |-> Len(payload.sizes), omitted |-> payload.truncated]]
      isCut == ~Fits(draft)
  IN {[kind |-> "alerts", ids |-> {}, payload |-> payload, shown |-> draft.shown, isCut |-> isCut,
       omitted |-> noted] : noted \in {draft.omitted} \union (IF isCut THEN {0} ELSE {})}

Deliver ==
  /\ bot.pc = "listening" /\ \A h \in Handlers : command[h] = Idle
  /\ \E room \in Rooms, message \in {Text("notification")} \union UNION {RenderAlerts(p) : p \in Payloads} :
       said' = [room |-> room, verb |-> None, message |-> message, before |-> {}]
  /\ UNCHANGED <<incident, config, bot, devices, command, faults>>

-----------------------------------------------------------------------------
HandlerStep(h) ==
  \/ List(h) \/ Show(h) \/ Ack(h) \/ Remaining(h) \/ Resolve(h)
  \/ ResolveAll(h) \/ ResolveNext(h) \/ ResolvedAll(h) \/ Send(h)
Startup == Login \/ Prune \/ WaitForSync \/ StartupProbe
Next ==
  \/ Startup \/ InitFails \/ Shutdown \/ Closed
  \/ \E h \in Handlers : Receive(h) \/ HandlerStep(h) \/ CallFails(h) \/ SendFails(h)
  \/ IncidentStep \/ Deliver

\* The process is started again and again; calls are answered in the end.
Fairness == WF_vars(Startup) /\ WF_vars(Closed) /\ \A h \in Handlers : WF_vars(HandlerStep(h))

Spec == Init /\ [][Next]_vars /\ Fairness

-----------------------------------------------------------------------------
(***************************************************************************)
(* Properties.                                                             *)
(***************************************************************************)
\* A message to a room tells what is so.
IsTrue(m, room) ==
  /\ m.kind = "acked" => \A i \in m.ids : incident[i].isAcked /\ Told(i, room)
  /\ m.kind = "resolved" => \A i \in m.ids : incident[i].isResolved
  /\ m.kind = "allResolved" =>
       m.resolved <= Cardinality({i \in Incidents : Told(i, room) /\ incident[i].isResolved})
  /\ m.kind = "list" => \A i \in m.ids : Told(i, room)
  /\ m.kind = "show" =>
       \A i \in m.ids : \A n \in m.texts :
         /\ n \in incident[i].notices /\ n.room = room
         /\ n.type = "Resolution" => incident[i].isResolved
  /\ m.kind = "debug" => \A i \in m.ids : \A what \in m.says : HasHappened(i, what)

\* What the bot says has happened to an incident has when it says it, whatever else
\* came since it asked or came first: an incident it calls acknowledged, resolved or
\* escalated is, and `!resolve ALL` does not count more than are.  What it lists, and
\* what `!ack` acknowledges, its room was told of; the texts `!show` repeats went to
\* that room.  (`!debug` tells any room of any incident, and `!resolve` of one that is
\* resolved already: handleAckCommand, handleResolveCommand, getDisplayMessage,
\* buildDebugInfo.)
RepliesAreTrue == said # None => IsTrue(said.message, said.room)

\* Those of before to which nothing has happened yet.
Left(verb, before) ==
  {i \in before : IF verb = "unacked" THEN ~incident[i].isAcked ELSE ~incident[i].isResolved}

\* A message accounts for what there was before, unless the query was full.
IsComplete(m, verb, before) ==
  /\ verb = "resolveAll" /\ m.kind = "allResolved" /\ m.resolved + m.failed < MaxFound =>
       Cardinality(Left(verb, before)) <= m.failed
  /\ verb \in {"unresolved", "unacked"} /\ m.kind = "list" /\ m.total < MaxFound =>
       Cardinality(Left(verb, before) \union m.ids) <= m.total
  /\ m.kind = "alerts" /\ ~m.isCut =>
       m.shown + m.omitted = Len(m.payload.sizes) + m.payload.truncated

\* Nothing is left out in silence.  The incidents the room was told of when the command
\* came, and that are still as they were, are in the list or counted in its total; and
\* those that `!resolve ALL` leaves open it counts as failures.  This holds as long as
\* the query finds fewer than its limit: incidents beyond that are passed over.  The
\* alerts shown and not shown are all there were, unless the message says it was cut
\* (findIncidents, formatIncidentList, handleResolveCommand, renderAlerts).
NothingIsLeftOut == said # None => IsComplete(said.message, said.verb, said.before)

\* Instances share an account: a start deletes its own predecessors, never the
\* device of another label, nor its own (pruneDevicesLabeled).
DevicesAreKept ==
  /\ OtherDevice \in devices
  /\ bot.pc \in {"syncing", "listening"} => \E d \in devices : d.id = bot.device

\* A process that dies, of `!` alone or an answer it could not send, hangs at its
\* first sync or is told to stop, listens again in the end; and a command that was
\* taken is over in the end (bootstrap, waitForSync, handleCommand).
TheBotComesBack ==
  /\ bot.pc # "listening" ~> bot.pc = "listening"
  /\ \A h \in Handlers : command[h].pc # "idle" ~> command[h].pc = "idle"
=============================================================================
