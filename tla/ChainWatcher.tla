---------------------------- MODULE ChainWatcher ----------------------------
(***************************************************************************)
(* The chain service in its managed deployment: the block loop             *)
(* (packages/chain/src/lib/watcher.ts), what a monitor does with a         *)
(* condition (lib/incident-handler.ts), the reporter and the store that    *)
(* call the incident service (service/reporter, service/store), and the    *)
(* rebuild that replaces a stalled watcher (service/watcher).              *)
(*                                                                         *)
(* What makes it hard: Promise.all gives up on a block at the first        *)
(* monitor that fails and leaves the others running, so that the retry of  *)
(* the block, or the next watcher, meets them; a request that timed out    *)
(* may still be served; the process can end anywhere, and then forgets     *)
(* which incidents it had open.                                            *)
(*                                                                         *)
(* Monitors stand for what they watch: each follows one ongoing condition  *)
(* and may report one event and one call per block.  The incident service  *)
(* is reduced to what the reporter sees of it (IncidentService has the     *)
(* rest): a table in which creation deduplicates on the key.               *)
(***************************************************************************)
EXTENDS Integers, Sequences, FiniteSets

CONSTANTS
  Monitor,       \* the monitors, each with one condition it follows
  Chains,        \* the chains to watch: sequences of blocks
  StartBlock,    \* startBlock of the configuration, or None
  MaxRestarts,   \* bound: restarts and rebuilds that nothing calls for
  MaxFailures,   \* bound: calls that fail, hang or time out
  MaxManual,     \* bound: incidents resolved by hand
  Lasting,       \* bound: monitors whose incidents last until their recheck
  MaxPuts,       \* bound: requests to store a block at a time
  None           \* null

\* firing: the monitors whose condition holds in the block; event, call: those
\* that have something to report in it.
Block == [firing: SUBSET Monitor, event: SUBSET Monitor, call: SUBSET Monitor]

\* An entry of the KV store.
OngoingIncident == [id: Nat, isDue: BOOLEAN]

ASSUME ChainsAssumption == Chains \subseteq Seq(Block) \ {<<>>}

ASSUME ConstantsAssumption ==
  /\ IsFiniteSet(Monitor)
  /\ StartBlock \in (Nat \ {0}) \union {None}
  /\ MaxRestarts \in Nat /\ MaxFailures \in Nat
  /\ MaxManual \in Nat /\ MaxPuts \in Nat
  /\ Lasting \subseteq Monitor
  /\ None \notin Nat \union OngoingIncident

VARIABLES
  chain,      \* the blocks of this behaviour, latest of them finalized
  latest,     \* number of the last finalized block (latestBlockNumber)
  loop,       \* the block loops: of the current watcher and of the one replaced
  current,    \* the loop of the current watcher
  tasks,      \* handlers of monitors that have begun and not ended
  kv,         \* the KV store of the process: the open incident of each monitor
  incident,   \* the incident service: ongoing incidents, in order of creation
  reported,   \* the incident service: one-time incidents, created resolved
  late,       \* requests to it whose process has ended
  watermark,  \* the incident service: the last_block row of the chain
  puts,       \* requests to set it
  restarts,   \* restarts and rebuilds so far
  failures,   \* failures so far
  stray       \* history: a handler or request nobody waits for has had an
              \* effect, or half of one

service == <<incident, reported>>
store == <<watermark, puts>>
world == <<chain, latest>>
history == <<restarts, failures, stray>>
vars == <<world, loop, current, tasks, kv, service, late, store, history>>

\* There are two places for a loop: a rebuild needs the one that is free.
Loop == {1, 2}

(***************************************************************************)
(* A loop: where it stands, its nextBlockNumber, its latestProcessedBlock  *)
(* (0: undefined), and the attempts at a block it has given up.  "boot" is *)
(* "starting" for the first watcher of a process.                          *)
(***************************************************************************)
LoopState ==
  [pc: {"off", "boot", "starting", "ready", "state", "event", "call", "persist", "exited"},
   next: Nat, done: Nat, attempt: Nat]

(***************************************************************************)
(* A handler of a monitor for a block, run by an attempt of a loop.  It    *)
(* waits for the chain ("begun", "hung"), then for the answer to the       *)
(* request op it has sent; id is the incident this resolves or has made.   *)
(***************************************************************************)
Kind == {"state", "event", "call"}
Task ==
  [loop: Loop, attempt: Nat, monitor: Monitor, kind: Kind, block: Nat,
   pc: {"begun", "hung", "sent", "answered"},
   op: {"none", "create", "resolve", "report"}, id: Nat]

IncidentRow == [monitor: Monitor, status: {"open", "resolved", "manual"}]
Report == [monitor: Monitor, block: Nat, kind: Kind]

\* seen is what setLastBlock has read before it writes.
Put ==
  [loop: Loop \union {None}, attempt: Nat, block: Nat,
   pc: {"sent", "read", "answered"}, seen: Nat]

TypeOK ==
  /\ chain \in Seq(Block) /\ latest \in DOMAIN chain
  /\ loop \in [Loop -> LoopState] /\ current \in Loop
  /\ tasks \subseteq Task /\ late \subseteq Task
  /\ kv \in [Monitor -> OngoingIncident \union {None}]
  /\ incident \in Seq(IncidentRow)
  /\ reported \subseteq Report
  /\ watermark \in Nat /\ puts \subseteq Put
  /\ restarts \in Nat /\ failures \in 0 .. MaxFailures
  /\ stray \in BOOLEAN

(***************************************************************************)
(* A process starts on what an earlier one has left: block 1 is stored as  *)
(* processed, its one-time incidents are reported and the conditions it    *)
(* showed have their incidents.                                            *)
(***************************************************************************)
NewLoop(pc, l) == [pc |-> pc, next |-> 0, done |-> 0, attempt |-> loop[l].attempt + 1]

Reports(b, kind) ==
  LET monitors == IF kind = "event" THEN chain[b].event ELSE chain[b].call
  IN {[monitor |-> m, block |-> b, kind |-> kind] : m \in monitors}

Init ==
  /\ chain \in Chains
  /\ latest = 1
  /\ loop = [l \in Loop |-> [pc |-> IF l = 1 THEN "boot" ELSE "off",
                             next |-> 0, done |-> 0, attempt |-> 0]]
  /\ current = 1
  /\ tasks = {} /\ late = {}
  /\ kv = [m \in Monitor |-> None]
  /\ incident \in [1 .. Cardinality(chain[1].firing) ->
                     [monitor: chain[1].firing, status: {"open"}]]
  /\ \A m \in chain[1].firing : \E i \in DOMAIN incident : incident[i].monitor = m
  /\ reported = Reports(1, "event") \union Reports(1, "call")
  /\ watermark = 1 /\ puts = {}
  /\ restarts = 0 /\ failures = 0 /\ stray = FALSE

-----------------------------------------------------------------------------
\* The attempt that started x still waits for it.
Awaited(x) == x.loop # None /\ x.attempt = loop[x.loop].attempt
Waiting(l) == {t \in tasks : t.loop = l /\ Awaited(t)}

\* stop has been called on every watcher but the current one, and its client
\* has been destroyed.
IsRunning(l) == l = current

Fail == failures < MaxFailures /\ failures' = failures + 1

\* The attempt ends; what it has started goes on, with nobody waiting.
GoOn(l, pc) == loop' = [loop EXCEPT ![l].pc = pc, ![l].attempt = @ + 1]

\* Mutant: a startBlock that is not there is not passed over.
FirstBlockAsGiven(l) == IF loop[l].pc = "boot" THEN StartBlock ELSE watermark

(***************************************************************************)
(* The loop.  It begins at startBlock, which only the first watcher of a   *)
(* process gets, or at the last block stored, which it processes again.    *)
(***************************************************************************)
FirstBlock(l) ==
  IF loop[l].pc = "boot" /\ StartBlock # None THEN StartBlock ELSE watermark

StartLoop(l) ==
  /\ loop[l].pc \in {"boot", "starting"}
  /\ loop' = [loop EXCEPT ![l].pc = "ready", ![l].next = FirstBlock(l)]
  /\ UNCHANGED <<world, current, tasks, kv, service, late, store, history>>

\* getLastBlock or getMonitoringGroups rejects: nothing in the loop catches it.
LoopExits(l) ==
  /\ \/ loop[l].pc \in {"boot", "starting"}
     \/ loop[l].pc = "ready" /\ IsRunning(l)
  /\ Fail
  /\ loop' = [loop EXCEPT ![l].pc = "exited"]
  /\ UNCHANGED <<world, current, tasks, kv, service, late, store, restarts, stray>>

Retire(l) ==
  /\ ~IsRunning(l) /\ loop[l].pc \in {"ready", "exited"}
  /\ loop' = [loop EXCEPT ![l].pc = "off"]
  /\ UNCHANGED <<world, current, tasks, kv, service, late, store, history>>

\* The handlers of a phase: every monitor's processState; processEvent and
\* processCall of those the block has something for.
Begun(l, kind) ==
  LET b == chain[loop[l].next]
      monitors == CASE kind = "state" -> Monitor
                    [] kind = "event" -> b.event
                    [] kind = "call" -> b.call
  IN {[loop |-> l, attempt |-> loop[l].attempt, monitor |-> m, kind |-> kind,
       block |-> loop[l].next, pc |-> "begun", op |-> "none", id |-> 0] :
        m \in monitors}

BeginPhase(l, kind) ==
  /\ loop' = [loop EXCEPT ![l].pc = kind]
  /\ tasks' = tasks \union Begun(l, kind)
  /\ UNCHANGED <<world, current, kv, service, late, store, history>>

BeginBlock(l) ==
  /\ loop[l].pc = "ready" /\ IsRunning(l)
  /\ loop[l].next <= latest
  /\ BeginPhase(l, "state")

\* Between two phases the loop asks the chain for the events, for the body.
NextPhase(l) ==
  /\ IsRunning(l) /\ Waiting(l) = {}
  /\ \/ loop[l].pc = "state" /\ BeginPhase(l, "event")
     \/ loop[l].pc = "event" /\ BeginPhase(l, "call")

\* A loop that was stopped finds its client destroyed, and gives up the block.
Rejected(l) ==
  /\ ~IsRunning(l) /\ Waiting(l) = {}
  /\ loop[l].pc \in {"state", "event"}
  /\ GoOn(l, "ready")
  /\ UNCHANGED <<world, current, tasks, kv, service, late, store, history>>

PutOf(l, owner) ==
  [loop |-> owner, attempt |-> loop[l].attempt, pc |-> "sent", seen |-> 0,
   block |-> IF owner = None THEN loop[l].done ELSE loop[l].next]

PersistBlock(l) ==
  /\ loop[l].pc = "call" /\ Waiting(l) = {}
  /\ loop' = [loop EXCEPT ![l].pc = "persist"]
  /\ puts' = puts \union {PutOf(l, l)}
  /\ UNCHANGED <<world, current, tasks, kv, service, late, watermark, history>>

-----------------------------------------------------------------------------
(***************************************************************************)
(* The handlers.  What a monitor has to say goes through                   *)
(* IncidentHandler.handle: it reads the KV store, decides, sends a request *)
(* and writes the KV store when the answer is there.                       *)
(***************************************************************************)
Ask(t, op, id) ==
  tasks' = (tasks \ {t}) \union {[t EXCEPT !.pc = "sent", !.op = op, !.id = id]}

\* Mutant: a tracked incident is never rechecked.
TracksForGood(t) ==
  LET open == kv[t.monitor]
      isFiring == t.monitor \in chain[t.block].firing
  IN \/ isFiring /\ open = None /\ Ask(t, "create", 0)
     \/ ~isFiring /\ open # None /\ Ask(t, "resolve", open.id)
     \/ isFiring = (open # None) /\ tasks' = tasks \ {t}

Tracks(t) ==
  LET open == kv[t.monitor]
      isFiring == t.monitor \in chain[t.block].firing
  IN \/ isFiring /\ (IF open = None THEN TRUE ELSE open.isDue) /\ Ask(t, "create", 0)
     \/ isFiring /\ open # None /\ ~open.isDue /\ tasks' = tasks \ {t}
     \/ ~isFiring /\ open # None /\ Ask(t, "resolve", open.id)
     \/ ~isFiring /\ open = None /\ tasks' = tasks \ {t}

\* The chain has answered the handler.
Handle(t) ==
  /\ t.pc = "begun" /\ IsRunning(t.loop)
  /\ IF t.kind = "state" THEN Tracks(t) ELSE Ask(t, "report", 0)
  /\ UNCHANGED <<world, loop, current, kv, service, late, store, history>>

OpenOf(m) == {i \in DOMAIN incident : incident[i] = [monitor |-> m, status |-> "open"]}

\* The incident service answers with the open incident of the key, or a new one.
AnsweredId(t) ==
  IF t.op # "create" THEN t.id
  ELSE IF OpenOf(t.monitor) # {} THEN CHOOSE i \in OpenOf(t.monitor) : TRUE
  ELSE Len(incident) + 1

\* Mutant: a creation does not look for an open incident of its key.
ServeUnchecked(t) ==
  \/ /\ t.op = "create"
     /\ incident' = Append(incident, [monitor |-> t.monitor, status |-> "open"])
     /\ UNCHANGED reported
  \/ /\ t.op = "resolve"
     /\ incident' = [incident EXCEPT ![t.id].status = "resolved"]
     /\ UNCHANGED reported
  \/ /\ t.op = "report"
     /\ reported' = reported \union
                    {[monitor |-> t.monitor, block |-> t.block, kind |-> t.kind]}
     /\ UNCHANGED incident

Serve(t) ==
  \/ /\ t.op = "create"
     /\ incident' = IF OpenOf(t.monitor) # {} THEN incident
                    ELSE Append(incident, [monitor |-> t.monitor, status |-> "open"])
     /\ UNCHANGED reported
  \/ /\ t.op = "resolve"
     /\ incident' = IF incident[t.id].status # "open" THEN incident
                    ELSE [incident EXCEPT ![t.id].status = "resolved"]
     /\ UNCHANGED reported
  \/ /\ t.op = "report"
     /\ reported' = reported \union
                    {[monitor |-> t.monitor, block |-> t.block, kind |-> t.kind]}
     /\ UNCHANGED incident

\* The current watcher waits for x.
IsOwn(x) == Awaited(x) /\ IsRunning(x.loop)

Served(t) ==
  /\ t.pc = "sent"
  /\ Serve(t)
  /\ tasks' = (tasks \ {t}) \union {[t EXCEPT !.pc = "answered", !.id = AnsweredId(t)]}
  /\ stray' = (stray \/ (~IsOwn(t) /\ service' # service))
  /\ UNCHANGED <<world, loop, current, kv, late, store, restarts, failures>>

\* Mutant: the entry of a resolved incident is kept.
TrackedForever(t) ==
  IF t.op = "create" THEN [kv EXCEPT ![t.monitor] = [id |-> t.id, isDue |-> FALSE]]
  ELSE kv

Tracked(t) ==
  CASE t.op = "create" -> [kv EXCEPT ![t.monitor] = [id |-> t.id, isDue |-> FALSE]]
    [] t.op = "resolve" -> [kv EXCEPT ![t.monitor] = None]
    [] OTHER -> kv

Answered(t) ==
  /\ t.pc = "answered"
  /\ kv' = Tracked(t)
  /\ tasks' = tasks \ {t}
  /\ stray' = (stray \/ (~IsOwn(t) /\ kv' # kv))
  /\ UNCHANGED <<world, loop, current, service, late, store, restarts, failures>>

\* Mutant: Promise.allSettled, whose results are not looked at.
RejectsSettled(t) == tasks' = tasks \ {t} /\ UNCHANGED loop

\* A handler rejects.  Promise.all passes it on at once; for a call, the loop
\* over the extrinsics catches it, and has other calls to wait for or not.
Rejects(t) ==
  /\ tasks' = tasks \ {t}
  /\ \/ ~Awaited(t) /\ UNCHANGED loop
     \/ Awaited(t) /\ t.kind # "call" /\ GoOn(t.loop, "ready")
     \/ Awaited(t) /\ t.kind = "call" /\ (UNCHANGED loop \/ GoOn(t.loop, "call"))

\* The chain or the incident service fails it, or the answer does not come in
\* time; the request may still be served.
HandlerFails(t) ==
  /\ t.pc \in {"begun", "sent", "answered"}
  /\ Fail
  /\ Rejects(t)
  /\ late' = IF t.pc = "sent" THEN late \union {t} ELSE late
  /\ stray' = (stray \/ (~IsOwn(t) /\ t.pc = "answered"))
  /\ UNCHANGED <<world, current, kv, service, store, restarts>>

\* The chain never answers: the follow it was asked on is gone.
HandlerHangs(t) ==
  /\ t.pc = "begun" /\ IsRunning(t.loop)
  /\ Fail
  /\ tasks' = (tasks \ {t}) \union {[t EXCEPT !.pc = "hung"]}
  /\ UNCHANGED <<world, loop, current, kv, service, late, store, restarts, stray>>

\* destroy rejects what was asked of the client.
HandlerRejected(t) ==
  /\ t.pc \in {"begun", "hung"} /\ ~IsRunning(t.loop)
  /\ Rejects(t)
  /\ UNCHANGED <<world, current, kv, service, late, store, history>>

ServedLate(t) ==
  /\ t \in late /\ late' = late \ {t}
  /\ Serve(t)
  /\ stray' = (stray \/ service' # service)
  /\ UNCHANGED <<world, loop, current, tasks, kv, store, restarts, failures>>

\* checkedAt of a tracked incident falls behind.
RecheckDue(m) ==
  /\ kv[m] # None /\ ~kv[m].isDue
  /\ kv' = [kv EXCEPT ![m].isDue = TRUE]
  /\ UNCHANGED <<world, loop, current, tasks, service, late, store, history>>

-----------------------------------------------------------------------------
(***************************************************************************)
(* The last block: setLastBlock reads the row, then writes it.  A lower    *)
(* number is a conflict, which the store takes for success.                *)
(***************************************************************************)
\* Every five minutes, and on shutdown.
PersistTimer ==
  /\ loop[current].done # 0
  /\ Cardinality(puts) < MaxPuts
  /\ puts' = puts \union {PutOf(current, None)}
  /\ UNCHANGED <<world, loop, current, tasks, kv, service, late, watermark, history>>

PutRead(p) ==
  /\ p.pc = "sent"
  /\ puts' = (puts \ {p}) \union {[p EXCEPT !.pc = "read", !.seen = watermark]}
  /\ UNCHANGED <<world, loop, current, tasks, kv, service, late, watermark, history>>

PutWrite(p) ==
  /\ p.pc = "read"
  /\ watermark' = IF p.block > p.seen THEN p.block ELSE watermark
  /\ puts' = (puts \ {p}) \union
             {q \in {[p EXCEPT !.pc = "answered"]} : Awaited(p)}
  /\ stray' = (stray \/ (~IsOwn(p) /\ watermark' # watermark))
  /\ UNCHANGED <<world, loop, current, tasks, kv, service, late, restarts, failures>>

PutAnswered(p) ==
  /\ p.pc = "answered" /\ Awaited(p)
  /\ puts' = puts \ {p}
  /\ loop' = [loop EXCEPT ![p.loop] = [pc |-> "ready", next |-> p.block + 1,
                                       done |-> p.block, attempt |-> p.attempt]]
  /\ UNCHANGED <<world, current, tasks, kv, service, late, watermark, history>>

PutFails(p) ==
  /\ Awaited(p)
  /\ Fail
  /\ GoOn(p.loop, "ready")
  /\ puts' = IF p.pc = "answered" THEN puts \ {p} ELSE puts
  /\ UNCHANGED <<world, current, tasks, kv, service, late, watermark, restarts, stray>>

-----------------------------------------------------------------------------
NewBlock ==
  /\ latest < Len(chain)
  /\ latest' = latest + 1
  /\ UNCHANGED <<chain, loop, current, tasks, kv, service, late, store, history>>

ManualResolve(i) ==
  /\ incident[i].status = "open"
  /\ Cardinality({j \in DOMAIN incident : incident[j].status = "manual"}) < MaxManual
  /\ incident' = [incident EXCEPT ![i].status = "manual"]
  /\ UNCHANGED <<world, loop, current, tasks, kv, reported, late, store, history>>

(***************************************************************************)
(* The process ends and is started again.  Its KV store was in memory;     *)
(* what it had asked the incident service may still be served.             *)
(***************************************************************************)
Crash ==
  /\ restarts < MaxRestarts
  /\ loop' = [l \in Loop |-> NewLoop(IF l = 1 THEN "boot" ELSE "off", l)]
  /\ current' = 1
  /\ tasks' = {}
  /\ kv' = [m \in Monitor |-> None]
  /\ late' = late \union {t \in tasks : t.pc = "sent"}
  /\ puts' = {p \in puts : p.pc # "answered"}
  /\ restarts' = restarts + 1
  /\ UNCHANGED <<world, service, watermark, failures, stray>>

\* Mutant: the guard heals a hung call only.
IsStuckOnCall == \E t \in Waiting(current) : t.pc = "hung"

(***************************************************************************)
(* The stall guard: no progress for two minutes, and the watcher is        *)
(* stopped, its client destroyed and another one started in this process.  *)
(***************************************************************************)
IsStuck ==
  \/ loop[current].pc = "exited"
  \/ \E t \in Waiting(current) : t.pc = "hung"

Rebuild(l) ==
  /\ loop[l].pc = "off" /\ \A t \in tasks : t.loop # l
  /\ IsStuck \/ restarts < MaxRestarts
  /\ loop' = [loop EXCEPT ![l] = NewLoop("starting", l)]
  /\ current' = l
  /\ restarts' = restarts + 1
  /\ UNCHANGED <<world, tasks, kv, service, late, store, failures, stray>>

-----------------------------------------------------------------------------
LoopStep(l) ==
  StartLoop(l) \/ BeginBlock(l) \/ NextPhase(l) \/ PersistBlock(l) \/ Rejected(l) \/ Retire(l)

HandlerStep(t) == Handle(t) \/ Served(t) \/ Answered(t) \/ HandlerRejected(t)

PutStep(p) == PutRead(p) \/ PutWrite(p) \/ PutAnswered(p)

Next ==
  \/ \E l \in Loop : LoopStep(l) \/ LoopExits(l) \/ Rebuild(l)
  \/ \E t \in tasks : HandlerStep(t) \/ HandlerFails(t) \/ HandlerHangs(t)
  \/ \E t \in late : ServedLate(t)
  \/ \E m \in Lasting : RecheckDue(m)
  \/ \E p \in puts : PutStep(p) \/ PutFails(p)
  \/ \E i \in DOMAIN incident : ManualResolve(i)
  \/ PersistTimer \/ NewBlock \/ Crash

Spec == Init /\ [][Next]_vars

(***************************************************************************)
(* What does not fail is answered, the event loop runs, and the stall      *)
(* guard acts on a watcher that is stuck.  A request nobody waits for, a   *)
(* block, the timers, people and faults are free to happen or not.         *)
(***************************************************************************)
Fairness ==
  /\ \A l \in Loop :
       /\ WF_vars(LoopStep(l))
       /\ WF_vars(IsStuck /\ Rebuild(l))
       /\ WF_vars(\E p \in puts : p.loop = l /\ Awaited(p) /\ PutStep(p))
  /\ WF_vars(\E t \in tasks : HandlerStep(t))

FairSpec == Spec /\ Fairness

-----------------------------------------------------------------------------
(***************************************************************************)
(* What the watcher promises.                                              *)
(***************************************************************************)
\* startBlock above the stored block leaves out what is between.
IsSkipped(b) == StartBlock # None /\ b < StartBlock

Stored == {b \in DOMAIN chain : b <= watermark /\ ~IsSkipped(b)}

\* The last block is stored only when the incident service has every event
\* report of the blocks up to it: a restart, which resumes there, loses none,
\* whatever failed, hung, or was stored out of order before.
NoReportLost == \A b \in Stored : Reports(b, "event") \subseteq reported

\* The watcher has processed every block there is, and waits for the next.
IsUpToDate ==
  LET l == loop[current]
  IN l.pc = "ready" /\ l.done = latest /\ l.next = latest + 1

\* An up-to-date watcher and the incident service agree: a condition that
\* holds is tracked, and its incident open or closed by hand; one that does
\* not hold has no open incident and is not tracked.  Restarts, rebuilds and
\* retries do not matter, as long as no handler or request that was given up
\* has had an effect; some may still run.  (A startBlock may pass over the
\* block in which a condition ended.)
AgreesUnlessStray ==
  StartBlock = None /\ IsUpToDate /\ ~stray =>
    \A m \in Monitor :
      IF m \in chain[latest].firing
      THEN kv[m] # None /\ incident[kv[m].id].monitor = m
                        /\ incident[kv[m].id].status # "resolved"
      ELSE kv[m] = None /\ OpenOf(m) = {}

\* No handler is at work and no request is to be served any more.
IsSettled == IsUpToDate /\ tasks = {} /\ late = {}

\* Without the condition on given-up handlers, what incident-handler.ts says of
\* itself ("Resolves an incident when a condition stops firing"): when all is done,
\* an incident whose condition is over is closed, or tracked, so that the next block
\* closes it.
ResolvedWhenOver ==
  IsSettled => \A m \in Monitor \ chain[latest].firing : kv[m] # None \/ OpenOf(m) = {}

\* The times m has begun to fire, up to the last block.
Episodes(m) ==
  {b \in 1 .. latest : m \in chain[b].firing /\
                       (b > 1 => m \notin chain[b - 1].firing)}

Alerts(m) == {i \in DOMAIN incident : incident[i].monitor = m}

OneAlertPerEpisode ==
  \A m \in Monitor : Cardinality(Alerts(m)) <= Cardinality(Episodes(m))

\* A process that has not been restarted, nor rebuilt its watcher, alerts once
\* for each time a condition begins to hold, through any number of retries of a
\* block, unless a given-up handler takes effect or somebody closes the
\* incident by hand.
OneAlertUnlessRestarted ==
  restarts = 0 /\ ~stray /\ (\A i \in DOMAIN incident : incident[i].status # "manual")
    => OneAlertPerEpisode

\* Every block is processed in the end: a failure is retried, a call that hangs
\* or a loop that has ended is replaced by the stall guard.
EveryBlockIsProcessed ==
  \A b \in UNION {DOMAIN c : c \in Chains} : (b <= latest) ~> (watermark >= b)

\* A condition that goes on after somebody has closed its incident is alerted
\* again, when the incident is due for a recheck before the next block and no
\* request to create it, which the service may have answered with the incident
\* then closed, is in flight.
ClosedByHandIsRealerted ==
  \A m \in Monitor :
    (/\ \A b \in DOMAIN chain : m \in chain[b].firing
     /\ OpenOf(m) = {}
     /\ IF kv[m] = None THEN FALSE ELSE kv[m].isDue
     /\ \A t \in tasks : t.op # "create"
     /\ latest > loop[current].next) ~> (OpenOf(m) # {})
=============================================================================
