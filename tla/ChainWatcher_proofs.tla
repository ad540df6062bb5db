------------------------- MODULE ChainWatcher_proofs -------------------------
(***************************************************************************)
(* What is proved of ChainWatcher for any monitors, chains, startBlock and *)
(* bounds: its type invariant, that a stored block has its event reports   *)
(* (NoReportLost), that the watcher and the incident service agree         *)
(* (AgreesUnlessStray), and that a condition is alerted once               *)
(* (OneAlertUnlessRestarted).                                              *)
(*                                                                         *)
(* NoReportLost is not inductive.  A block is stored by a request that may *)
(* be in flight long after the loop that sent it has gone (PutsReported);  *)
(* a loop that sends it has waited for the handlers of the block           *)
(* (EventPending) and has begun where every earlier block was done         *)
(* (LoopsReported); and that it waits for its own handlers and request,    *)
(* never for those of an attempt given up, rests on the attempt numbers    *)
(* (TasksMatch, PutsMatch).                                                *)
(*                                                                         *)
(* The other two speak of a watcher at rest, and are kept while it works.  *)
(* Known says what the handlers it waits for still know; StepSeen then     *)
(* reduces every step to one of a few events, or to one that changes       *)
(* nothing it has in hand.  AgreeInv and CountInv are kept by each event:  *)
(* what an attempt given up has left behind has a cause in the block       *)
(* stored, or in the one after it.                                         *)
(***************************************************************************)
EXTENDS ChainWatcher, FiniteSetTheorems, WellFoundedInduction, TLAPS

Running == {"ready", "state", "event", "call", "persist"}

\* The attempt of a loop has its own tasks only, for the block it is at.
TasksMatch ==
  \A t \in tasks :
    /\ t.attempt <= loop[t.loop].attempt
    /\ Awaited(t) => loop[t.loop].pc = t.kind /\ t.block = loop[t.loop].next

\* The same of its request to store the block, of which there is one.
PutsMatch ==
  /\ \A p \in puts :
       p.loop # None =>
         /\ p.attempt <= loop[p.loop].attempt
         /\ Awaited(p) => loop[p.loop].pc = "persist"
  /\ \A p, q \in puts : Awaited(p) /\ Awaited(q) /\ p.loop = q.loop => p = q

InRange ==
  /\ watermark >= 1
  /\ \A l \in Loop :
       /\ loop[l].pc \in Running => loop[l].next >= 1
       /\ loop[l].pc \in Running \ {"ready"} => loop[l].next \in DOMAIN chain

Match == TasksMatch /\ PutsMatch /\ InRange

Reported(m, b) == [monitor |-> m, block |-> b, kind |-> "event"] \in reported

\* Block b has its event reports, or is none of ours.
IsReported(b) ==
  b \in DOMAIN chain /\ ~IsSkipped(b) => \A m \in chain[b].event : Reported(m, b)

ReportedTo(n) == \A b \in Nat : b <= n => IsReported(b)

LoopsReported ==
  \A l \in Loop :
    /\ ReportedTo(loop[l].done)
    /\ loop[l].pc \in Running => ReportedTo(loop[l].next - 1)
    /\ loop[l].pc \in {"call", "persist"} => IsReported(loop[l].next)

EventPending ==
  \A l \in Loop : loop[l].pc = "event" =>
    \A m \in chain[loop[l].next].event :
      \/ Reported(m, loop[l].next)
      \/ \E t \in Waiting(l) : t.kind = "event" /\ t.monitor = m

TasksReported ==
  \A t \in tasks : t.kind = "event" =>
    /\ t.pc \in {"sent", "answered"} => t.op = "report"
    /\ t.pc = "answered" => Reported(t.monitor, t.block)

PutsReported == \A p \in puts : ReportedTo(p.block)

ReportInv ==
  LoopsReported /\ EventPending /\ TasksReported /\ PutsReported /\ ReportedTo(watermark)

IInv == TypeOK /\ Match /\ ReportInv

-----------------------------------------------------------------------------
(***************************************************************************)
(* Types.                                                                  *)
(***************************************************************************)
USE DEF Loop

LEMMA InitType == Init => TypeOK
<1> SUFFICES ASSUME Init PROVE TypeOK
  OBVIOUS
<1>1. chain \in Seq(Block) /\ chain # <<>> /\ 1 \in DOMAIN chain
  BY ChainsAssumption DEF Init
<1>2. /\ chain[1].firing \subseteq Monitor /\ chain[1].event \subseteq Monitor
      /\ chain[1].call \subseteq Monitor
  <2>1. chain[1] \in Block
    BY <1>1
  <2> QED
    BY <2>1 DEF Block
<1>3. Cardinality(chain[1].firing) \in Nat
  BY <1>2, ConstantsAssumption, FS_Subset, FS_CardinalityType
<1>4. incident \in Seq(IncidentRow)
  <2>1. [monitor: chain[1].firing, status: {"open"}] \subseteq IncidentRow
    BY <1>2 DEF IncidentRow
  <2> QED
    BY <1>3, <2>1 DEF Init
<1>5. reported \subseteq Report
  BY <1>2 DEF Init, Reports, Report, Kind
<1>6. loop \in [Loop -> LoopState]
  BY DEF Init, LoopState
<1>7. /\ latest \in DOMAIN chain /\ current \in Loop /\ watermark \in Nat
      /\ kv \in [Monitor -> OngoingIncident \union {None}]
      /\ restarts \in Nat /\ failures \in 0 .. MaxFailures /\ stray \in BOOLEAN
  <2>1. latest \in DOMAIN chain /\ current \in Loop /\ watermark \in Nat
    BY <1>1 DEF Init
  <2>2. kv \in [Monitor -> OngoingIncident \union {None}]
    BY DEF Init
  <2>3. restarts = 0 /\ failures = 0 /\ stray = FALSE
    BY DEF Init
  <2>4. 0 \in 0 .. MaxFailures
    BY ConstantsAssumption
  <2> QED
    BY <2>1, <2>2, <2>3, <2>4
<1>8. tasks \subseteq Task /\ late \subseteq Task /\ puts \subseteq Put
  BY DEF Init
<1> QED
  BY <1>1, <1>4, <1>5, <1>6, <1>7, <1>8 DEF TypeOK

\* Changing the status of an incident keeps the table.
LEMMA StatusType ==
  ASSUME incident \in Seq(IncidentRow), NEW i, NEW s \in {"open", "resolved", "manual"}
  PROVE  [incident EXCEPT ![i].status = s] \in Seq(IncidentRow)
<1>1. incident \in [1 .. Len(incident) -> IncidentRow] /\ Len(incident) \in Nat
  OBVIOUS
<1>2. [incident EXCEPT ![i].status = s] \in [1 .. Len(incident) -> IncidentRow]
  BY <1>1 DEF IncidentRow
<1> QED
  BY <1>1, <1>2

LEMMA GoOnType ==
  ASSUME loop \in [Loop -> LoopState], NEW l \in Loop, NEW pc \in {"ready", "call"}, GoOn(l, pc)
  PROVE  loop' \in [Loop -> LoopState]
  BY DEF GoOn, LoopState

LEMMA FailType == TypeOK /\ Fail => failures' \in 0 .. MaxFailures
  BY ConstantsAssumption DEF TypeOK, Fail

LEMMA NewLoopType ==
  ASSUME loop \in [Loop -> LoopState], NEW l \in Loop, NEW pc \in {"boot", "starting", "off"}
  PROVE  NewLoop(pc, l) \in LoopState
  BY DEF NewLoop, LoopState

\* The handlers an attempt begins; its block is one of the chain.
LEMMA BegunType ==
  ASSUME TypeOK, NEW l \in Loop, NEW kind \in Kind, loop[l].next \in DOMAIN chain
  PROVE  Begun(l, kind) \subseteq Task
<1>1. chain[loop[l].next] \in Block /\ loop[l] \in LoopState
  BY DEF TypeOK
<1> QED
  BY <1>1 DEF Begun, Block, LoopState, Kind, Task

LEMMA PutOfType ==
  ASSUME TypeOK, NEW l \in Loop, NEW owner \in Loop \union {None}
  PROVE  PutOf(l, owner) \in Put
  BY DEF TypeOK, PutOf, Put, LoopState

\* What a step leaves alone keeps its type.
LEMMA StepType ==
  ASSUME TypeOK, InRange, Next
  PROVE  TypeOK'
<1> USE DEF vars, world, service, store, history
<1>1. ASSUME NEW l \in Loop, StartLoop(l) PROVE TypeOK'
  BY <1>1, ConstantsAssumption DEF StartLoop, FirstBlock, TypeOK, LoopState
<1>2. ASSUME NEW l \in Loop, LoopExits(l) PROVE TypeOK'
  BY <1>2, FailType DEF LoopExits, TypeOK, LoopState
<1>3. ASSUME NEW l \in Loop, Retire(l) PROVE TypeOK'
  BY <1>3 DEF Retire, TypeOK, LoopState
<1>4. ASSUME NEW l \in Loop, NEW kind \in Kind, BeginPhase(l, kind),
             loop[l].next \in DOMAIN chain
      PROVE  TypeOK'
  <2>1. tasks' \subseteq Task
    BY <1>4, BegunType DEF BeginPhase, TypeOK
  <2>2. loop' \in [Loop -> LoopState]
    BY <1>4 DEF BeginPhase, TypeOK, LoopState, Kind
  <2> QED
    BY <1>4, <2>1, <2>2 DEF BeginPhase, TypeOK
<1>5. ASSUME NEW l \in Loop, BeginBlock(l) PROVE TypeOK'
  <2>1. loop[l].next \in DOMAIN chain
    BY <1>5 DEF BeginBlock, TypeOK, LoopState, InRange, Running
  <2> QED
    BY <1>4, <1>5, <2>1 DEF BeginBlock, Kind
<1>6. ASSUME NEW l \in Loop, NextPhase(l) PROVE TypeOK'
  <2>1. loop[l].next \in DOMAIN chain
    BY <1>6 DEF NextPhase, InRange, Running
  <2> QED
    BY <1>4, <1>6, <2>1 DEF NextPhase, Kind
<1>7. ASSUME NEW l \in Loop, Rejected(l) PROVE TypeOK'
  BY <1>7, GoOnType DEF Rejected, TypeOK
<1>8. ASSUME NEW l \in Loop, PersistBlock(l) PROVE TypeOK'
  <2>1. puts' \subseteq Put
    BY <1>8, PutOfType DEF PersistBlock, TypeOK
  <2>2. loop' \in [Loop -> LoopState]
    BY <1>8 DEF PersistBlock, TypeOK, LoopState
  <2> QED
    BY <1>8, <2>1, <2>2 DEF PersistBlock, TypeOK
<1>9. ASSUME NEW l \in Loop, Rebuild(l) PROVE TypeOK'
  <2>1. loop' \in [Loop -> LoopState]
    BY <1>9, NewLoopType DEF Rebuild, TypeOK
  <2> QED
    BY <1>9, <2>1 DEF Rebuild, TypeOK
<1>10. ASSUME NEW t \in tasks, NEW op \in {"create", "resolve", "report"}, NEW id \in Nat,
              Ask(t, op, id)
       PROVE  tasks' \subseteq Task
  BY <1>10 DEF Ask, TypeOK, Task
<1>11. ASSUME NEW t \in tasks, Handle(t) PROVE TypeOK'
  <2>1. t \in Task /\ t.monitor \in Monitor
    BY DEF TypeOK, Task
  <2>2. kv[t.monitor] # None => kv[t.monitor].id \in Nat
    BY <2>1 DEF TypeOK, OngoingIncident
  <2>3. tasks' \subseteq Task
    <3>1. CASE t.kind = "state"
      BY <1>11, <1>10, <2>2, <3>1 DEF Handle, Tracks, TypeOK
    <3>2. CASE t.kind # "state"
      BY <1>11, <1>10, <3>2 DEF Handle
    <3> QED
      BY <3>1, <3>2
  <2> QED
    BY <1>11, <2>3 DEF Handle, TypeOK
<1>12. ASSUME NEW t \in Task, Serve(t)
       PROVE  incident' \in Seq(IncidentRow) /\ reported' \subseteq Report
  <2>1. CASE t.op = "create"
    <3>1. [monitor |-> t.monitor, status |-> "open"] \in IncidentRow
      BY DEF IncidentRow, Task
    <3>2. incident \in Seq(IncidentRow) /\ reported \subseteq Report
      BY DEF TypeOK
    <3>3. /\ incident' = incident \/ incident' = Append(incident, [monitor |-> t.monitor, status |-> "open"])
          /\ reported' = reported
      BY <1>12, <2>1 DEF Serve
    <3> QED
      BY <3>1, <3>2, <3>3
  <2>2. CASE t.op = "resolve"
    BY <1>12, <2>2, StatusType DEF Serve, TypeOK
  <2>3. CASE t.op = "report"
    BY <1>12, <2>3 DEF Serve, TypeOK, Report, Task
  <2> QED
    BY <1>12, <2>1, <2>2, <2>3 DEF Serve
<1>13. ASSUME NEW t \in tasks, Served(t) PROVE TypeOK'
  <2>1. t \in Task
    BY DEF TypeOK
  <2>2. AnsweredId(t) \in Nat
    BY <2>1 DEF AnsweredId, OpenOf, Task, TypeOK
  <2>3. tasks' \subseteq Task
    BY <1>13, <2>1, <2>2 DEF Served, TypeOK, Task
  <2>4. stray' \in BOOLEAN
    BY <1>13 DEF Served
  <2> QED
    BY <1>12, <1>13, <2>1, <2>3, <2>4 DEF Served, TypeOK
<1>14. ASSUME NEW t \in tasks, Answered(t) PROVE TypeOK'
  <2>1. t \in Task
    BY DEF TypeOK
  <2>2. kv' \in [Monitor -> OngoingIncident \union {None}]
    BY <1>14, <2>1 DEF Answered, Tracked, TypeOK, OngoingIncident, Task
  <2>3. stray' \in BOOLEAN
    BY <1>14 DEF Answered
  <2> QED
    BY <1>14, <2>2, <2>3 DEF Answered, TypeOK
<1>15. ASSUME NEW t \in tasks, Rejects(t)
       PROVE  tasks' \subseteq Task /\ loop' \in [Loop -> LoopState]
  <2>1. t.loop \in Loop
    BY DEF TypeOK, Task
  <2> QED
    BY <1>15, <2>1, GoOnType DEF Rejects, TypeOK
<1>16. ASSUME NEW t \in tasks, HandlerFails(t) PROVE TypeOK'
  <2>1. late' \subseteq Task /\ stray' \in BOOLEAN
    BY <1>16 DEF HandlerFails, TypeOK
  <2> QED
    BY <1>15, <1>16, <2>1, FailType DEF HandlerFails, TypeOK
<1>17. ASSUME NEW t \in tasks, HandlerHangs(t) PROVE TypeOK'
  <2>1. tasks' \subseteq Task
    BY <1>17 DEF HandlerHangs, TypeOK, Task
  <2> QED
    BY <1>17, <2>1, FailType DEF HandlerHangs, TypeOK
<1>18. ASSUME NEW t \in tasks, HandlerRejected(t) PROVE TypeOK'
  BY <1>15, <1>18 DEF HandlerRejected, TypeOK
<1>19. ASSUME NEW t \in late, ServedLate(t) PROVE TypeOK'
  <2>1. t \in Task
    BY DEF TypeOK
  <2>2. stray' \in BOOLEAN
    BY <1>19 DEF ServedLate
  <2> QED
    BY <1>12, <1>19, <2>1, <2>2 DEF ServedLate, TypeOK
<1>20. ASSUME NEW m \in Lasting, RecheckDue(m) PROVE TypeOK'
  <2>1. m \in Monitor /\ kv[m] \in OngoingIncident
    BY <1>20, ConstantsAssumption DEF RecheckDue, TypeOK
  <2>2. kv' \in [Monitor -> OngoingIncident \union {None}]
    BY <1>20, <2>1 DEF RecheckDue, TypeOK, OngoingIncident
  <2> QED
    BY <1>20, <2>2 DEF RecheckDue, TypeOK
<1>21. PersistTimer => TypeOK'
  <2>1. PutOf(current, None) \in Put
    BY PutOfType DEF TypeOK
  <2> QED
    BY <2>1 DEF PersistTimer, TypeOK
<1>22. ASSUME NEW p \in puts, PutRead(p) PROVE TypeOK'
  <2>1. puts' \subseteq Put
    BY <1>22 DEF PutRead, TypeOK, Put
  <2> QED
    BY <1>22, <2>1 DEF PutRead, TypeOK
<1>23. ASSUME NEW p \in puts, PutWrite(p) PROVE TypeOK'
  <2>1. puts' \subseteq Put /\ watermark' \in Nat
    BY <1>23 DEF PutWrite, TypeOK, Put
  <2>2. stray' \in BOOLEAN
    BY <1>23 DEF PutWrite
  <2> QED
    BY <1>23, <2>1, <2>2 DEF PutWrite, TypeOK
<1>24. ASSUME NEW p \in puts, PutAnswered(p) PROVE TypeOK'
  <2>1. p \in Put /\ p.loop \in Loop
    BY <1>24 DEF PutAnswered, Awaited, TypeOK, Put
  <2>2. loop' \in [Loop -> LoopState]
    BY <1>24, <2>1 DEF PutAnswered, TypeOK, LoopState, Put
  <2> QED
    BY <1>24, <2>2 DEF PutAnswered, TypeOK
<1>25. ASSUME NEW p \in puts, PutFails(p) PROVE TypeOK'
  <2>1. p.loop \in Loop
    BY <1>25 DEF PutFails, Awaited, TypeOK, Put
  <2> QED
    BY <1>25, <2>1, FailType, GoOnType DEF PutFails, TypeOK
<1>26. NewBlock => TypeOK'
  BY DEF NewBlock, TypeOK
<1>27. ASSUME NEW i \in DOMAIN incident, ManualResolve(i) PROVE TypeOK'
  BY <1>27, StatusType DEF ManualResolve, TypeOK
<1>28. Crash => TypeOK'
  <2> SUFFICES ASSUME Crash PROVE TypeOK'
    OBVIOUS
  <2>1. loop' \in [Loop -> LoopState]
    BY NewLoopType DEF Crash, TypeOK
  <2>2. tasks' \subseteq Task /\ late' \subseteq Task /\ puts' \subseteq Put
    BY DEF Crash, TypeOK
  <2>3. kv' \in [Monitor -> OngoingIncident \union {None}]
    BY DEF Crash
  <2> QED
    BY <2>1, <2>2, <2>3 DEF Crash, TypeOK
<1> QED
  BY <1>1, <1>2, <1>3, <1>5, <1>6, <1>7, <1>8, <1>9, <1>11, <1>13, <1>14, <1>16, <1>17, <1>18,
     <1>19, <1>20, <1>21, <1>22, <1>23, <1>24, <1>25, <1>26, <1>27, <1>28
     DEF Next, LoopStep, HandlerStep, PutStep

-----------------------------------------------------------------------------
(***************************************************************************)
(* Who waits for what.                                                     *)
(***************************************************************************)
\* u is what has become of t.
Follows(t, u) ==
  u.loop = t.loop /\ u.attempt = t.attempt /\ u.kind = t.kind /\ u.block = t.block
                  /\ u.monitor = t.monitor

LEMMA NobodyWaits ==
  ASSUME TypeOK, Match, NEW l \in Loop, loop[l].pc \notin Kind
  PROVE  Waiting(l) = {}
  BY DEF TypeOK, Match, TasksMatch, Waiting, Task

LEMMA NothingStored ==
  ASSUME TypeOK, Match, NEW l \in Loop, loop[l].pc # "persist", NEW p \in puts, p.loop = l
  PROVE  ~Awaited(p)
  BY DEF TypeOK, Match, PutsMatch, Awaited

\* The handlers go on, and the loops stay.
LEMMA HandlersMove ==
  ASSUME TasksMatch, loop' = loop, \A u \in tasks' : \E t \in tasks : Follows(t, u)
  PROVE  TasksMatch'
  BY DEF TasksMatch, Awaited, Follows

\* A loop nobody is waited for by, or that gives up its attempt, goes on.
LEMMA LoopMoves ==
  ASSUME TypeOK, TypeOK', TasksMatch, NEW l \in Loop,
         \A k \in Loop \ {l} : loop'[k] = loop[k],
         \/ loop'[l].attempt > loop[l].attempt
         \/ loop'[l].attempt = loop[l].attempt /\ Waiting(l) = {},
         \A u \in tasks' :
           \/ u \in tasks
           \/ /\ u.loop = l /\ u.attempt = loop'[l].attempt
              /\ u.kind = loop'[l].pc /\ u.block = loop'[l].next
  PROVE  TasksMatch'
<1> SUFFICES ASSUME NEW u \in tasks'
             PROVE  /\ u.attempt <= loop'[u.loop].attempt
                    /\ u.attempt = loop'[u.loop].attempt =>
                         loop'[u.loop].pc = u.kind /\ u.block = loop'[u.loop].next
  BY DEF TasksMatch, Awaited
<1>1. u \in Task /\ loop[l] \in LoopState /\ loop'[l] \in LoopState
  BY DEF TypeOK
<1>2. CASE u \notin tasks
  BY <1>1, <1>2 DEF Task, LoopState
<1>3. CASE u \in tasks /\ u.loop = l
  <2>1. u.attempt <= loop[l].attempt /\ (u.attempt = loop[l].attempt => u \in Waiting(l))
    BY <1>1, <1>3, ConstantsAssumption DEF TasksMatch, Waiting, Awaited, Task
  <2> QED
    BY <1>1, <1>3, <2>1 DEF Task, LoopState
<1>4. CASE u \in tasks /\ u.loop # l
  <2>1. u.loop \in Loop /\ u.loop # None
    BY <1>1, ConstantsAssumption DEF Task
  <2>2. loop'[u.loop] = loop[u.loop]
    BY <1>4, <2>1
  <2> QED
    BY <1>4, <2>1, <2>2 DEF TasksMatch, Awaited
<1> QED
  BY <1>2, <1>3, <1>4

\* The same of the requests to store a block.
LEMMA PutsStay ==
  ASSUME TypeOK, TypeOK', PutsMatch, NEW l \in Loop,
         \A k \in Loop \ {l} : loop'[k] = loop[k],
         puts' \subseteq puts,
         \/ loop'[l].attempt > loop[l].attempt
         \/ /\ loop'[l].attempt = loop[l].attempt
            /\ \A p \in puts' : p.loop = l => ~Awaited(p)
  PROVE  PutsMatch'
<1>1. ASSUME NEW p \in puts', p.loop # None
      PROVE  /\ p.attempt <= loop'[p.loop].attempt
             /\ p.attempt = loop'[p.loop].attempt =>
                  p.loop # l /\ loop'[p.loop] = loop[p.loop]
  <2>1. p \in puts /\ p \in Put /\ p.loop \in Loop
    BY <1>1 DEF TypeOK, Put
  <2>2. p.attempt <= loop[p.loop].attempt
    BY <1>1, <2>1 DEF PutsMatch
  <2>3. loop[l].attempt \in Nat /\ loop'[l].attempt \in Nat /\ p.attempt \in Nat
    BY <2>1 DEF TypeOK, LoopState, Put
  <2>4. CASE p.loop = l
    BY <1>1, <2>2, <2>3, <2>4 DEF Awaited
  <2>5. CASE p.loop # l
    BY <2>1, <2>2, <2>5
  <2> QED
    BY <2>4, <2>5
<1>2. ASSUME NEW p \in puts', Awaited(p)' PROVE Awaited(p) /\ loop'[p.loop] = loop[p.loop]
  BY <1>1, <1>2 DEF Awaited
<1> QED
  BY <1>1, <1>2 DEF PutsMatch, Awaited

LEMMA MatchStep ==
  ASSUME TypeOK, TypeOK', Match, Next
  PROVE  Match'
<1> USE DEF vars, world, service, store, history
<1>1. ASSUME NEW l \in Loop, loop[l].pc \in {"boot", "starting", "ready", "exited"},
             loop'[l].attempt = loop[l].attempt, \A k \in Loop \ {l} : loop'[k] = loop[k],
             UNCHANGED <<tasks, puts>>
      PROVE  TasksMatch' /\ PutsMatch'
  <2>1. Waiting(l) = {}
    BY <1>1, NobodyWaits DEF Kind
  <2>2. \A p \in puts : p.loop = l => ~Awaited(p)
    BY <1>1, NothingStored
  <2> QED
    BY <1>1, <2>1, <2>2, LoopMoves, PutsStay DEF Match
<1>2. ASSUME NEW l \in Loop, StartLoop(l) PROVE Match'
  <2>1. /\ loop'[l].attempt = loop[l].attempt /\ loop'[l].next = FirstBlock(l)
        /\ loop'[l].pc = "ready" /\ \A k \in Loop \ {l} : loop'[k] = loop[k]
    BY <1>2 DEF StartLoop, TypeOK, LoopState
  <2>2. FirstBlock(l) >= 1
    BY ConstantsAssumption DEF FirstBlock, Match, InRange
  <2>3. InRange'
    BY <1>2, <2>1, <2>2 DEF StartLoop, Match, InRange, Running
  <2> QED
    BY <1>1, <1>2, <2>1, <2>3 DEF StartLoop, Match
<1>3. ASSUME NEW l \in Loop, LoopExits(l) \/ Retire(l) PROVE Match'
  <2>1. /\ loop'[l].attempt = loop[l].attempt /\ loop'[l].pc \in {"exited", "off"}
        /\ \A k \in Loop \ {l} : loop'[k] = loop[k]
    BY <1>3 DEF LoopExits, Retire, TypeOK, LoopState
  <2>2. InRange'
    BY <1>3, <2>1 DEF LoopExits, Retire, Match, InRange, Running
  <2> QED
    BY <1>1, <1>3, <2>1, <2>2 DEF LoopExits, Retire, Match
<1>4. ASSUME NEW l \in Loop, NEW kind \in Kind, BeginPhase(l, kind), Waiting(l) = {},
             loop[l].pc # "persist", loop[l].next \in DOMAIN chain
      PROVE  Match'
  <2>1. /\ loop'[l].attempt = loop[l].attempt /\ loop'[l].next = loop[l].next
        /\ loop'[l].pc = kind /\ \A k \in Loop \ {l} : loop'[k] = loop[k]
    BY <1>4 DEF BeginPhase, TypeOK, LoopState
  <2>2. \A u \in tasks' : u \in tasks \/ (/\ u.loop = l /\ u.attempt = loop'[l].attempt
                                          /\ u.kind = loop'[l].pc /\ u.block = loop'[l].next)
    BY <1>4, <2>1 DEF BeginPhase, Begun
  <2>3. TasksMatch'
    BY <1>4, <2>1, <2>2, LoopMoves DEF Match
  <2>4. PutsMatch'
    BY <1>4, <2>1, NothingStored, PutsStay DEF Match, BeginPhase
  <2>5. InRange'
    <3>1. loop[l].next >= 1
      BY <1>4 DEF TypeOK
    <3> QED
      BY <1>4, <2>1, <3>1 DEF BeginPhase, Match, InRange, Running
  <2> QED
    BY <2>3, <2>4, <2>5 DEF Match
<1>5. ASSUME NEW l \in Loop, BeginBlock(l) PROVE Match'
  <2>1. loop[l].next \in DOMAIN chain
    <3>1. loop[l].pc = "ready" /\ loop[l].next <= latest
      BY <1>5 DEF BeginBlock
    <3>2. loop[l].next >= 1
      BY <3>1 DEF Match, InRange, Running
    <3>3. loop[l].next \in Nat
      BY DEF TypeOK, LoopState
    <3>4. DOMAIN chain = 1 .. Len(chain) /\ Len(chain) \in Nat /\ latest \in DOMAIN chain
      BY DEF TypeOK
    <3> QED
      BY <3>1, <3>2, <3>3, <3>4
  <2>2. Waiting(l) = {}
    BY <1>5, NobodyWaits DEF BeginBlock, Kind
  <2> QED
    BY <1>4, <1>5, <2>1, <2>2 DEF BeginBlock, Kind
<1>6. ASSUME NEW l \in Loop, NextPhase(l) PROVE Match'
  <2>1. loop[l].next \in DOMAIN chain
    BY <1>6 DEF NextPhase, Match, InRange, Running
  <2> QED
    BY <1>4, <1>6, <2>1 DEF NextPhase, Kind
<1>7. ASSUME NEW l \in Loop, NEW pc \in {"ready", "call"}, GoOn(l, pc),
             loop[l].pc \in Running, pc = "call" => loop[l].pc = "call",
             tasks' \subseteq tasks, puts' \subseteq puts, UNCHANGED <<chain, watermark>>
      PROVE  Match'
  <2>1. /\ loop'[l].attempt > loop[l].attempt /\ loop'[l].next = loop[l].next
        /\ loop'[l].pc = pc /\ \A k \in Loop \ {l} : loop'[k] = loop[k]
    BY <1>7 DEF GoOn, TypeOK, LoopState
  <2>2. TasksMatch'
    BY <1>7, <2>1, LoopMoves DEF Match
  <2>3. PutsMatch'
    BY <1>7, <2>1, PutsStay DEF Match
  <2>4. InRange'
    BY <1>7, <2>1 DEF Match, InRange, Running
  <2> QED
    BY <2>2, <2>3, <2>4 DEF Match
<1>8. ASSUME NEW l \in Loop, Rejected(l) PROVE Match'
  BY <1>7, <1>8 DEF Rejected, Running
<1>9. ASSUME NEW l \in Loop, PersistBlock(l) PROVE Match'
  <2>1. /\ loop'[l].attempt = loop[l].attempt /\ loop'[l].next = loop[l].next
        /\ loop'[l].pc = "persist" /\ \A k \in Loop \ {l} : loop'[k] = loop[k]
    BY <1>9 DEF PersistBlock, TypeOK, LoopState
  <2>2. TasksMatch'
    BY <1>9, <2>1, LoopMoves DEF Match, PersistBlock
  <2>3. InRange'
    BY <1>9, <2>1 DEF PersistBlock, Match, InRange, Running
  <2>4. \A p \in puts : p.loop = l => ~Awaited(p)
    BY <1>9, NothingStored DEF PersistBlock
  <2>5. PutOf(l, l).loop = l /\ PutOf(l, l).attempt = loop[l].attempt
    BY DEF PutOf
  <2>6. \A p \in puts' :
          p = PutOf(l, l) \/ (p \in puts /\ (Awaited(p)' => Awaited(p) /\ p.loop # l))
    BY <1>9, <2>1, <2>4 DEF PersistBlock, Awaited, TypeOK, Put
  <2>7. PutsMatch'
    <3>1. loop[l].attempt \in Nat
      BY DEF TypeOK, LoopState
    <3>2. ASSUME NEW p \in puts', p.loop # None
          PROVE  /\ p.attempt <= loop'[p.loop].attempt
                 /\ Awaited(p)' => loop'[p.loop].pc = "persist"
      <4>1. CASE p = PutOf(l, l)
        BY <2>1, <2>5, <3>1, <4>1
      <4>2. CASE p # PutOf(l, l)
        <5>1. p \in puts /\ p.loop \in Loop
          BY <2>6, <3>2, <4>2 DEF TypeOK, Put
        <5> QED
          BY <2>1, <2>6, <3>2, <4>2, <5>1 DEF Match, PutsMatch
      <4> QED
        BY <4>1, <4>2
    <3>3. ASSUME NEW p \in puts', NEW q \in puts', Awaited(p)', Awaited(q)', p.loop = q.loop
          PROVE  p = q
      BY <2>5, <2>6, <3>3 DEF Match, PutsMatch
    <3> QED
      BY <3>2, <3>3 DEF PutsMatch
  <2> QED
    BY <2>2, <2>3, <2>7 DEF Match
<1>10. ASSUME NEW l \in Loop, Rebuild(l) PROVE Match'
  <2>1. /\ loop'[l].attempt = loop[l].attempt + 1 /\ loop'[l].pc = "starting"
        /\ \A k \in Loop \ {l} : loop'[k] = loop[k]
    BY <1>10 DEF Rebuild, NewLoop, TypeOK
  <2>2. loop[l].attempt \in Nat
    BY DEF TypeOK, LoopState
  <2>3. TasksMatch'
    BY <1>10, <2>1, <2>2, LoopMoves DEF Match, Rebuild
  <2>4. PutsMatch'
    BY <1>10, <2>1, <2>2, PutsStay DEF Match, Rebuild
  <2>5. InRange'
    BY <1>10, <2>1 DEF Rebuild, Match, InRange, Running
  <2> QED
    BY <2>3, <2>4, <2>5 DEF Match
<1>11. ASSUME \A u \in tasks' : \E t \in tasks : Follows(t, u),
              UNCHANGED <<chain, loop, store>>
       PROVE  Match'
  <2>1. TasksMatch'
    BY <1>11, HandlersMove DEF Match
  <2>2. PutsMatch' /\ InRange'
    BY <1>11 DEF Match, PutsMatch, InRange, Awaited
  <2> QED
    BY <2>1, <2>2 DEF Match
<1>12. ASSUME NEW t \in tasks, Handle(t) PROVE Match'
  <2>1. t \in Task
    BY DEF TypeOK
  <2>2. ASSUME NEW op, NEW id, Ask(t, op, id)
        PROVE  \A u \in tasks' : u \in tasks \/ Follows(t, u)
    BY <2>1, <2>2 DEF Ask, Follows, Task
  <2>3. \A u \in tasks' : u \in tasks \/ Follows(t, u)
    BY <1>12, <2>2 DEF Handle, Tracks
  <2> QED
    BY <1>11, <1>12, <2>3 DEF Handle, Follows
<1>13. ASSUME NEW t \in tasks, Served(t) \/ Answered(t) \/ HandlerHangs(t) PROVE Match'
  <2>1. t \in Task
    BY DEF TypeOK
  <2>2. \A u \in tasks' : u \in tasks \/ Follows(t, u)
    <3>1. CASE Served(t)
      BY <2>1, <3>1 DEF Served, Follows, Task
    <3>2. CASE Answered(t)
      BY <3>2 DEF Answered
    <3>3. CASE HandlerHangs(t)
      BY <2>1, <3>3 DEF HandlerHangs, Follows, Task
    <3> QED
      BY <1>13, <3>1, <3>2, <3>3
  <2> QED
    BY <1>11, <1>13, <2>2 DEF Served, Answered, HandlerHangs, Follows
<1>14. ASSUME NEW t \in tasks, Rejects(t), UNCHANGED <<chain, store>> PROVE Match'
  <2>1. t.loop \in Loop /\ tasks' \subseteq tasks
    BY <1>14 DEF Rejects, TypeOK, Task
  <2>2. CASE UNCHANGED loop
    BY <1>11, <1>14, <2>1, <2>2 DEF Follows
  <2>3. Awaited(t) => loop[t.loop].pc = t.kind /\ t.kind \in Kind
    BY DEF Match, TasksMatch, TypeOK, Task
  <2>4. CASE Awaited(t) /\ t.kind # "call" /\ GoOn(t.loop, "ready")
    BY <1>7, <1>14, <2>1, <2>3, <2>4 DEF Running, Kind
  <2>5. CASE Awaited(t) /\ t.kind = "call" /\ GoOn(t.loop, "call")
    BY <1>7, <1>14, <2>1, <2>3, <2>5 DEF Running
  <2> QED
    BY <1>14, <2>2, <2>4, <2>5 DEF Rejects
<1>15. ASSUME NEW t \in tasks, HandlerFails(t) \/ HandlerRejected(t) PROVE Match'
  BY <1>14, <1>15 DEF HandlerFails, HandlerRejected
<1>16. ASSUME UNCHANGED <<chain, loop, tasks, store>> PROVE Match'
  BY <1>11, <1>16 DEF Follows
<1>17. ASSUME \E t \in late : ServedLate(t) PROVE Match'
  BY <1>16, <1>17 DEF ServedLate
<1>18. ASSUME \E m \in Lasting : RecheckDue(m) PROVE Match'
  BY <1>16, <1>18 DEF RecheckDue
<1>19. ASSUME NewBlock \/ \E i \in DOMAIN incident : ManualResolve(i) PROVE Match'
  BY <1>16, <1>19 DEF NewBlock, ManualResolve
<1>20. ASSUME NEW p \in puts, UNCHANGED <<chain, loop, tasks>>, watermark' >= 1,
              \A q \in puts' : \/ q \in puts \ {p}
                               \/ q.loop = p.loop /\ q.attempt = p.attempt,
              \A q, r \in puts' \ (puts \ {p}) : q = r
       PROVE  Match'
  <2>1. TasksMatch' /\ InRange'
    BY <1>20 DEF Match, TasksMatch, InRange, Awaited
  <2>2. ASSUME NEW q \in puts'
        PROVE  \E r \in puts : /\ q.loop = r.loop /\ q.attempt = r.attempt
                               /\ Awaited(q)' = Awaited(r)
                               /\ r = q \/ r = p
    BY <1>20, <2>2 DEF Awaited
  <2>3. ASSUME NEW q \in puts', q.loop # None
        PROVE  /\ q.attempt <= loop'[q.loop].attempt
               /\ Awaited(q)' => loop'[q.loop].pc = "persist"
    BY <1>20, <2>2, <2>3 DEF Match, PutsMatch
  <2>4. ASSUME NEW q \in puts', NEW r \in puts', Awaited(q)', Awaited(r)', q.loop = r.loop
        PROVE  q = r
    <3>1. PICK q1 \in puts : q1.loop = q.loop /\ Awaited(q1) /\ (q1 = q \/ q1 = p)
      BY <2>2, <2>4
    <3>2. PICK r1 \in puts : r1.loop = r.loop /\ Awaited(r1) /\ (r1 = r \/ r1 = p)
      BY <2>2, <2>4
    <3>3. q1 = r1
      BY <2>4, <3>1, <3>2 DEF Match, PutsMatch
    <3>4. CASE q \in puts \ {p} /\ r \in puts \ {p}
      BY <2>4, <3>4, <1>20 DEF Match, PutsMatch, Awaited
    <3>5. CASE q \notin puts \ {p} /\ r \notin puts \ {p}
      BY <1>20, <3>5
    <3>6. CASE q \in puts \ {p} /\ r \notin puts \ {p}
      <4>1. Awaited(p) /\ p.loop = r.loop /\ Awaited(q)
        BY <1>20, <2>4, <3>6 DEF Awaited
      <4> QED
        BY <2>4, <3>6, <4>1 DEF Match, PutsMatch
    <3>7. CASE q \notin puts \ {p} /\ r \in puts \ {p}
      <4>1. Awaited(p) /\ p.loop = q.loop /\ Awaited(r)
        BY <1>20, <2>4, <3>7 DEF Awaited
      <4> QED
        BY <2>4, <3>7, <4>1 DEF Match, PutsMatch
    <3> QED
      BY <3>4, <3>5, <3>6, <3>7
  <2>5. PutsMatch'
    BY <2>3, <2>4 DEF PutsMatch
  <2> QED
    BY <2>1, <2>5 DEF Match
<1>21. ASSUME NEW p \in puts, PutRead(p) PROVE Match'
  <2>1. p \in Put
    BY DEF TypeOK
  <2>2. /\ [p EXCEPT !.pc = "read", !.seen = watermark].loop = p.loop
        /\ [p EXCEPT !.pc = "read", !.seen = watermark].attempt = p.attempt
    BY <2>1 DEF Put
  <2> QED
    BY <1>20, <1>21, <2>2 DEF PutRead, Match, InRange
<1>22. ASSUME NEW p \in puts, PutWrite(p) PROVE Match'
  <2>1. p \in Put
    BY DEF TypeOK
  <2>2. /\ [p EXCEPT !.pc = "answered"].loop = p.loop
        /\ [p EXCEPT !.pc = "answered"].attempt = p.attempt
    BY <2>1 DEF Put
  <2>3. watermark' >= 1
    BY <1>22, <2>1 DEF PutWrite, Match, InRange, Put
  <2> QED
    BY <1>20, <1>22, <2>2, <2>3 DEF PutWrite
<1>23. ASSUME NEW p \in puts, PutAnswered(p) PROVE Match'
  <2>1. p \in Put /\ p.loop \in Loop /\ p.attempt = loop[p.loop].attempt
    BY <1>23 DEF PutAnswered, Awaited, TypeOK, Put
  <2>2. loop[p.loop].pc = "persist"
    BY <1>23, <2>1, ConstantsAssumption DEF PutAnswered, Match, PutsMatch
  <2>3. /\ loop'[p.loop].attempt = loop[p.loop].attempt /\ loop'[p.loop].pc = "ready"
        /\ loop'[p.loop].next = p.block + 1 /\ \A k \in Loop \ {p.loop} : loop'[k] = loop[k]
    BY <1>23, <2>1 DEF PutAnswered, TypeOK
  <2>4. TasksMatch'
    <3>1. Waiting(p.loop) = {}
      BY <2>1, <2>2, NobodyWaits DEF Kind
    <3> QED
      BY <1>23, <2>1, <2>3, <3>1, LoopMoves DEF Match, PutAnswered
  <2>5. PutsMatch'
    <3>1. \A q \in puts' : q.loop = p.loop => ~Awaited(q)
      BY <1>23, <2>1 DEF PutAnswered, Match, PutsMatch
    <3> QED
      BY <1>23, <2>1, <2>3, <3>1, PutsStay DEF Match, PutAnswered
  <2>6. InRange'
    BY <1>23, <2>1, <2>3 DEF PutAnswered, Match, InRange, Running, Put
  <2> QED
    BY <2>4, <2>5, <2>6 DEF Match
<1>24. ASSUME NEW p \in puts, PutFails(p) PROVE Match'
  <2>1. p.loop \in Loop
    BY <1>24 DEF PutFails, Awaited, TypeOK, Put
  <2>2. loop[p.loop].pc = "persist"
    BY <1>24, <2>1 DEF PutFails, Awaited, Match, PutsMatch
  <2> QED
    BY <1>7, <1>24, <2>1, <2>2 DEF PutFails, Running
<1>25. ASSUME PersistTimer PROVE Match'
  <2>1. /\ TasksMatch' /\ InRange'
        /\ puts' = puts \union {PutOf(current, None)} /\ loop' = loop
        /\ PutOf(current, None).loop = None
    BY <1>25 DEF PersistTimer, Match, TasksMatch, InRange, Awaited, PutOf
  <2>2. \A p \in puts' : p.loop # None => p \in puts
    BY <2>1
  <2>3. PutsMatch'
    BY <2>1, <2>2 DEF Match, PutsMatch, Awaited
  <2> QED
    BY <2>1, <2>3 DEF Match
<1>26. ASSUME Crash PROVE Match'
  <2>1. \A l \in Loop : /\ loop'[l].attempt = loop[l].attempt + 1 /\ loop[l].attempt \in Nat
                        /\ loop'[l].pc \notin Running
    BY <1>26 DEF Crash, NewLoop, Running, TypeOK, LoopState
  <2>2. TasksMatch' /\ InRange'
    BY <1>26, <2>1 DEF Crash, TasksMatch, Match, InRange
  <2>3. ASSUME NEW p \in puts', p.loop # None
        PROVE  p.attempt <= loop'[p.loop].attempt /\ p.attempt # loop'[p.loop].attempt
    <3>1. p \in puts /\ p.loop \in Loop /\ p.attempt \in Nat
      BY <1>26, <2>3 DEF Crash, TypeOK, Put
    <3> QED
      BY <2>1, <2>3, <3>1 DEF Match, PutsMatch
  <2>4. PutsMatch'
    BY <2>3 DEF PutsMatch, Awaited
  <2> QED
    BY <2>2, <2>4 DEF Match
<1> QED
  BY <1>2, <1>3, <1>5, <1>6, <1>8, <1>9, <1>10, <1>12, <1>13, <1>15, <1>17, <1>18, <1>19,
     <1>21, <1>22, <1>23, <1>24, <1>25, <1>26
     DEF Next, LoopStep, HandlerStep, PutStep

-----------------------------------------------------------------------------
(***************************************************************************)
(* What is reported.                                                       *)
(***************************************************************************)
\* No step forgets a report or changes the chain.
Grows == reported \subseteq reported' /\ chain' = chain

LEMMA StepGrows == Next => Grows
<1> USE DEF Grows, service, world, store, history
<1>1. ASSUME NEW l \in Loop, LoopStep(l) \/ LoopExits(l) \/ Rebuild(l) PROVE Grows
  BY <1>1 DEF LoopStep, StartLoop, BeginBlock, NextPhase, BeginPhase, PersistBlock, Rejected,
              Retire, LoopExits, Rebuild
<1>2. ASSUME NEW t, Serve(t) PROVE reported \subseteq reported'
  BY <1>2 DEF Serve
<1>3. ASSUME NEW t \in tasks, HandlerStep(t) \/ HandlerFails(t) \/ HandlerHangs(t) PROVE Grows
  BY <1>2, <1>3 DEF HandlerStep, Handle, Served, Answered, HandlerRejected, HandlerFails,
                    HandlerHangs
<1>4. ASSUME NEW t \in late, ServedLate(t) PROVE Grows
  BY <1>2, <1>4 DEF ServedLate
<1>5. ASSUME NEW p \in puts, PutStep(p) \/ PutFails(p) PROVE Grows
  BY <1>5 DEF PutStep, PutRead, PutWrite, PutAnswered, PutFails
<1>6. ASSUME NEW m \in Lasting, RecheckDue(m) PROVE Grows
  BY <1>6 DEF RecheckDue
<1>7. ASSUME NEW i \in DOMAIN incident, ManualResolve(i) PROVE Grows
  BY <1>7 DEF ManualResolve
<1>8. PersistTimer \/ NewBlock \/ Crash => Grows
  BY DEF PersistTimer, NewBlock, Crash
<1> QED
  BY <1>1, <1>3, <1>4, <1>5, <1>6, <1>7, <1>8 DEF Next

LEMMA ReportedStays ==
  ASSUME Grows, NEW n
  PROVE  (IsReported(n) => IsReported(n)') /\ (ReportedTo(n) => ReportedTo(n)')
  BY DEF Grows, IsReported, ReportedTo, Reported, IsSkipped

\* One more block.
LEMMA ReportedNext ==
  ASSUME NEW n \in Nat, ReportedTo(n - 1), IsReported(n)
  PROVE  ReportedTo(n)
  BY DEF ReportedTo

\* A loop that goes on has processed what it says it has.
LEMMA LoopsGoOn ==
  ASSUME TypeOK, LoopsReported, Grows, NEW l \in Loop,
         \A k \in Loop \ {l} : loop'[k] = loop[k],
         loop'[l].done = loop[l].done, loop'[l].next = loop[l].next,
         loop'[l].pc \in Running => loop[l].pc \in Running,
         loop'[l].pc \in {"call", "persist"} => IsReported(loop[l].next)
  PROVE  LoopsReported'
  BY ReportedStays DEF LoopsReported

\* A monitor whose report a loop waits for has a handler that goes on, or it is
\* reported.
LEMMA EventsWait ==
  ASSUME TypeOK, Match, EventPending, Grows,
         \A l \in Loop : loop'[l].pc = "event" =>
           /\ loop'[l] = loop[l]
           /\ \A t \in Waiting(l) : t.kind = "event" =>
                Reported(t.monitor, t.block)' \/ \E u \in tasks' : Follows(t, u)
  PROVE  EventPending'
<1> SUFFICES ASSUME NEW l \in Loop, loop'[l].pc = "event",
                    NEW m \in chain[loop[l].next].event
             PROVE  \/ Reported(m, loop[l].next)'
                    \/ \E u \in Waiting(l)' : u.kind = "event" /\ u.monitor = m
  BY DEF EventPending, Grows
<1>1. CASE Reported(m, loop[l].next)
  BY <1>1 DEF Reported, Grows
<1>2. CASE \E t \in Waiting(l) : t.kind = "event" /\ t.monitor = m
  <2>1. PICK t \in Waiting(l) : t.kind = "event" /\ t.monitor = m
    BY <1>2
  <2>2. t.block = loop[l].next
    BY DEF Waiting, Match, TasksMatch
  <2>3. CASE Reported(t.monitor, t.block)'
    BY <2>1, <2>2, <2>3 DEF Reported
  <2>4. CASE \E u \in tasks' : Follows(t, u)
    <3>1. PICK u \in tasks' : Follows(t, u)
      BY <2>4
    <3>2. u \in Waiting(l)'
      BY <3>1 DEF Waiting, Awaited, Follows
    <3> QED
      BY <2>1, <3>1, <3>2 DEF Follows
  <2> QED
    BY <2>1, <2>3, <2>4
<1> QED
  BY <1>1, <1>2 DEF EventPending

LEMMA ReportStep ==
  ASSUME TypeOK, TypeOK', Match, ReportInv, Next
  PROVE  ReportInv'
<1> USE DEF vars, world, service, store, history
<1>g. Grows
  BY StepGrows
<1>w. ASSUME UNCHANGED store PROVE PutsReported' /\ ReportedTo(watermark)'
  BY <1>g, <1>w, ReportedStays DEF ReportInv, PutsReported
<1>p. ASSUME puts' \subseteq puts PROVE PutsReported'
  BY <1>g, <1>p, ReportedStays DEF ReportInv, PutsReported
<1>t. ASSUME tasks' \subseteq tasks PROVE TasksReported'
  BY <1>g, <1>t DEF ReportInv, TasksReported, Reported, Grows
<1>e. ASSUME \A l \in Loop : loop'[l].pc = "event" => loop'[l] = loop[l], tasks \subseteq tasks'
      PROVE  EventPending'
  <2>1. \A t \in tasks : Follows(t, t)
    BY DEF Follows
  <2>2. \A l \in Loop : \A t \in Waiting(l) : \E u \in tasks' : Follows(t, u)
    BY <1>e, <2>1 DEF Waiting
  <2> QED
    BY <1>g, <1>e, <2>2, EventsWait DEF ReportInv
<1>1. ASSUME NEW l \in Loop, loop'[l].done = loop[l].done, loop'[l].next = loop[l].next,
             \A k \in Loop \ {l} : loop'[k] = loop[k], loop'[l].pc # "event",
             loop'[l].pc \in Running => loop[l].pc \in Running,
             loop'[l].pc \in {"call", "persist"} => IsReported(loop[l].next),
             UNCHANGED <<tasks, watermark>>
      PROVE  LoopsReported' /\ EventPending' /\ TasksReported' /\ ReportedTo(watermark)'
  <2>1. LoopsReported'
    BY <1>g, <1>1, LoopsGoOn DEF ReportInv
  <2>2. \A k \in Loop : loop'[k].pc = "event" => loop'[k] = loop[k]
    BY <1>1
  <2> QED
    BY <1>g, <1>1, <1>e, <1>t, <2>1, <2>2, ReportedStays DEF ReportInv
<1>2. ASSUME NEW l \in Loop, StartLoop(l) PROVE ReportInv'
  <2>1. /\ loop'[l].done = loop[l].done /\ loop'[l].next = FirstBlock(l)
        /\ loop'[l].pc = "ready" /\ \A k \in Loop \ {l} : loop'[k] = loop[k]
    BY <1>2 DEF StartLoop, TypeOK, LoopState
  <2>2. ReportedTo(FirstBlock(l) - 1)
    <3>1. CASE FirstBlock(l) = watermark
      BY <3>1 DEF ReportInv, ReportedTo, TypeOK
    <3>2. CASE FirstBlock(l) = StartBlock /\ StartBlock # None
      BY <3>2, ConstantsAssumption DEF ReportedTo, IsReported, IsSkipped
    <3> QED
      BY <3>1, <3>2 DEF FirstBlock
  <2>3. LoopsReported'
    BY <1>g, <2>1, <2>2, ReportedStays DEF ReportInv, LoopsReported
  <2>4. EventPending' /\ TasksReported' /\ PutsReported' /\ ReportedTo(watermark)'
    BY <1>2, <1>e, <1>t, <1>w, <2>1 DEF StartLoop
  <2> QED
    BY <2>3, <2>4 DEF ReportInv
<1>3. ASSUME NEW l \in Loop, LoopExits(l) \/ Retire(l) PROVE ReportInv'
  <2>1. /\ loop'[l].done = loop[l].done /\ loop'[l].next = loop[l].next
        /\ loop'[l].pc \in {"exited", "off"} /\ \A k \in Loop \ {l} : loop'[k] = loop[k]
    BY <1>3 DEF LoopExits, Retire, TypeOK, LoopState
  <2>2. UNCHANGED <<tasks, watermark, puts>>
    BY <1>3 DEF LoopExits, Retire
  <2> QED
    BY <1>1, <1>w, <2>1, <2>2 DEF ReportInv, Running
<1>4. ASSUME NEW l \in Loop, BeginBlock(l) \/ NextPhase(l) PROVE ReportInv'
  <2>1. PICK kind \in Kind :
          /\ BeginPhase(l, kind) /\ loop[l].pc \in Running
          /\ kind = "event" => Waiting(l) = {}
          /\ kind = "call" => loop[l].pc = "event" /\ Waiting(l) = {}
    BY <1>4 DEF BeginBlock, NextPhase, Kind, Running
  <2>2. /\ loop'[l].done = loop[l].done /\ loop'[l].next = loop[l].next
        /\ loop'[l].attempt = loop[l].attempt
        /\ loop'[l].pc = kind /\ \A k \in Loop \ {l} : loop'[k] = loop[k]
    BY <2>1 DEF BeginPhase, TypeOK, LoopState
  <2>3. kind = "call" => IsReported(loop[l].next)
    BY <2>1 DEF ReportInv, EventPending, IsReported
  <2>4. LoopsReported'
    BY <1>g, <2>1, <2>2, <2>3, LoopsGoOn DEF ReportInv, Kind
  <2>5. ASSUME NEW k \in Loop, loop'[k].pc = "event", NEW m \in chain[loop[k].next].event
        PROVE  Reported(m, loop[k].next)' \/ \E t \in Waiting(k)' : t.kind = "event" /\ t.monitor = m
    <3>1. CASE k = l
      <4> DEFINE t == [loop |-> l, attempt |-> loop[l].attempt, monitor |-> m, kind |-> kind,
                       block |-> loop[l].next, pc |-> "begun", op |-> "none", id |-> 0]
      <4>1. t \in Begun(l, kind) /\ kind = "event"
        BY <2>2, <2>5, <3>1 DEF Begun
      <4>2. t \in tasks' /\ t.loop = l /\ t.attempt = loop'[l].attempt
        BY <2>1, <2>2, <4>1 DEF BeginPhase
      <4>3. l # None
        BY ConstantsAssumption
      <4>4. t \in Waiting(l)'
        BY <4>2, <4>3 DEF Waiting, Awaited
      <4> QED
        BY <3>1, <4>1, <4>4
    <3>2. CASE k # l
      <4>1. loop'[k] = loop[k]
        BY <2>2, <3>2
      <4>2. Waiting(k) \subseteq Waiting(k)'
        BY <2>1, <4>1 DEF Waiting, Awaited, BeginPhase
      <4>3. Reported(m, loop[k].next) \/ \E t \in Waiting(k) : t.kind = "event" /\ t.monitor = m
        BY <2>5, <4>1 DEF ReportInv, EventPending
      <4> QED
        BY <1>g, <4>1, <4>2, <4>3 DEF Reported, Grows
    <3> QED
      BY <3>1, <3>2
  <2>6. EventPending'
    <3>1. \A k \in Loop : loop'[k].next = loop[k].next
      BY <2>2
    <3> QED
      BY <1>g, <2>5, <3>1 DEF EventPending, Grows
  <2>7. TasksReported'
    <3>1. \A t \in Begun(l, kind) : t.pc = "begun"
      BY DEF Begun
    <3> QED
      BY <1>g, <2>1, <3>1 DEF BeginPhase, ReportInv, TasksReported, Reported, Grows
  <2> QED
    BY <1>w, <2>1, <2>4, <2>6, <2>7 DEF BeginPhase, ReportInv
<1>5. ASSUME NEW l \in Loop, NEW pc \in {"ready", "call"}, GoOn(l, pc),
             loop[l].pc \in Running, pc = "call" => loop[l].pc = "call"
      PROVE  /\ LoopsReported'
             /\ loop'[l].pc = pc /\ \A k \in Loop \ {l} : loop'[k] = loop[k]
  <2>1. /\ loop'[l].done = loop[l].done /\ loop'[l].next = loop[l].next
        /\ loop'[l].pc = pc /\ \A k \in Loop \ {l} : loop'[k] = loop[k]
    BY <1>5 DEF GoOn, TypeOK, LoopState
  <2> QED
    BY <1>g, <1>5, <2>1, LoopsGoOn DEF ReportInv, LoopsReported
<1>6. ASSUME NEW l \in Loop, Rejected(l) PROVE ReportInv'
  <2>1. /\ LoopsReported' /\ loop'[l].pc = "ready"
        /\ \A k \in Loop \ {l} : loop'[k] = loop[k]
    BY <1>5, <1>6 DEF Rejected, Running
  <2> QED
    BY <1>6, <1>e, <1>t, <1>w, <2>1 DEF Rejected, ReportInv
<1>7. ASSUME NEW l \in Loop, PersistBlock(l) PROVE ReportInv'
  <2>1. /\ loop'[l].done = loop[l].done /\ loop'[l].next = loop[l].next
        /\ loop'[l].pc = "persist" /\ \A k \in Loop \ {l} : loop'[k] = loop[k]
    BY <1>7 DEF PersistBlock, TypeOK, LoopState
  <2>2. IsReported(loop[l].next) /\ ReportedTo(loop[l].next - 1) /\ loop[l].next \in Nat
    BY <1>7 DEF PersistBlock, ReportInv, LoopsReported, Running, TypeOK, LoopState
  <2>3. ReportedTo(loop[l].next)
    BY <2>2, ReportedNext
  <2>4. PutsReported'
    <3>1. PutOf(l, l).block = loop[l].next
      BY ConstantsAssumption DEF PutOf
    <3>2. \A p \in puts' : p \in puts \/ p.block = loop[l].next
      BY <1>7, <3>1 DEF PersistBlock
    <3> QED
      BY <1>g, <2>3, <3>2, ReportedStays DEF ReportInv, PutsReported
  <2> QED
    BY <1>1, <1>7, <2>1, <2>2, <2>4 DEF PersistBlock, ReportInv, Running
<1>8. ASSUME NEW l \in Loop, Rebuild(l) PROVE ReportInv'
  <2>1. /\ loop'[l].done = 0 /\ loop'[l].pc = "starting"
        /\ \A k \in Loop \ {l} : loop'[k] = loop[k]
    BY <1>8 DEF Rebuild, NewLoop, TypeOK
  <2>2. ReportedTo(0)'
    BY <1>g DEF Grows, ReportedTo, IsReported, TypeOK
  <2>3. LoopsReported'
    BY <1>g, <2>1, <2>2, ReportedStays DEF ReportInv, LoopsReported, Running
  <2> QED
    BY <1>8, <1>e, <1>t, <1>w, <2>1, <2>3 DEF Rebuild, ReportInv
<1>9. ASSUME UNCHANGED <<loop, store>>,
             \A t \in tasks : t.kind = "event" =>
               Reported(t.monitor, t.block)' \/ \E u \in tasks' : Follows(t, u),
             \A u \in tasks' : u \in tasks \/
               (u.kind = "event" => /\ u.pc \in {"sent", "answered"} => u.op = "report"
                                    /\ u.pc = "answered" => Reported(u.monitor, u.block)')
      PROVE  ReportInv'
  <2>1. LoopsReported'
    BY <1>g, <1>9, ReportedStays DEF ReportInv, LoopsReported
  <2>2. EventPending'
    BY <1>g, <1>9, EventsWait DEF ReportInv, Waiting
  <2>3. TasksReported'
    BY <1>g, <1>9 DEF ReportInv, TasksReported, Reported, Grows
  <2> QED
    BY <1>9, <1>w, <2>1, <2>2, <2>3 DEF ReportInv
<1>10. ASSUME NEW t \in tasks, Handle(t) PROVE ReportInv'
  <2>1. t \in Task
    BY DEF TypeOK
  <2>2. CASE t.kind # "event"
    <3>1. ASSUME NEW op, NEW id, Ask(t, op, id)
          PROVE  \A u \in tasks' : u \in tasks \/ u.kind # "event"
      BY <2>1, <2>2, <3>1 DEF Ask, Task
    <3>2. \A u \in tasks' : u \in tasks \/ u.kind # "event"
      BY <1>10, <3>1 DEF Handle, Tracks
    <3>3. \A u \in tasks : u # t => u \in tasks' /\ Follows(u, u)
      BY <1>10 DEF Handle, Tracks, Ask, Follows
    <3> QED
      BY <1>9, <1>10, <2>2, <3>2, <3>3 DEF Handle
  <2>3. CASE t.kind = "event"
    <3> DEFINE u == [t EXCEPT !.pc = "sent", !.op = "report", !.id = 0]
    <3>1. tasks' = (tasks \ {t}) \union {u}
      BY <1>10, <2>3 DEF Handle, Ask
    <3>2. Follows(t, u) /\ u.pc = "sent" /\ u.op = "report"
      BY <2>1 DEF Follows, Task
    <3>3. \A x \in tasks : x # t => x \in tasks' /\ Follows(x, x)
      BY <3>1 DEF Follows
    <3> QED
      BY <1>9, <1>10, <3>1, <3>2, <3>3 DEF Handle
  <2> QED
    BY <2>2, <2>3
<1>11. ASSUME NEW t \in tasks, Served(t) PROVE ReportInv'
  <2> DEFINE u == [t EXCEPT !.pc = "answered", !.id = AnsweredId(t)]
  <2>1. t \in Task
    BY DEF TypeOK
  <2>2. tasks' = (tasks \ {t}) \union {u}
    BY <1>11 DEF Served
  <2>3. Follows(t, u) /\ u.pc = "answered" /\ u.op = t.op
    BY <2>1 DEF Follows, Task
  <2>4. t.kind = "event" => t.op = "report"
    BY <1>11 DEF Served, ReportInv, TasksReported
  <2>5. t.kind = "event" => Reported(t.monitor, t.block)'
    BY <1>11, <2>4 DEF Served, Serve, Reported
  <2>6. \A x \in tasks : x # t => x \in tasks' /\ Follows(x, x)
    BY <2>2 DEF Follows
  <2>7. ASSUME NEW w, w = u
        PROVE  w.kind = "event" => w.op = "report" /\ Reported(w.monitor, w.block)'
    <3>1. w.kind = t.kind /\ w.monitor = t.monitor /\ w.block = t.block /\ w.op = t.op
      BY <2>3, <2>7 DEF Follows
    <3> QED
      BY <2>4, <2>5, <3>1
  <2>8. \A x \in tasks : \E w \in tasks' : Follows(x, w)
    BY <2>2, <2>3, <2>6
  <2>9. \A w \in tasks' :
          w \in tasks \/ (w.kind = "event" => w.op = "report" /\ Reported(w.monitor, w.block)')
    BY <2>2, <2>7
  <2> QED
    BY <1>9, <1>11, <2>8, <2>9 DEF Served
<1>12. ASSUME NEW t \in tasks, Answered(t) PROVE ReportInv'
  <2>1. t.kind = "event" => Reported(t.monitor, t.block)'
    BY <1>g, <1>12 DEF Answered, ReportInv, TasksReported, Reported, Grows
  <2>2. \A x \in tasks : x # t => x \in tasks' /\ Follows(x, x)
    BY <1>12 DEF Answered, Follows
  <2> QED
    BY <1>9, <1>12, <2>1, <2>2 DEF Answered
<1>13. ASSUME NEW t \in tasks, HandlerHangs(t) PROVE ReportInv'
  <2> DEFINE u == [t EXCEPT !.pc = "hung"]
  <2>1. t \in Task
    BY DEF TypeOK
  <2>2. tasks' = (tasks \ {t}) \union {u}
    BY <1>13 DEF HandlerHangs
  <2>3. Follows(t, u) /\ u.pc = "hung"
    BY <2>1 DEF Follows, Task
  <2>4. \A x \in tasks : x # t => x \in tasks' /\ Follows(x, x)
    BY <2>2 DEF Follows
  <2> QED
    BY <1>9, <1>13, <2>2, <2>3, <2>4 DEF HandlerHangs
<1>14. ASSUME NEW t \in tasks, HandlerFails(t) \/ HandlerRejected(t) PROVE ReportInv'
  <2>1. /\ t.loop \in Loop /\ t.kind \in Kind /\ tasks' = tasks \ {t} /\ UNCHANGED store
        /\ Rejects(t)
    BY <1>14 DEF HandlerFails, HandlerRejected, Rejects, TypeOK, Task
  <2>2. \A x \in tasks : x # t => x \in tasks' /\ Follows(x, x)
    BY <2>1 DEF Follows
  <2>3. Awaited(t) => loop[t.loop].pc = t.kind
    BY DEF Match, TasksMatch
  <2>4. CASE ~Awaited(t) /\ UNCHANGED loop
    <3>1. LoopsReported'
      BY <1>g, <2>4, ReportedStays DEF ReportInv, LoopsReported
    <3>2. EventPending'
      BY <1>g, <2>2, <2>4, EventsWait DEF ReportInv, Waiting
    <3> QED
      BY <1>t, <1>w, <2>1, <3>1, <3>2 DEF ReportInv
  <2>5. CASE Awaited(t) /\ t.kind # "call" /\ GoOn(t.loop, "ready")
    <3>1. /\ LoopsReported' /\ loop'[t.loop].pc = "ready"
          /\ \A k \in Loop \ {t.loop} : loop'[k] = loop[k]
      BY <1>5, <2>1, <2>3, <2>5 DEF Running, Kind
    <3>2. EventPending'
      BY <1>g, <2>2, <3>1, EventsWait DEF ReportInv, Waiting
    <3> QED
      BY <1>t, <1>w, <2>1, <3>1, <3>2 DEF ReportInv
  <2>6. CASE Awaited(t) /\ t.kind = "call" /\ (UNCHANGED loop \/ GoOn(t.loop, "call"))
    <3>1. /\ LoopsReported' /\ loop'[t.loop].pc = "call"
          /\ \A k \in Loop \ {t.loop} : loop'[k] = loop[k]
      <4>1. CASE UNCHANGED loop
        BY <1>g, <2>3, <2>6, <4>1, ReportedStays DEF ReportInv, LoopsReported
      <4>2. CASE GoOn(t.loop, "call")
        BY <1>5, <2>1, <2>3, <2>6, <4>2 DEF Running
      <4> QED
        BY <2>6, <4>1, <4>2
    <3>2. EventPending'
      BY <1>g, <2>2, <3>1, EventsWait DEF ReportInv, Waiting
    <3> QED
      BY <1>t, <1>w, <2>1, <3>1, <3>2 DEF ReportInv
  <2> QED
    BY <2>1, <2>4, <2>5, <2>6 DEF Rejects
<1>15. ASSUME UNCHANGED <<loop, tasks>>, PutsReported', ReportedTo(watermark)'
       PROVE  ReportInv'
  <2>1. LoopsReported'
    BY <1>g, <1>15, ReportedStays DEF ReportInv, LoopsReported
  <2> QED
    BY <1>15, <1>e, <1>t, <2>1 DEF ReportInv
<1>16. ASSUME \/ \E t \in late : ServedLate(t)
              \/ \E m \in Lasting : RecheckDue(m)
              \/ \E i \in DOMAIN incident : ManualResolve(i)
              \/ NewBlock
       PROVE  ReportInv'
  BY <1>15, <1>16, <1>w DEF ServedLate, RecheckDue, ManualResolve, NewBlock
<1>17. ASSUME NEW p \in puts, PutRead(p) PROVE ReportInv'
  <2>1. p \in Put
    BY DEF TypeOK
  <2>2. [p EXCEPT !.pc = "read", !.seen = watermark].block = p.block
    BY <2>1 DEF Put
  <2>3. PutsReported'
    BY <1>g, <1>17, <2>2, ReportedStays DEF PutRead, ReportInv, PutsReported
  <2>4. ReportedTo(watermark)'
    BY <1>g, <1>17, ReportedStays DEF PutRead, ReportInv
  <2> QED
    BY <1>15, <1>17, <2>3, <2>4 DEF PutRead
<1>18. ASSUME NEW p \in puts, PutWrite(p) PROVE ReportInv'
  <2>1. p \in Put
    BY DEF TypeOK
  <2>2. [p EXCEPT !.pc = "answered"].block = p.block
    BY <2>1 DEF Put
  <2>3. PutsReported'
    BY <1>g, <1>18, <2>2, ReportedStays DEF PutWrite, ReportInv, PutsReported
  <2>4. watermark' = p.block \/ watermark' = watermark
    BY <1>18 DEF PutWrite
  <2>5. ReportedTo(watermark)'
    BY <1>g, <2>4, ReportedStays DEF ReportInv, PutsReported
  <2> QED
    BY <1>15, <1>18, <2>3, <2>5 DEF PutWrite
<1>19. ASSUME NEW p \in puts, PutAnswered(p) PROVE ReportInv'
  <2>1. p \in Put /\ p.loop \in Loop /\ p.block \in Nat
    BY <1>19 DEF PutAnswered, Awaited, TypeOK, Put
  <2>2. /\ loop'[p.loop].done = p.block /\ loop'[p.loop].pc = "ready"
        /\ loop'[p.loop].next - 1 = p.block /\ \A k \in Loop \ {p.loop} : loop'[k] = loop[k]
    <3>1. /\ loop'[p.loop] = [pc |-> "ready", next |-> p.block + 1, done |-> p.block,
                              attempt |-> p.attempt]
          /\ \A k \in Loop \ {p.loop} : loop'[k] = loop[k]
      BY <1>19, <2>1 DEF PutAnswered, TypeOK
    <3> QED
      BY <2>1, <3>1
  <2>3. ReportedTo(p.block)'
    BY <1>g, ReportedStays DEF ReportInv, PutsReported
  <2>4. LoopsReported'
    BY <1>g, <2>2, <2>3, ReportedStays DEF ReportInv, LoopsReported
  <2>5. EventPending' /\ TasksReported' /\ PutsReported' /\ ReportedTo(watermark)'
    BY <1>g, <1>19, <1>e, <1>t, <1>p, <2>2, ReportedStays DEF PutAnswered, ReportInv
  <2> QED
    BY <2>4, <2>5 DEF ReportInv
<1>20. ASSUME NEW p \in puts, PutFails(p) PROVE ReportInv'
  <2>1. p.loop \in Loop
    BY <1>20 DEF PutFails, Awaited, TypeOK, Put
  <2>2. loop[p.loop].pc = "persist"
    BY <1>20, <2>1 DEF PutFails, Awaited, Match, PutsMatch
  <2>3. /\ LoopsReported' /\ loop'[p.loop].pc = "ready"
        /\ \A k \in Loop \ {p.loop} : loop'[k] = loop[k]
    BY <1>5, <1>20, <2>1, <2>2 DEF PutFails, Running
  <2>4. EventPending' /\ TasksReported' /\ PutsReported' /\ ReportedTo(watermark)'
    BY <1>g, <1>20, <1>e, <1>t, <1>p, <2>3, ReportedStays DEF PutFails, ReportInv
  <2> QED
    BY <2>3, <2>4 DEF ReportInv
<1>21. ASSUME PersistTimer PROVE ReportInv'
  <2>1. \A p \in puts' : p \in puts \/ p.block = loop[current].done
    BY <1>21 DEF PersistTimer, PutOf
  <2>2. ReportedTo(loop[current].done)
    BY DEF ReportInv, LoopsReported, TypeOK
  <2>3. PutsReported' /\ ReportedTo(watermark)'
    BY <1>g, <1>21, <2>1, <2>2, ReportedStays DEF PersistTimer, ReportInv, PutsReported
  <2> QED
    BY <1>15, <1>21, <2>3 DEF PersistTimer
<1>22. ASSUME Crash PROVE ReportInv'
  <2>1. \A l \in Loop : loop'[l].done = 0 /\ loop'[l].pc \in {"boot", "off"}
    BY <1>22 DEF Crash, NewLoop
  <2>2. ReportedTo(0)'
    BY <1>g DEF Grows, ReportedTo, IsReported, TypeOK
  <2>3. LoopsReported'
    BY <2>1, <2>2 DEF LoopsReported, Running
  <2>4. EventPending'
    BY <2>1 DEF EventPending
  <2>5. TasksReported' /\ PutsReported' /\ ReportedTo(watermark)'
    BY <1>g, <1>22, <1>t, <1>p, ReportedStays DEF Crash, ReportInv
  <2> QED
    BY <2>3, <2>4, <2>5 DEF ReportInv
<1> QED
  BY <1>2, <1>3, <1>4, <1>6, <1>7, <1>8, <1>10, <1>11, <1>12, <1>13, <1>14, <1>16, <1>17,
     <1>18, <1>19, <1>20, <1>21, <1>22
     DEF Next, LoopStep, HandlerStep, PutStep

-----------------------------------------------------------------------------
(***************************************************************************)
(* What the current watcher knows, as long as nobody whose attempt was     *)
(* given up has an effect: of each condition one handler is waited for,    *)
(* and what it has asked for is still so.                                  *)
(***************************************************************************)
Fires(m, b) == b <= latest /\ m \in chain[b].firing
Rests(m, b) == b <= latest /\ m \notin chain[b].firing

\* The handler of the condition of m that the current attempt waits for.
Mine(m) == {t \in Waiting(current) : t.kind = "state" /\ t.monitor = m}

\* The block the current watcher is at, or begins with.
Position == IF loop[current].pc \in Running THEN loop[current].next ELSE watermark

\* The current attempt is done with the condition of m.
HasPassed(m) == loop[current].pc \in Running \ {"ready"} /\ Mine(m) = {}

StatusOf(m) == incident[kv[m].id].status

OneHandler == \A m \in Monitor : \A t, u \in Mine(m) : t = u

TaskKnown(t) ==
  t.pc \in {"sent", "answered"} =>
    /\ t.kind = "state" => t.op \in {"create", "resolve"}
    /\ t.kind # "state" => t.op = "report"
    /\ t.op = "create" => t.monitor \in chain[t.block].firing
    /\ t.op = "resolve" => t.monitor \notin chain[t.block].firing
    /\ t.op = "resolve" \/ (t.op = "create" /\ t.pc = "answered") =>
         t.id \in DOMAIN incident /\ incident[t.id].monitor = t.monitor

TasksKnown == \A t \in tasks : TaskKnown(t)

EntriesKnown ==
  \A m \in Monitor : kv[m] # None =>
    kv[m].id \in DOMAIN incident /\ incident[kv[m].id].monitor = m

OneOpen == \A m \in Monitor : \A i, j \in OpenOf(m) : i = j

LoopsKnown ==
  /\ \A l \in Loop : loop[l].pc \in Running \ {"ready"} => loop[l].next <= latest
  /\ \A p \in puts : Awaited(p) => p.block = loop[p.loop].next
  /\ restarts = 0 => current = 1

\* What the current attempt waits for, as long as nobody else has an effect.
HandlerKnown(m, t) ==
  /\ t.pc \in {"sent", "answered"} /\ t.op = "resolve" => kv[m] # None /\ kv[m].id = t.id
  /\ t.pc \in {"sent", "answered"} /\ t.op = "create" => kv[m] = None \/ kv[m].isDue
  /\ t.pc = "answered" /\ t.op = "create" =>
       incident[t.id].status # "resolved" /\ OpenOf(m) \subseteq {t.id}
  /\ t.pc = "answered" /\ t.op = "resolve" => incident[t.id].status # "open"

MineKnown == \A m \in Monitor : \A t \in Mine(m) : HandlerKnown(m, t)

Known ==
  /\ TasksKnown /\ EntriesKnown /\ OneOpen /\ LoopsKnown
  /\ stray \/ (OneHandler /\ MineKnown)

\* What no one sees
Unnoticed ==
  /\ UNCHANGED <<chain, current, watermark, kv, incident>>
  /\ latest <= latest'
  /\ loop'[current].next = loop[current].next
  /\ loop'[current].pc = loop[current].pc \/ {loop[current].pc, loop'[current].pc} \subseteq Running
  /\ \A m \in Monitor : HasPassed(m)' => HasPassed(m)

LEMMA StrayStays == ASSUME TypeOK, Next, stray PROVE stray'
<1> USE DEF vars, world, service, store, history
<1>1. ASSUME NEW l \in Loop, LoopStep(l) \/ LoopExits(l) \/ Rebuild(l) PROVE stray'
  BY <1>1 DEF LoopStep, StartLoop, BeginBlock, NextPhase, BeginPhase, PersistBlock, Rejected,
              Retire, LoopExits, Rebuild
<1>3. ASSUME NEW t \in tasks, HandlerStep(t) \/ HandlerFails(t) \/ HandlerHangs(t) PROVE stray'
  BY <1>3 DEF HandlerStep, Handle, Served, Answered, HandlerRejected, HandlerFails, HandlerHangs
<1>4. ASSUME NEW t \in late, ServedLate(t) PROVE stray'
  BY <1>4 DEF ServedLate
<1>5. ASSUME NEW p \in puts, PutStep(p) \/ PutFails(p) PROVE stray'
  BY <1>5 DEF PutStep, PutRead, PutWrite, PutAnswered, PutFails
<1>6. ASSUME NEW m \in Lasting, RecheckDue(m) PROVE stray'
  BY <1>6 DEF RecheckDue
<1>7. ASSUME NEW i \in DOMAIN incident, ManualResolve(i) PROVE stray'
  BY <1>7 DEF ManualResolve
<1>8. PersistTimer \/ NewBlock \/ Crash => stray'
  BY DEF PersistTimer, NewBlock, Crash
<1> QED
  BY <1>1, <1>3, <1>4, <1>5, <1>6, <1>7, <1>8 DEF Next

\* A request that is served: the table keeps what it has.
Keeps ==
  /\ DOMAIN incident \subseteq DOMAIN incident'
  /\ \A i \in DOMAIN incident : /\ incident'[i].monitor = incident[i].monitor
                                /\ incident[i].status # "open" => incident'[i] = incident[i]
  /\ \A i \in DOMAIN incident' \ DOMAIN incident :
       OpenOf(incident'[i].monitor) = {} /\ DOMAIN incident' = DOMAIN incident \union {i}

LEMMA ServeKeeps ==
  ASSUME TypeOK, NEW t \in Task, Serve(t)
  PROVE  Keeps
<1>1. incident \in Seq(IncidentRow) /\ DOMAIN incident = 1 .. Len(incident) /\ Len(incident) \in Nat
  BY DEF TypeOK
<1>2. CASE t.op = "create" /\ OpenOf(t.monitor) = {}
  <2>1. incident' = Append(incident, [monitor |-> t.monitor, status |-> "open"])
    BY <1>2 DEF Serve
  <2>2. [monitor |-> t.monitor, status |-> "open"] \in IncidentRow
    BY DEF Task, IncidentRow
  <2>3. /\ DOMAIN incident' = 1 .. Len(incident) + 1
        /\ \A i \in DOMAIN incident : incident'[i] = incident[i]
        /\ incident'[Len(incident) + 1] = [monitor |-> t.monitor, status |-> "open"]
    BY <1>1, <2>1, <2>2
  <2> QED
    BY <1>1, <1>2, <2>3 DEF Keeps
<1>3. CASE incident' = incident
  BY <1>3 DEF Keeps
<1>4. CASE t.op = "resolve" /\ incident[t.id].status = "open"
  <2>1. incident' = [incident EXCEPT ![t.id].status = "resolved"]
    BY <1>4 DEF Serve
  <2> QED
    BY <1>1, <1>4, <2>1 DEF Keeps, IncidentRow
<1> QED
  BY <1>2, <1>3, <1>4 DEF Serve

LEMMA StepKeeps == ASSUME TypeOK, Next PROVE Keeps
<1> USE DEF vars, world, service, store, history
<1>1. incident' = incident => Keeps
  BY DEF Keeps
<1>2. ASSUME NEW l \in Loop, LoopStep(l) \/ LoopExits(l) \/ Rebuild(l) PROVE Keeps
  BY <1>1, <1>2 DEF LoopStep, StartLoop, BeginBlock, NextPhase, BeginPhase, PersistBlock, Rejected,
              Retire, LoopExits, Rebuild
<1>3. ASSUME NEW t \in tasks, HandlerStep(t) \/ HandlerFails(t) \/ HandlerHangs(t) PROVE Keeps
  <2>1. Served(t) => Keeps
    BY ServeKeeps DEF Served, TypeOK
  <2> QED
  BY <1>1, <1>3, <2>1 DEF HandlerStep, Handle, Answered, HandlerRejected, HandlerFails, HandlerHangs
<1>4. ASSUME NEW t \in late, ServedLate(t) PROVE Keeps
  BY <1>4, ServeKeeps DEF ServedLate, TypeOK
<1>5. ASSUME NEW p \in puts, PutStep(p) \/ PutFails(p) PROVE Keeps
  BY <1>1, <1>5 DEF PutStep, PutRead, PutWrite, PutAnswered, PutFails
<1>6. ASSUME NEW m \in Lasting, RecheckDue(m) PROVE Keeps
  BY <1>1, <1>6 DEF RecheckDue
<1>7. ASSUME NEW i \in DOMAIN incident, ManualResolve(i) PROVE Keeps
  <2>1. incident \in Seq(IncidentRow)
    BY DEF TypeOK
  <2> QED
  BY <1>7, <2>1 DEF ManualResolve, Keeps, IncidentRow
<1>8. PersistTimer \/ NewBlock \/ Crash => Keeps
  BY <1>1 DEF PersistTimer, NewBlock, Crash
<1> QED
  BY <1>2, <1>3, <1>4, <1>5, <1>6, <1>7, <1>8 DEF Next

\* What the request to store a block knows of the stored block.
StoreKnown ==
  /\ Position \in {watermark, watermark + 1}
  /\ watermark <= latest
  /\ \A p \in puts : IsOwn(p) => /\ p.pc = "read" => p.seen = watermark
                                 /\ p.pc = "answered" => Position = watermark

LEMMA MineElse ==
  ASSUME TypeOK, TypeOK', current' = current, loop'[current].attempt = loop[current].attempt,
         \A t : t.loop = current => (t \in tasks' <=> t \in tasks), NEW m
  PROVE  Mine(m)' = Mine(m)
<1>1. current # None
  BY ConstantsAssumption DEF TypeOK
<1> QED
  BY <1>1 DEF Mine, Waiting, Awaited

LEMMA MineGone ==
  ASSUME TypeOK, TypeOK', Match, current' = current, tasks' \subseteq tasks,
         loop'[current].attempt > loop[current].attempt, NEW m
  PROVE  Mine(m)' = {}
<1>1. \A t \in tasks : t.loop = current => t.attempt <= loop[current].attempt
  BY DEF Match, TasksMatch
<1>2. \A t \in tasks : t.attempt \in Nat
  BY DEF TypeOK, Task
<1>3. loop'[current].attempt \in Nat /\ loop[current].attempt \in Nat
  BY DEF TypeOK, LoopState
<1>4. \A t \in tasks : t.loop = current => t.attempt # loop'[current].attempt
  BY <1>1, <1>2, <1>3
<1> QED
  BY <1>4 DEF Mine, Waiting, Awaited

LEMMA MineMoves ==
  ASSUME loop' = loop, current' = current, NEW t \in tasks, NEW u, Follows(t, u),
         tasks' = (tasks \ {t}) \union {u}, NEW m
  PROVE  /\ t \in Mine(m) => u \in Mine(m)' /\ Mine(m)' = (Mine(m) \ {t}) \union {u}
         /\ t \notin Mine(m) => Mine(m)' = Mine(m)
<1> DEFINE W(v) == v.loop = current /\ Awaited(v) /\ v.kind = "state" /\ v.monitor = m
<1>1. \A v : v \in Mine(m) <=> v \in tasks /\ W(v)
  BY DEF Mine, Waiting
<1>2. \A v : v \in Mine(m)' <=> v \in tasks' /\ W(v)
  BY DEF Mine, Waiting, Awaited
<1>3. W(u) <=> W(t)
  BY DEF Follows, Awaited
<1> HIDE DEF W
<1> QED
  BY <1>1, <1>2, <1>3

LEMMA MineEnds ==
  ASSUME TypeOK, current' = current, loop'[current].attempt = loop[current].attempt,
         NEW t \in tasks, tasks' = tasks \ {t}, NEW m
  PROVE  Mine(m)' = Mine(m) \ {t}
<1>1. current # None
  BY ConstantsAssumption DEF TypeOK
<1> QED
  BY <1>1 DEF Mine, Waiting, Awaited

LEMMA MineIs ==
  ASSUME NEW m, NEW t
  PROVE  t \in Mine(m) <=> t \in tasks /\ t.loop = current /\ Awaited(t) /\ t.kind = "state"
                                     /\ t.monitor = m
  BY DEF Mine, Waiting

LEMMA NoneOfMine ==
  ASSUME TypeOK, Match, loop[current].pc # "state", NEW m
  PROVE  Mine(m) = {}
<1>1. current \in Loop
  BY DEF TypeOK
<1>2. \A t \in Waiting(current) : loop[current].pc = t.kind
  BY <1>1 DEF Match, TasksMatch, Waiting
<1> QED
  BY <1>2 DEF Mine

LEMMA OneHandlerStays ==
  ASSUME OneHandler, \A m \in Monitor : Mine(m)' \subseteq Mine(m)
  PROVE  OneHandler'
  BY DEF OneHandler

LEMMA OneHandlerMoves ==
  ASSUME OneHandler, loop' = loop, current' = current, NEW t \in tasks, NEW u, Follows(t, u),
         tasks' = (tasks \ {t}) \union {u}
  PROVE  OneHandler'
  BY MineMoves DEF OneHandler

LEMMA OneHandlerNone == (\A m \in Monitor : Mine(m)' = {}) => OneHandler'
  BY DEF OneHandler

\* A phase begins with one handler a monitor.
LEMMA OneHandlerBegins ==
  ASSUME TypeOK, TypeOK', Match, OneHandler, NEW l \in Loop, NEW kind \in Kind,
         BeginPhase(l, kind), Waiting(l) = {}
  PROVE  /\ OneHandler'
         /\ l # current => \A m \in Monitor : Mine(m)' = Mine(m)
         /\ \A m \in Monitor : \A t \in Mine(m)' : l = current => kind = "state" /\ t.pc = "begun"
         /\ l = current /\ kind = "state" => \A m \in Monitor : Mine(m)' # {}
<1> USE DEF world
<1>1. /\ loop'[l].attempt = loop[l].attempt /\ \A k \in Loop \ {l} : loop'[k] = loop[k]
      /\ current' = current /\ current \in Loop
    BY DEF BeginPhase, TypeOK, LoopState
<1>n. current # None
  BY ConstantsAssumption DEF TypeOK
<1>2. CASE l # current
  <2>1. \A t : t.loop = current => (t \in tasks' <=> t \in tasks)
    BY <1>2 DEF BeginPhase, Begun
  <2>2. \A m \in Monitor : Mine(m)' = Mine(m)
    BY <1>1, <1>2, <2>1, MineElse
  <2> QED
    BY <1>2, <2>2, OneHandlerStays
<1>3. CASE l = current
  <2>1. ASSUME NEW m \in Monitor, NEW t \in Mine(m)' PROVE t \in Begun(l, kind)
    BY <1>1, <1>3, <1>n, MineIs DEF Mine, Waiting, Awaited, BeginPhase
  <2>2. ASSUME NEW m \in Monitor, NEW t \in Mine(m)'
        PROVE  /\ t = [loop |-> l, attempt |-> loop[l].attempt, monitor |-> m, kind |-> kind,
                       block |-> loop[l].next, pc |-> "begun", op |-> "none", id |-> 0]
               /\ kind = "state" /\ t.pc = "begun"
    <3>1. t.monitor = m /\ t.kind = "state"
      BY DEF Mine, Waiting
    <3> QED
      BY <2>1, <3>1 DEF Begun
  <2>3. ASSUME kind = "state", NEW m \in Monitor PROVE Mine(m)' # {}
    <3> DEFINE t == [loop |-> l, attempt |-> loop[l].attempt, monitor |-> m, kind |-> kind,
                     block |-> loop[l].next, pc |-> "begun", op |-> "none", id |-> 0]
    <3>1. t \in Begun(l, kind)
      BY <2>3 DEF Begun
    <3>2. t \in tasks'
      BY <3>1 DEF BeginPhase
    <3>3. t.loop = l /\ t.attempt = loop[l].attempt /\ t.monitor = m /\ t.kind = kind
      OBVIOUS
    <3> HIDE DEF t
    <3> QED
      BY <1>1, <1>3, <1>n, <2>3, <3>2, <3>3 DEF Mine, Waiting, Awaited
  <2> QED
    BY <1>3, <2>2, <2>3 DEF OneHandler
<1> QED
  BY <1>2, <1>3

-----------------------------------------------------------------------------
(***************************************************************************)
(* What is known of handlers, entries, incidents and loops is kept.        *)
(***************************************************************************)
LEMMA TasksKnownStay ==
  ASSUME TasksKnown, Keeps, Grows, \A u \in tasks' \ tasks : TaskKnown(u)'
  PROVE  TasksKnown'
<1>1. ASSUME NEW t \in tasks PROVE TaskKnown(t)'
  BY DEF TasksKnown, TaskKnown, Keeps, Grows
<1> QED
  BY <1>1 DEF TasksKnown

\* A handler that asks the incident service.
LEMMA Asks ==
  ASSUME TypeOK, EntriesKnown, NEW t \in tasks, t.kind = "state", Tracks(t), tasks' # tasks \ {t}
  PROVE  \E op \in {"create", "resolve"}, id \in Nat :
           LET u == [t EXCEPT !.pc = "sent", !.op = op, !.id = id]
           IN /\ tasks' = (tasks \ {t}) \union {u}
              /\ op = "create" =>
                   /\ t.monitor \in chain[t.block].firing
                   /\ kv[t.monitor] = None \/ kv[t.monitor].isDue
              /\ op = "resolve" =>
                   /\ t.monitor \notin chain[t.block].firing
                   /\ kv[t.monitor] # None /\ id = kv[t.monitor].id
                   /\ id \in DOMAIN incident /\ incident[id].monitor = t.monitor
<1>1. t.monitor \in Monitor
  BY DEF TypeOK, Task
<1>2. CASE /\ t.monitor \in chain[t.block].firing
           /\ IF kv[t.monitor] = None THEN TRUE ELSE kv[t.monitor].isDue
           /\ Ask(t, "create", 0)
  <2>1. kv[t.monitor] = None \/ kv[t.monitor].isDue
    BY <1>2
  <2> QED
    BY <1>2, <2>1 DEF Ask
<1>3. CASE /\ t.monitor \notin chain[t.block].firing /\ kv[t.monitor] # None
           /\ Ask(t, "resolve", kv[t.monitor].id)
  <2>1. kv[t.monitor] \in OngoingIncident
    BY <1>1, <1>3 DEF TypeOK
  <2>2. kv[t.monitor].id \in Nat
    BY <2>1 DEF OngoingIncident
  <2>3. kv[t.monitor].id \in DOMAIN incident /\ incident[kv[t.monitor].id].monitor = t.monitor
    BY <1>1, <1>3 DEF EntriesKnown
  <2> QED
    BY <1>3, <2>2, <2>3 DEF Ask
<1> QED
  BY <1>2, <1>3 DEF Tracks

\* What the incident service answers a request to create with.
LEMMA Creation ==
  ASSUME TypeOK, NEW t \in Task, t.op = "create", Serve(t)
  PROVE  LET id == AnsweredId(t)
         IN /\ id \in DOMAIN incident' /\ incident'[id] = [monitor |-> t.monitor, status |-> "open"]
            /\ OpenOf(t.monitor) # {} => id \in OpenOf(t.monitor) /\ incident' = incident
            /\ OpenOf(t.monitor) = {} =>
                 /\ id = Len(incident) + 1
                 /\ incident' = Append(incident, [monitor |-> t.monitor, status |-> "open"])
                 /\ DOMAIN incident' = DOMAIN incident \union {id} /\ id \notin DOMAIN incident
                 /\ \A i \in DOMAIN incident : incident'[i] = incident[i]
<1>1. incident \in Seq(IncidentRow) /\ DOMAIN incident = 1 .. Len(incident) /\ Len(incident) \in Nat
  BY DEF TypeOK
<1>2. [monitor |-> t.monitor, status |-> "open"] \in IncidentRow
  BY DEF Task, IncidentRow
<1>3. CASE OpenOf(t.monitor) = {}
  <2>1. AnsweredId(t) = Len(incident) + 1
    BY <1>3 DEF AnsweredId
  <2>2. incident' = Append(incident, [monitor |-> t.monitor, status |-> "open"])
    BY <1>3 DEF Serve
  <2>3. /\ DOMAIN incident' = 1 .. Len(incident) + 1
        /\ \A i \in DOMAIN incident : incident'[i] = incident[i]
        /\ incident'[Len(incident) + 1] = [monitor |-> t.monitor, status |-> "open"]
    BY <1>1, <1>2, <2>2
  <2> QED
    BY <1>1, <1>3, <2>1, <2>2, <2>3
<1>4. CASE OpenOf(t.monitor) # {}
  <2>1. AnsweredId(t) \in OpenOf(t.monitor)
    BY <1>4 DEF AnsweredId
  <2>2. incident' = incident
    BY <1>4 DEF Serve
  <2> QED
    BY <1>4, <2>1, <2>2 DEF OpenOf
<1> QED
  BY <1>3, <1>4

LEMMA TasksKnownStep ==
  ASSUME TypeOK, TasksKnown, EntriesKnown, Next
  PROVE  TasksKnown'
<1> USE DEF vars, world, service, store, history
<1>k. Keeps /\ Grows
  BY StepKeeps, StepGrows
<1>1. tasks' \subseteq tasks => TasksKnown'
  BY <1>k, TasksKnownStay
<1>2. ASSUME NEW l \in Loop, LoopStep(l) \/ LoopExits(l) \/ Rebuild(l) PROVE TasksKnown'
  <2>1. ASSUME NEW kind, BeginPhase(l, kind) PROVE TasksKnown'
    <3>1. \A u \in tasks' \ tasks : u.pc = "begun"
      BY <2>1 DEF BeginPhase, Begun
    <3>2. \A u \in tasks' \ tasks : TaskKnown(u)'
      BY <3>1 DEF TaskKnown
    <3> QED
      BY <1>k, <3>2, TasksKnownStay
  <2> QED
    BY <1>1, <1>2, <2>1 DEF LoopStep, StartLoop, BeginBlock, NextPhase, PersistBlock, Rejected,
              Retire, LoopExits, Rebuild
<1>3. ASSUME NEW t \in tasks, Handle(t) PROVE TasksKnown'
  <2>0. t \in Task
    BY DEF TypeOK
  <2>1. CASE t.kind = "state" /\ tasks' # tasks \ {t}
    <3>1. Tracks(t)
      BY <1>3, <2>1 DEF Handle
    <3>2. PICK op \in {"create", "resolve"}, id \in Nat :
            LET u == [t EXCEPT !.pc = "sent", !.op = op, !.id = id]
            IN /\ tasks' = (tasks \ {t}) \union {u}
               /\ op = "create" => t.monitor \in chain[t.block].firing
               /\ op = "resolve" => /\ t.monitor \notin chain[t.block].firing
                                    /\ id \in DOMAIN incident /\ incident[id].monitor = t.monitor
      BY <2>1, <3>1, Asks
    <3> DEFINE u == [t EXCEPT !.pc = "sent", !.op = op, !.id = id]
    <3>3. /\ u.pc = "sent" /\ u.op = op /\ u.id = id /\ u.kind = "state"
          /\ u.monitor = t.monitor /\ u.block = t.block
      BY <2>0, <2>1 DEF Task
    <3>4. tasks' \ tasks \subseteq {u}
      BY <3>2
    <3>5. incident' = incident /\ chain' = chain
      BY <1>3 DEF Handle
    <3> HIDE DEF u
    <3>6. TaskKnown(u)'
      BY <3>2, <3>3, <3>5 DEF TaskKnown
    <3> QED
      BY <1>k, <3>4, <3>6, TasksKnownStay
  <2>2. CASE t.kind # "state"
    <3> DEFINE u == [t EXCEPT !.pc = "sent", !.op = "report", !.id = 0]
    <3>1. tasks' = (tasks \ {t}) \union {u}
      BY <1>3, <2>2 DEF Handle, Ask
    <3>2. u.op = "report" /\ u.kind = t.kind
      BY <2>0 DEF Task
    <3> HIDE DEF u
    <3>3. TaskKnown(u)'
      BY <2>2, <3>2 DEF TaskKnown
    <3> QED
      BY <1>k, <3>1, <3>3, TasksKnownStay
  <2> QED
    BY <1>1, <2>1, <2>2
<1>4. ASSUME NEW t \in tasks, Served(t) PROVE TasksKnown'
  <2>0. PICK u : u = [t EXCEPT !.pc = "answered", !.id = AnsweredId(t)]
    OBVIOUS
  <2>1. t \in Task /\ t.pc = "sent" /\ tasks' = (tasks \ {t}) \union {u} /\ Serve(t)
    BY <1>4, <2>0 DEF Served, TypeOK
  <2>2. /\ u.pc = "answered" /\ u.op = t.op /\ u.id = AnsweredId(t) /\ u.kind = t.kind
        /\ u.monitor = t.monitor /\ u.block = t.block
    BY <2>0, <2>1 DEF Task
  <2>3. TaskKnown(t)
    BY DEF TasksKnown
  <2>4. CASE t.op = "create"
    <3>0. /\ AnsweredId(t) \in DOMAIN incident'
          /\ incident'[AnsweredId(t)] = [monitor |-> t.monitor, status |-> "open"]
      BY <2>1, <2>4, Creation
    <3>1. u.id \in DOMAIN incident' /\ incident'[u.id].monitor = t.monitor
      BY <2>2, <3>0
    <3>2. TaskKnown(u)'
      BY <1>k, <2>1, <2>2, <2>3, <2>4, <3>1 DEF TaskKnown, Grows
    <3> QED
      BY <1>k, <2>1, <3>2, TasksKnownStay
  <2>5. CASE t.op # "create"
    <3>1. u.id = t.id
      BY <2>2, <2>5 DEF AnsweredId
    <3>2. TaskKnown(u)'
      BY <1>k, <2>1, <2>2, <2>3, <2>5, <3>1 DEF TaskKnown, Grows, Keeps
    <3> QED
      BY <1>k, <2>1, <3>2, TasksKnownStay
  <2> QED
    BY <2>4, <2>5
<1>5. ASSUME NEW t \in tasks, Answered(t) \/ HandlerRejected(t) \/ HandlerFails(t) PROVE TasksKnown'
  BY <1>1, <1>5 DEF Answered, HandlerRejected, HandlerFails, Rejects
<1>6. ASSUME NEW t \in tasks, HandlerHangs(t) PROVE TasksKnown'
  <2>1. t \in Task
    BY DEF TypeOK
  <2>2. \A u \in tasks' \ tasks : u.pc = "hung"
    BY <1>6, <2>1 DEF HandlerHangs, Task
  <2>3. \A u \in tasks' \ tasks : TaskKnown(u)'
    BY <2>2 DEF TaskKnown
  <2> QED
    BY <1>k, <2>3, TasksKnownStay
<1>7. ASSUME NEW t \in late, ServedLate(t) PROVE TasksKnown'
  BY <1>1, <1>7 DEF ServedLate
<1>8. ASSUME NEW p \in puts, PutStep(p) \/ PutFails(p) PROVE TasksKnown'
  BY <1>1, <1>8 DEF PutStep, PutRead, PutWrite, PutAnswered, PutFails
<1>9. ASSUME NEW m \in Lasting, RecheckDue(m) PROVE TasksKnown'
  BY <1>1, <1>9 DEF RecheckDue
<1>10. ASSUME NEW i \in DOMAIN incident, ManualResolve(i) PROVE TasksKnown'
  BY <1>1, <1>10 DEF ManualResolve
<1>11. PersistTimer \/ NewBlock \/ Crash => TasksKnown'
  BY <1>1 DEF PersistTimer, NewBlock, Crash
<1> QED
  BY <1>2, <1>3, <1>4, <1>5, <1>6, <1>7, <1>8, <1>9, <1>10, <1>11 DEF Next, HandlerStep

LEMMA OpenIs ==
  ASSUME TypeOK, NEW m, NEW i
  PROVE  i \in OpenOf(m) <=>
           i \in DOMAIN incident /\ incident[i].monitor = m /\ incident[i].status = "open"
<1>1. i \in DOMAIN incident => incident[i] \in IncidentRow
  BY DEF TypeOK
<1>2. i \in DOMAIN incident =>
        incident[i] = [monitor |-> incident[i].monitor, status |-> incident[i].status]
  BY <1>1 DEF IncidentRow
<1> QED
  BY <1>2 DEF OpenOf

LEMMA OneOpenStep == ASSUME OneOpen, Next, TypeOK PROVE OneOpen'
<1>1. Keeps
  BY StepKeeps
<1>2. ASSUME NEW m \in Monitor, NEW i \in OpenOf(m)', NEW j \in OpenOf(m)' PROVE i = j
  <2>1. \A k \in OpenOf(m)' : k \in OpenOf(m) \/ (k \notin DOMAIN incident /\ incident'[k].monitor = m)
    <3>1. ASSUME NEW k \in OpenOf(m)', k \in DOMAIN incident PROVE k \in OpenOf(m)
      <4>1. incident'[k].monitor = m /\ incident'[k].status = "open"
        BY DEF OpenOf
      <4>2. incident[k].monitor = m /\ incident[k].status = "open"
        BY <1>1, <3>1, <4>1 DEF Keeps
      <4> QED
        BY <3>1, <4>2, OpenIs
    <3>2. ASSUME NEW k \in OpenOf(m)' PROVE incident'[k].monitor = m
      BY DEF OpenOf
    <3> QED
      BY <3>1, <3>2
  <2>2. i \in DOMAIN incident' /\ j \in DOMAIN incident'
    BY DEF OpenOf
  <2>3. OpenOf(m) # {} => i \in OpenOf(m) /\ j \in OpenOf(m)
    BY <1>1, <2>1, <2>2 DEF Keeps
  <2>4. OpenOf(m) = {} => i \notin DOMAIN incident /\ j \notin DOMAIN incident
    BY <2>1
  <2> QED
    BY <1>1, <2>2, <2>3, <2>4 DEF Keeps, OneOpen
<1> QED
  BY <1>2 DEF OneOpen

LEMMA EntriesStay ==
  ASSUME EntriesKnown, Keeps,
         \A m \in Monitor : kv'[m] # None =>
           kv'[m] = kv[m] \/ (kv'[m].id \in DOMAIN incident /\ incident[kv'[m].id].monitor = m)
  PROVE  EntriesKnown'
  BY DEF EntriesKnown, Keeps

LEMMA EntriesKnownStep ==
  ASSUME TypeOK, TasksKnown, EntriesKnown, Next
  PROVE  EntriesKnown'
<1> USE DEF vars, world, service, store, history
<1>k. Keeps
  BY StepKeeps
<1>1. kv' = kv => EntriesKnown'
  BY <1>k, EntriesStay
<1>2. ASSUME NEW l \in Loop, LoopStep(l) \/ LoopExits(l) \/ Rebuild(l) PROVE EntriesKnown'
  BY <1>1, <1>2 DEF LoopStep, StartLoop, BeginBlock, NextPhase, BeginPhase, PersistBlock, Rejected,
              Retire, LoopExits, Rebuild
<1>3. ASSUME NEW t \in tasks, Answered(t) PROVE EntriesKnown'
  <2>0. t \in Task /\ kv \in [Monitor -> OngoingIncident \union {None}] /\ kv' = Tracked(t)
        /\ t.pc = "answered"
    BY <1>3 DEF Answered, TypeOK
  <2>1. CASE t.op = "create"
    <3>1. t.id \in DOMAIN incident /\ incident[t.id].monitor = t.monitor
      BY <1>3, <2>0, <2>1 DEF TasksKnown, TaskKnown
    <3>2. kv' = [kv EXCEPT ![t.monitor] = [id |-> t.id, isDue |-> FALSE]]
      BY <2>0, <2>1 DEF Tracked
    <3>3. \A m \in Monitor : kv'[m] = IF m = t.monitor THEN [id |-> t.id, isDue |-> FALSE] ELSE kv[m]
      BY <2>0, <3>2
    <3> QED
      BY <1>k, <3>1, <3>3, EntriesStay
  <2>2. CASE t.op = "resolve"
    <3>1. kv' = [kv EXCEPT ![t.monitor] = None]
      BY <2>0, <2>2 DEF Tracked
    <3>3. \A m \in Monitor : kv'[m] = IF m = t.monitor THEN None ELSE kv[m]
      BY <2>0, <3>1
    <3> QED
      BY <1>k, <3>3, EntriesStay
  <2>3. CASE t.op \notin {"create", "resolve"}
    BY <1>1, <2>0, <2>3 DEF Tracked
  <2> QED
    BY <2>1, <2>2, <2>3
<1>4. ASSUME NEW t \in tasks,
             Handle(t) \/ Served(t) \/ HandlerRejected(t) \/ HandlerFails(t) \/ HandlerHangs(t)
      PROVE EntriesKnown'
  BY <1>1, <1>4 DEF Handle, Served, HandlerRejected, HandlerFails, HandlerHangs
<1>5. ASSUME NEW t \in late, ServedLate(t) PROVE EntriesKnown'
  BY <1>1, <1>5 DEF ServedLate
<1>6. ASSUME NEW p \in puts, PutStep(p) \/ PutFails(p) PROVE EntriesKnown'
  BY <1>1, <1>6 DEF PutStep, PutRead, PutWrite, PutAnswered, PutFails
<1>7. ASSUME NEW m \in Lasting, RecheckDue(m) PROVE EntriesKnown'
  <2>1. m \in Monitor /\ kv[m] \in OngoingIncident
    BY <1>7, ConstantsAssumption DEF RecheckDue, TypeOK
  <2>2. \A n \in Monitor : kv'[n] = kv[n] \/ (n = m /\ kv'[n].id = kv[n].id)
    BY <1>7, <2>1 DEF RecheckDue, TypeOK, OngoingIncident
  <2>3. kv[m] # None
    BY <1>7 DEF RecheckDue
  <2>4. ASSUME NEW n \in Monitor, kv'[n] # None, kv'[n] # kv[n]
        PROVE  kv'[n].id \in DOMAIN incident /\ incident[kv'[n].id].monitor = n
    BY <2>2, <2>3, <2>4 DEF EntriesKnown
  <2> QED
    BY <1>k, <2>4, EntriesStay
<1>8. ASSUME NEW i \in DOMAIN incident, ManualResolve(i) PROVE EntriesKnown'
  BY <1>1, <1>8 DEF ManualResolve
<1>9. ASSUME PersistTimer \/ NewBlock PROVE EntriesKnown'
  BY <1>1, <1>9 DEF PersistTimer, NewBlock
<1>10. ASSUME Crash PROVE EntriesKnown'
  <2>1. \A m \in Monitor : kv'[m] = None
    BY <1>10 DEF Crash
  <2> QED
    BY <2>1 DEF EntriesKnown
<1> QED
  BY <1>2, <1>3, <1>4, <1>5, <1>6, <1>7, <1>8, <1>9, <1>10 DEF Next, HandlerStep

\* A loop that stays, or gives its attempt up, keeps what is known of the loops.
LEMMA LoopsStay ==
  ASSUME TypeOK, TypeOK', Match, LoopsKnown, NEW l \in Loop,
         \A k \in Loop \ {l} : loop'[k] = loop[k],
         loop'[l].pc \in Running \ {"ready"} => loop'[l].next <= latest,
         \/ loop'[l].attempt > loop[l].attempt
         \/ loop'[l].attempt = loop[l].attempt /\ loop'[l].next = loop[l].next
         \/ loop'[l].attempt = loop[l].attempt /\ \A p \in puts' : p.loop = l => ~Awaited(p),
         puts' \subseteq puts, latest' = latest, restarts' = 0 => current' = 1
  PROVE  LoopsKnown'
<1>1. ASSUME NEW k \in Loop, loop'[k].pc \in Running \ {"ready"} PROVE loop'[k].next <= latest'
  BY <1>1 DEF LoopsKnown
<1>2. ASSUME NEW p \in puts', Awaited(p)' PROVE p.block = loop'[p.loop].next
  <2>1. p \in puts /\ p \in Put /\ p.loop \in Loop
    BY <1>2 DEF TypeOK, Put, Awaited
  <2>2. p.attempt <= loop[p.loop].attempt /\ p.attempt = loop'[p.loop].attempt
    BY <1>2, <2>1, ConstantsAssumption DEF Match, PutsMatch, Awaited
  <2>3. CASE p.loop # l
    <3>1. Awaited(p) /\ loop'[p.loop] = loop[p.loop]
      BY <2>1, <2>2, <2>3, ConstantsAssumption DEF Awaited
    <3> QED
      BY <2>1, <3>1 DEF LoopsKnown
  <2>4. CASE p.loop = l
    <3>1. loop[l].attempt \in Nat /\ loop'[l].attempt \in Nat /\ p.attempt \in Nat
      BY <2>1 DEF TypeOK, LoopState, Put
    <3>2. loop'[l].attempt = loop[l].attempt
      BY <2>2, <2>4, <3>1
    <3>3. Awaited(p)
      BY <2>1, <2>2, <2>4, <3>2, ConstantsAssumption DEF Awaited
    <3> QED
      BY <1>2, <2>1, <2>4, <3>1, <3>2, <3>3 DEF LoopsKnown
  <2> QED
    BY <2>3, <2>4
<1> QED
  BY <1>1, <1>2 DEF LoopsKnown

LEMMA LoopsSame ==
  ASSUME TypeOK, TypeOK', LoopsKnown, UNCHANGED <<loop, current, restarts>>, latest <= latest',
         \A p \in puts' : p.loop = None \/ \E q \in puts : p.loop = q.loop /\ p.attempt = q.attempt /\ p.block = q.block
  PROVE  LoopsKnown'
<1>1. ASSUME NEW p \in puts', Awaited(p)' PROVE p.block = loop[p.loop].next
  BY <1>1 DEF LoopsKnown, Awaited
<1>2. \A l \in Loop : loop[l].next \in Nat
  BY DEF TypeOK, LoopState
<1>3. latest \in Nat /\ latest' \in Nat
  BY DEF TypeOK
<1> QED
  BY <1>1, <1>2, <1>3 DEF LoopsKnown

LEMMA GoesOn ==
  ASSUME TypeOK, NEW l \in Loop, NEW pc \in {"ready", "call"}, GoOn(l, pc)
  PROVE  /\ loop'[l].attempt > loop[l].attempt /\ loop'[l].next = loop[l].next /\ loop'[l].pc = pc
         /\ \A k \in Loop \ {l} : loop'[k] = loop[k]
<1>1. loop[l] \in LoopState /\ loop \in [Loop -> LoopState]
  BY DEF TypeOK
<1>2. loop'[l] = [loop[l] EXCEPT !.pc = pc, !.attempt = @ + 1]
  BY <1>1 DEF GoOn
<1>3. \A k \in Loop \ {l} : loop'[k] = loop[k]
  BY <1>1 DEF GoOn
<1> QED
  BY <1>1, <1>2, <1>3 DEF LoopState

LEMMA LoopsKnownStep ==
  ASSUME TypeOK, TypeOK', Match, LoopsKnown, Next
  PROVE  LoopsKnown'
<1> USE DEF vars, world, service, store, history
<1>u. ASSUME UNCHANGED <<latest, loop, current, restarts>>, puts' \subseteq puts PROVE LoopsKnown'
  <2>1. latest <= latest'
    BY <1>u DEF TypeOK
  <2> QED
    BY <1>u, <2>1, LoopsSame
<1>g. ASSUME NEW l \in Loop, NEW pc \in {"ready", "call"}, GoOn(l, pc), pc = "call" => loop[l].pc = "call",
             UNCHANGED <<latest, current, restarts>>, puts' \subseteq puts
      PROVE  LoopsKnown'
  <2>1. /\ loop'[l].attempt > loop[l].attempt /\ loop'[l].next = loop[l].next /\ loop'[l].pc = pc
        /\ \A k \in Loop \ {l} : loop'[k] = loop[k]
    BY <1>g, GoesOn
  <2>2. loop'[l].pc \in Running \ {"ready"} => loop'[l].next <= latest
    BY <1>g, <2>1 DEF LoopsKnown, Running
  <2>3. restarts' = 0 => current' = 1
    BY <1>g DEF LoopsKnown
  <2> QED
    BY <1>g, <2>1, <2>2, <2>3, LoopsStay
<1>1. ASSUME NEW l \in Loop, StartLoop(l) PROVE LoopsKnown'
  <2>1. /\ loop'[l].attempt = loop[l].attempt /\ loop'[l].pc = "ready"
        /\ \A k \in Loop \ {l} : loop'[k] = loop[k]
    BY <1>1 DEF StartLoop, TypeOK, LoopState
  <2>2. \A p \in puts : p.loop = l => ~Awaited(p)
    BY <1>1, NothingStored DEF StartLoop
  <2>3. restarts' = 0 => current' = 1
    BY <1>1 DEF StartLoop, LoopsKnown
  <2> QED
    BY <1>1, <2>1, <2>2, <2>3, LoopsStay DEF StartLoop
<1>2. ASSUME NEW l \in Loop, LoopExits(l) \/ Retire(l) PROVE LoopsKnown'
  <2>1. /\ loop'[l].attempt = loop[l].attempt /\ loop'[l].next = loop[l].next
        /\ loop'[l].pc \notin Running /\ \A k \in Loop \ {l} : loop'[k] = loop[k]
    BY <1>2 DEF LoopExits, Retire, TypeOK, LoopState, Running
  <2>3. UNCHANGED <<latest, current, restarts, puts>> /\ (restarts' = 0 => current' = 1)
    BY <1>2 DEF LoopExits, Retire, LoopsKnown
  <2> QED
    BY <2>1, <2>3, LoopsStay
<1>3. ASSUME NEW l \in Loop, BeginBlock(l) \/ NextPhase(l) PROVE LoopsKnown'
  <2>1. PICK kind \in Kind : BeginPhase(l, kind)
    BY <1>3 DEF BeginBlock, NextPhase, Kind
  <2>2. /\ loop'[l].attempt = loop[l].attempt /\ loop'[l].next = loop[l].next
        /\ \A k \in Loop \ {l} : loop'[k] = loop[k]
    BY <2>1 DEF BeginPhase, TypeOK, LoopState
  <2>3. UNCHANGED <<latest, current, restarts, puts>> /\ (restarts' = 0 => current' = 1)
    BY <2>1 DEF BeginPhase, LoopsKnown
  <2>4. loop[l].next <= latest
    BY <1>3 DEF BeginBlock, NextPhase, LoopsKnown, Running
  <2> QED
    BY <2>2, <2>3, <2>4, LoopsStay
<1>4. ASSUME NEW l \in Loop, Rejected(l) PROVE LoopsKnown'
  BY <1>4, <1>g DEF Rejected
<1>5. ASSUME NEW l \in Loop, PersistBlock(l) PROVE LoopsKnown'
  <2>1. /\ loop'[l].attempt = loop[l].attempt /\ loop'[l].next = loop[l].next
        /\ \A k \in Loop \ {l} : loop'[k] = loop[k]
    BY <1>5 DEF PersistBlock, TypeOK, LoopState
  <2>2. PutOf(l, l).block = loop[l].next /\ PutOf(l, l).loop = l
    BY ConstantsAssumption DEF PutOf
  <2>3. \A p \in puts' : p \in puts \/ p = PutOf(l, l)
    BY <1>5 DEF PersistBlock
  <2>4. \A p \in puts' : Awaited(p)' => p.block = loop'[p.loop].next
    <3>1. ASSUME NEW p \in puts, Awaited(p)' PROVE p.block = loop'[p.loop].next
      <4>1. p.loop \in Loop /\ loop'[p.loop].attempt = loop[p.loop].attempt
                            /\ loop'[p.loop].next = loop[p.loop].next
        BY <2>1, <3>1 DEF TypeOK, Put, Awaited
      <4> QED
        BY <3>1, <4>1 DEF LoopsKnown, Awaited
    <3> QED
      BY <2>1, <2>2, <2>3, <3>1
  <2>5. \A k \in Loop : loop'[k].pc \in Running \ {"ready"} => loop'[k].next <= latest'
    BY <1>5, <2>1 DEF PersistBlock, LoopsKnown, Running
  <2> QED
    BY <1>5, <2>4, <2>5 DEF PersistBlock, LoopsKnown
<1>6. ASSUME NEW l \in Loop, Rebuild(l) PROVE LoopsKnown'
  <2>1. /\ loop'[l].attempt > loop[l].attempt /\ loop'[l].pc = "starting"
        /\ \A k \in Loop \ {l} : loop'[k] = loop[k] /\ restarts' # 0
    BY <1>6 DEF Rebuild, NewLoop, TypeOK, LoopState
  <2>2. restarts' = restarts + 1 /\ restarts \in Nat
    BY <1>6 DEF Rebuild, TypeOK
  <2> QED
    BY <1>6, <2>1, <2>2, LoopsStay DEF Rebuild, Running
<1>7. ASSUME NEW t \in tasks, Rejects(t), UNCHANGED <<latest, current, restarts, puts>>
      PROVE  LoopsKnown'
  <2>1. t.loop \in Loop
    BY DEF TypeOK, Task
  <2>2. Awaited(t) => loop[t.loop].pc = t.kind
    BY DEF Match, TasksMatch
  <2>3. \/ UNCHANGED loop
        \/ GoOn(t.loop, "ready")
        \/ GoOn(t.loop, "call") /\ loop[t.loop].pc = "call"
    BY <1>7, <2>2 DEF Rejects
  <2> QED
    BY <1>7, <1>u, <1>g, <2>1, <2>3
<1>8. ASSUME NEW t \in tasks, HandlerStep(t) \/ HandlerFails(t) \/ HandlerHangs(t) PROVE LoopsKnown'
  BY <1>u, <1>7, <1>8 DEF HandlerStep, Handle, Served, Answered, HandlerRejected, HandlerFails,
                          HandlerHangs
<1>9. ASSUME NEW t \in late, ServedLate(t) PROVE LoopsKnown'
  BY <1>u, <1>9 DEF ServedLate
<1>10. ASSUME NEW p \in puts, PutRead(p) \/ PutWrite(p) PROVE LoopsKnown'
  <2>1. p \in Put
    BY DEF TypeOK
  <2>2. \A q \in puts' : q \in puts \/
          (q.loop = p.loop /\ q.attempt = p.attempt /\ q.block = p.block)
    <3>1. \A q \in puts' : \/ q \in puts
                          \/ q = [p EXCEPT !.pc = "read", !.seen = watermark]
                          \/ q = [p EXCEPT !.pc = "answered"]
      BY <1>10 DEF PutRead, PutWrite
    <3> QED
      BY <2>1, <3>1 DEF Put
  <2>3. UNCHANGED <<latest, loop, current, restarts>> /\ latest <= latest'
    BY <1>10 DEF PutRead, PutWrite, TypeOK
  <2> QED
    BY <2>2, <2>3, LoopsSame
<1>11. ASSUME NEW p \in puts, PutAnswered(p) PROVE LoopsKnown'
  <2>1. p.loop \in Loop /\ Awaited(p)
    BY <1>11 DEF PutAnswered, Awaited, TypeOK, Put
  <2>2. /\ loop'[p.loop].attempt = loop[p.loop].attempt /\ loop'[p.loop].pc = "ready"
        /\ \A k \in Loop \ {p.loop} : loop'[k] = loop[k]
    BY <1>11, <2>1 DEF PutAnswered, Awaited, TypeOK
  <2>3. \A q \in puts' : q.loop = p.loop => ~Awaited(q)
    BY <1>11, <2>1 DEF PutAnswered, Match, PutsMatch
  <2>4. UNCHANGED <<latest, current, restarts>> /\ puts' \subseteq puts /\ (restarts' = 0 => current' = 1)
    BY <1>11 DEF PutAnswered, LoopsKnown
  <2> QED
    BY <2>1, <2>2, <2>3, <2>4, LoopsStay
<1>12. ASSUME NEW p \in puts, PutFails(p) PROVE LoopsKnown'
  <2>1. p.loop \in Loop
    BY <1>12 DEF PutFails, Awaited, TypeOK, Put
  <2> QED
    BY <1>12, <1>g, <2>1 DEF PutFails
<1>13. ASSUME NEW m \in Lasting, RecheckDue(m) PROVE LoopsKnown'
  BY <1>u, <1>13 DEF RecheckDue
<1>14. ASSUME NEW i \in DOMAIN incident, ManualResolve(i) PROVE LoopsKnown'
  BY <1>u, <1>14 DEF ManualResolve
<1>15. ASSUME PersistTimer PROVE LoopsKnown'
  <2>1. \A p \in puts' : p \in puts \/ p.loop = None
    BY <1>15 DEF PersistTimer, PutOf
  <2>2. UNCHANGED <<latest, loop, current, restarts>> /\ latest <= latest'
    BY <1>15 DEF PersistTimer, TypeOK
  <2> QED
    BY <2>1, <2>2, LoopsSame
<1>16. ASSUME NewBlock PROVE LoopsKnown'
  <2>1. UNCHANGED <<loop, current, restarts, puts>> /\ latest <= latest'
    BY <1>16 DEF NewBlock, TypeOK
  <2> QED
    BY <2>1, LoopsSame
<1>17. ASSUME Crash PROVE LoopsKnown'
  <2>1. \A l \in Loop : loop'[l].pc \notin Running /\ loop'[l].attempt = loop[l].attempt + 1
    BY <1>17 DEF Crash, NewLoop, Running
  <2>2. ASSUME NEW p \in puts PROVE ~Awaited(p)'
    <3>1. p.loop # None => p.loop \in Loop /\ p.attempt <= loop[p.loop].attempt
      BY DEF Match, PutsMatch, TypeOK, Put
    <3>2. p.attempt \in Nat /\ \A l \in Loop : loop[l].attempt \in Nat
      BY DEF TypeOK, Put, LoopState
    <3> QED
      BY <2>1, <3>1, <3>2 DEF Awaited
  <2>3. puts' \subseteq puts /\ current' = 1
    BY <1>17 DEF Crash
  <2> QED
    BY <2>1, <2>2, <2>3 DEF LoopsKnown
<1> QED
  BY <1>1, <1>2, <1>3, <1>4, <1>5, <1>6, <1>8, <1>9, <1>10, <1>11, <1>12, <1>13, <1>14, <1>15,
     <1>16, <1>17 DEF Next, LoopStep, PutStep

LEMMA HandlersStay ==
  ASSUME MineKnown, UNCHANGED <<kv, incident>>,
         \A m \in Monitor : \A t \in Mine(m)' : t \in Mine(m) \/ t.pc \notin {"sent", "answered"}
  PROVE  MineKnown'
<1>1. ASSUME NEW m \in Monitor, NEW t, HandlerKnown(m, t) PROVE HandlerKnown(m, t)'
  BY <1>1 DEF HandlerKnown, OpenOf
<1>2. ASSUME NEW m \in Monitor, NEW t, t.pc \notin {"sent", "answered"} PROVE HandlerKnown(m, t)'
  BY <1>2 DEF HandlerKnown
<1> QED
  BY <1>1, <1>2 DEF MineKnown

LEMMA HandlersNone == (\A m \in Monitor : Mine(m)' = {}) => MineKnown'
  BY DEF MineKnown

LEMMA Closes ==
  ASSUME TypeOK, NEW i \in DOMAIN incident, NEW s, incident' = [incident EXCEPT ![i].status = s]
  PROVE  /\ DOMAIN incident' = DOMAIN incident
         /\ incident'[i].monitor = incident[i].monitor /\ incident'[i].status = s
         /\ \A j \in DOMAIN incident : j # i => incident'[j] = incident[j]
<1>1. incident \in [1 .. Len(incident) -> IncidentRow]
  BY DEF TypeOK
<1>2. incident'[i] = [incident[i] EXCEPT !.status = s] /\ incident[i] \in IncidentRow
  BY <1>1
<1>3. DOMAIN incident' = DOMAIN incident /\ \A j \in DOMAIN incident : j # i => incident'[j] = incident[j]
  BY <1>1
<1> QED
  BY <1>2, <1>3 DEF IncidentRow

\* A request that is served is about one monitor.
LEMMA ServesOne ==
  ASSUME TypeOK, NEW t \in Task, TaskKnown(t), t.pc = "sent", Serve(t),
         NEW n \in Monitor, n # t.monitor
  PROVE  /\ OpenOf(n)' = OpenOf(n)
         /\ \A i \in DOMAIN incident :
              i \in DOMAIN incident' /\ (incident[i].monitor = n => incident'[i] = incident[i])
<1>1. CASE t.op = "create" /\ OpenOf(t.monitor) = {}
  <2> DEFINE id == AnsweredId(t)
  <2>1. /\ id \in DOMAIN incident' /\ incident'[id] = [monitor |-> t.monitor, status |-> "open"]
        /\ DOMAIN incident' = DOMAIN incident \union {id} /\ id \notin DOMAIN incident
        /\ \A i \in DOMAIN incident : incident'[i] = incident[i]
    BY <1>1, Creation
  <2>2. incident'[id].monitor # n
    BY <2>1
  <2> HIDE DEF id
  <2>3. \A i : i \in OpenOf(n)' <=> i \in OpenOf(n)
    BY <2>1, <2>2 DEF OpenOf
  <2> QED
    BY <2>1, <2>3
<1>2. CASE incident' = incident
  BY <1>2 DEF OpenOf
<1>3. CASE t.op = "resolve" /\ incident[t.id].status = "open"
  <2>1. incident \in Seq(IncidentRow) /\ incident' = [incident EXCEPT ![t.id].status = "resolved"]
    BY <1>3 DEF Serve, TypeOK
  <2>2. incident[t.id].monitor = t.monitor /\ t.id \in DOMAIN incident
    BY <1>3 DEF TaskKnown
  <2>3. /\ DOMAIN incident' = DOMAIN incident
        /\ \A i \in DOMAIN incident : i # t.id => incident'[i] = incident[i]
        /\ incident'[t.id].monitor = t.monitor
    BY <2>1, <2>2, Closes
  <2>4. \A i : i \in OpenOf(n)' <=> i \in OpenOf(n)
    BY <2>2, <2>3 DEF OpenOf
  <2> QED
    BY <2>2, <2>3, <2>4
<1> QED
  BY <1>1, <1>2, <1>3 DEF Serve

\* An effect nobody waits for shows; others than handlers of conditions have none.
LEMMA OthersServed ==
  ASSUME TypeOK, TasksKnown, NEW t \in tasks, Served(t), ~stray', ~IsOwn(t) \/ t.kind # "state"
  PROVE  incident' = incident
<1>1. ~IsOwn(t) => service' = service
  BY DEF Served
<1>2. t.kind # "state" => t.op = "report"
  BY DEF Served, TasksKnown, TaskKnown
<1> QED
  BY <1>1, <1>2 DEF Served, Serve, service

LEMMA OthersAnswered ==
  ASSUME TypeOK, TasksKnown, NEW t \in tasks, Answered(t), ~stray', ~IsOwn(t) \/ t.kind # "state"
  PROVE  kv' = kv
<1>1. ~IsOwn(t) => kv' = kv
  BY DEF Answered
<1>2. t.kind # "state" => t.op = "report"
  BY DEF Answered, TasksKnown, TaskKnown
<1>3. t.op = "report" => Tracked(t) = kv
  BY DEF Tracked
<1> QED
  BY <1>1, <1>2, <1>3 DEF Answered

LEMMA OwnIsMine ==
  ASSUME TypeOK, OneHandler, NEW t \in tasks, IsOwn(t), t.kind = "state"
  PROVE  t.monitor \in Monitor /\ t \in Mine(t.monitor) /\ Mine(t.monitor) = {t}
<1>1. t.monitor \in Monitor /\ t.loop = current
  BY DEF TypeOK, Task, IsOwn, IsRunning
<1>2. t \in Mine(t.monitor)
  BY <1>1 DEF Mine, Waiting, IsOwn
<1> QED
  BY <1>1, <1>2 DEF OneHandler

LEMMA MineIsOwn ==
  ASSUME NEW m, NEW t \in Mine(m)
  PROVE  t \in tasks /\ IsOwn(t) /\ t.kind = "state" /\ t.monitor = m
  BY DEF Mine, Waiting, IsOwn, IsRunning

\* The request of a handler the current attempt waits for is served.
LEMMA ServedKnown ==
  ASSUME TypeOK, TypeOK', Match, OneHandler, TasksKnown, OneOpen, MineKnown, NEW t \in tasks,
         Served(t), ~stray'
  PROVE  MineKnown'
<1> DEFINE m == t.monitor
<1>1. PICK u : u = [t EXCEPT !.pc = "answered", !.id = AnsweredId(t)]
  OBVIOUS
<1>2. /\ t \in Task /\ t.pc = "sent" /\ Serve(t) /\ tasks' = (tasks \ {t}) \union {u}
      /\ UNCHANGED <<loop, current, kv>>
  BY <1>1 DEF Served, TypeOK
<1>3. /\ u.pc = "answered" /\ u.op = t.op /\ u.id = AnsweredId(t) /\ Follows(t, u)
  BY <1>1, <1>2 DEF Task, Follows
<1>4. CASE ~IsOwn(t) \/ t.kind # "state"
  <2>1. incident' = incident
    BY <1>4, OthersServed
  <2>2. \A n \in Monitor : t \notin Mine(n)
    BY <1>4, MineIsOwn
  <2>3. \A n \in Monitor : Mine(n)' = Mine(n)
    BY <1>2, <1>3, <2>2, MineMoves
  <2> QED
    BY <1>2, <2>1, <2>3, HandlersStay
<1>5. CASE IsOwn(t) /\ t.kind = "state"
  <2>1. m \in Monitor /\ Mine(m) = {t}
    BY <1>5, OwnIsMine
  <2>2. Mine(m)' = {u}
    <3>1. Mine(m)' = (Mine(m) \ {t}) \union {u}
      BY <1>2, <1>3, <2>1, MineMoves
    <3> QED
      BY <2>1, <3>1
  <2>3. HandlerKnown(m, t) /\ TaskKnown(t)
    BY <2>1 DEF MineKnown, TasksKnown
  <2>4. HandlerKnown(m, u)'
    <3>1. CASE t.op = "create"
      <4>1. kv[m] = None \/ kv[m].isDue
        BY <1>2, <2>3, <3>1 DEF HandlerKnown
      <4>2. CASE OpenOf(m) # {}
        <5>1. AnsweredId(t) \in OpenOf(m) /\ incident' = incident
          BY <1>2, <3>1, <4>2, Creation
        <5>2. incident[u.id].status = "open" /\ OpenOf(m) = {u.id}
          BY <1>3, <2>1, <5>1 DEF OneOpen, OpenOf
        <5>3. OpenOf(m)' = {u.id} /\ incident'[u.id].status = "open"
          BY <5>1, <5>2 DEF OpenOf
        <5> QED
          BY <1>2, <1>3, <3>1, <4>1, <5>3 DEF HandlerKnown
      <4>3. CASE OpenOf(m) = {}
        <5>1. /\ AnsweredId(t) \in DOMAIN incident'
              /\ incident'[AnsweredId(t)] = [monitor |-> m, status |-> "open"]
              /\ DOMAIN incident' = DOMAIN incident \union {AnsweredId(t)}
              /\ \A i \in DOMAIN incident : incident'[i] = incident[i]
          BY <1>2, <3>1, <4>3, Creation
        <5>2. incident'[u.id].status = "open" /\ OpenOf(m)' \subseteq {u.id}
          BY <1>3, <4>3, <5>1 DEF OpenOf
        <5> QED
          BY <1>2, <1>3, <3>1, <4>1, <5>2 DEF HandlerKnown
      <4> QED
        BY <4>2, <4>3
    <3>2. CASE t.op = "resolve"
      <4>1. /\ kv[m] # None /\ kv[m].id = t.id /\ u.id = t.id
            /\ t.id \in DOMAIN incident
        BY <1>2, <1>3, <2>3, <3>2 DEF HandlerKnown, TaskKnown, AnsweredId
      <4>2. \/ incident' = incident /\ incident[t.id].status # "open"
            \/ incident' = [incident EXCEPT ![t.id].status = "resolved"]
        BY <1>2, <3>2 DEF Serve
      <4>3. incident'[t.id].status # "open"
        BY <4>1, <4>2, Closes
      <4> QED
        BY <1>2, <1>3, <3>2, <4>1, <4>3 DEF HandlerKnown
    <3>3. t.op \in {"create", "resolve"}
      BY <1>2, <1>5, <2>3 DEF TaskKnown
    <3> QED
      BY <3>1, <3>2, <3>3
  <2>5. ASSUME NEW n \in Monitor, n # m, NEW v \in Mine(n)' PROVE HandlerKnown(n, v)'
    <3>1. t \notin Mine(n)
      BY <2>5, MineIsOwn
    <3>2. v \in Mine(n)
      BY <1>2, <1>3, <3>1, MineMoves
    <3>3. HandlerKnown(n, v) /\ TaskKnown(v) /\ v.monitor = n
      BY <3>2, MineIsOwn DEF MineKnown, TasksKnown
    <3>4. /\ OpenOf(n)' = OpenOf(n)
          /\ \A i \in DOMAIN incident : incident[i].monitor = n => incident'[i] = incident[i]
      BY <1>2, <2>3, <2>5, ServesOne
    <3> QED
      BY <1>2, <3>3, <3>4 DEF HandlerKnown, TaskKnown
  <2> QED
    BY <2>2, <2>4, <2>5 DEF MineKnown
<1> QED
  BY <1>4, <1>5

-----------------------------------------------------------------------------
(***************************************************************************)
(* The steps that change what the current watcher has in hand, and the     *)
(* steps that do not: every step is one or the other (StepSeen).           *)
(***************************************************************************)
At == loop[current].next

\* What the current watcher and the incident service do that others see.
Starts ==
  /\ loop[current].pc \in {"boot", "starting"} /\ loop'[current].pc = "ready"
  /\ loop'[current].next = FirstBlock(current)
  /\ UNCHANGED <<chain, latest, current, watermark, kv, incident, restarts>>

StopsAnyhow ==
  /\ loop'[current'].pc \notin Running
  /\ UNCHANGED <<chain, latest, watermark, incident>>
  /\ kv' = kv \/ kv' = [m \in Monitor |-> None]
  /\ restarts' # 0 \/ (loop'[current'].pc = "exited" /\ restarts' = restarts /\ kv' = kv)

Stores ==
  /\ loop[current].pc = "persist" /\ watermark' = At /\ watermark' # watermark
  /\ UNCHANGED <<chain, latest, current, loop, tasks, kv, incident>>

Moves ==
  /\ loop[current].pc = "persist" /\ loop'[current].pc = "ready"
  /\ loop'[current].next = At + 1
  /\ \E p \in puts : IsOwn(p) /\ p.pc = "answered"
  /\ UNCHANGED <<chain, latest, current, watermark, kv, incident>>

Falls(m) ==
  /\ kv[m] # None /\ kv' = [kv EXCEPT ![m].isDue = TRUE]
  /\ UNCHANGED <<chain, latest, current, loop, tasks, watermark, incident>>

Closed(i) ==
  /\ incident' = [incident EXCEPT ![i].status = "manual"]
  /\ UNCHANGED <<chain, latest, current, loop, tasks, watermark, kv>>

\* A handler of a condition does something.
Moved(m) ==
  /\ loop[current].pc = "state" /\ At <= latest /\ Mine(m) # {}
  /\ \A n \in Monitor \ {m} : HasPassed(n)' => HasPassed(n)
  /\ UNCHANGED <<chain, latest, current, loop, watermark>>

Leaves(m) ==
  /\ Moved(m)
  /\ IF m \in chain[At].firing THEN kv[m] # None /\ ~kv[m].isDue ELSE kv[m] = None
  /\ UNCHANGED <<kv, incident>>

Creates(m) ==
  /\ Moved(m) /\ ~HasPassed(m)'
  /\ m \in chain[At].firing /\ (kv[m] = None \/ kv[m].isDue) /\ OpenOf(m) = {}
  /\ incident' = Append(incident, [monitor |-> m, status |-> "open"])
  /\ UNCHANGED kv

Resolves(m) ==
  /\ Moved(m) /\ ~HasPassed(m)'
  /\ m \notin chain[At].firing /\ kv[m] # None /\ StatusOf(m) = "open"
  /\ incident' = [incident EXCEPT ![kv[m].id].status = "resolved"]
  /\ UNCHANGED kv

Records(m) ==
  /\ Moved(m)
  /\ m \in chain[At].firing
  /\ \E i \in DOMAIN incident :
       /\ incident[i].monitor = m /\ incident[i].status # "resolved" /\ OpenOf(m) \subseteq {i}
       /\ kv' = [kv EXCEPT ![m] = [id |-> i, isDue |-> FALSE]]
  /\ UNCHANGED incident

Forgets(m) ==
  /\ Moved(m)
  /\ m \notin chain[At].firing /\ kv[m] # None /\ StatusOf(m) # "open"
  /\ kv' = [kv EXCEPT ![m] = None]
  /\ UNCHANGED incident

Handled(m) == Leaves(m) \/ Creates(m) \/ Resolves(m) \/ Records(m) \/ Forgets(m)

Noticed ==
  \/ Starts \/ StopsAnyhow \/ Stores \/ Moves
  \/ \E m \in Monitor : Handled(m) \/ Falls(m)
  \/ \E i \in DOMAIN incident : incident[i].status = "open" /\ Closed(i)

LEMMA SamePlace ==
  ASSUME UNCHANGED <<chain, current, watermark, kv, incident>>, latest <= latest',
         loop'[current].pc = loop[current].pc, loop'[current].next = loop[current].next,
         \A m \in Monitor : Mine(m)' = {} => Mine(m) = {}
  PROVE  Unnoticed
  BY DEF Unnoticed, HasPassed

LEMMA GivenUp ==
  ASSUME TypeOK, TypeOK', Match, UNCHANGED <<chain, latest, current, watermark, kv, incident>>,
         NEW l \in Loop, NEW pc \in {"ready", "call"}, GoOn(l, pc), pc = "call" => loop[l].pc = "call",
         loop[l].pc \in Running, tasks' \subseteq tasks,
         l # current => \A t \in tasks : t.loop = current => t \in tasks'
  PROVE  /\ \A m \in Monitor : Mine(m)' \subseteq Mine(m)
         /\ Unnoticed
<1>1. /\ loop'[l].attempt > loop[l].attempt /\ loop'[l].next = loop[l].next /\ loop'[l].pc = pc
      /\ \A k \in Loop \ {l} : loop'[k] = loop[k]
  BY GoesOn
<1>2. current \in Loop /\ latest <= latest'
  BY DEF TypeOK
<1>3. CASE l = current
  <2>1. \A m : Mine(m)' = {}
    BY <1>1, <1>3, MineGone
  <2>2. ASSUME NEW m \in Monitor, HasPassed(m)' PROVE HasPassed(m)
    <3>1. pc = "call"
      BY <1>1, <1>3, <2>2 DEF HasPassed
    <3>2. Mine(m) = {}
      BY <1>3, <3>1, NoneOfMine
    <3> QED
      BY <1>3, <3>1, <3>2 DEF HasPassed, Running
  <2> QED
    BY <1>1, <1>2, <1>3, <2>1, <2>2 DEF Unnoticed, Running
<1>4. CASE l # current
  <2>1. \A m : Mine(m)' = Mine(m)
    BY <1>1, <1>2, <1>4, MineElse
  <2> QED
    BY <1>1, <1>2, <1>4, <2>1, SamePlace
<1> QED
  BY <1>3, <1>4

\* The loops.
LEMMA LoopSeen ==
  ASSUME TypeOK, TypeOK', Match, Known, NEW l \in Loop,
         LoopStep(l) \/ LoopExits(l) \/ Rebuild(l), ~stray'
  PROVE  OneHandler' /\ MineKnown' /\ (Unnoticed \/ Noticed)
<1> USE DEF vars, world, service, store, history
<1>0. OneHandler /\ MineKnown /\ current \in Loop
  <2>1. stray' = stray
    BY DEF LoopStep, StartLoop, BeginBlock, NextPhase, BeginPhase, PersistBlock, Rejected,
           Retire, LoopExits, Rebuild
  <2> QED
    BY <2>1 DEF Known, TypeOK
<1>s. latest' = latest => latest <= latest'
  BY DEF TypeOK
<1>m. ASSUME \A m \in Monitor : Mine(m)' \subseteq Mine(m), UNCHANGED <<kv, incident>>
      PROVE  OneHandler' /\ MineKnown'
  BY <1>0, <1>m, HandlersStay, OneHandlerStays
<1>1. ASSUME UNCHANGED <<chain, latest, current, tasks, kv, incident>>,
             \A k \in Loop : loop'[k].attempt = loop[k].attempt
      PROVE  (\A m : Mine(m)' = Mine(m)) /\ OneHandler' /\ MineKnown'
  <2>1. \A m : Mine(m)' = Mine(m)
    BY <1>0, <1>1, MineElse
  <2> QED
    BY <1>1, <1>m, <2>1
<1>2. CASE StartLoop(l)
  <2>1. /\ \A k \in Loop : loop'[k].attempt = loop[k].attempt
        /\ loop'[l].pc = "ready" /\ loop'[l].next = FirstBlock(l)
        /\ \A k \in Loop \ {l} : loop'[k] = loop[k]
    BY <1>2 DEF StartLoop, TypeOK, LoopState
  <2>2. (\A m : Mine(m)' = Mine(m)) /\ OneHandler' /\ MineKnown'
    BY <1>1, <1>2, <2>1 DEF StartLoop
  <2>3. CASE l = current
    BY <1>2, <2>1, <2>2, <2>3 DEF StartLoop, Starts, Noticed
  <2>4. CASE l # current
    BY <1>0, <1>2, <1>s, <2>1, <2>2, <2>4, SamePlace DEF StartLoop
  <2> QED
    BY <2>2, <2>3, <2>4
<1>3. CASE LoopExits(l) \/ Retire(l)
  <2>1. /\ \A k \in Loop : loop'[k].attempt = loop[k].attempt
        /\ l = current => loop'[l].pc = "exited"
        /\ \A k \in Loop \ {l} : loop'[k] = loop[k]
    BY <1>3 DEF LoopExits, Retire, TypeOK, LoopState, IsRunning
  <2>2. UNCHANGED <<chain, latest, current, watermark, tasks, kv, incident, restarts>>
    BY <1>3 DEF LoopExits, Retire
  <2>3. (\A m : Mine(m)' = Mine(m)) /\ OneHandler' /\ MineKnown'
    BY <1>1, <2>1, <2>2
  <2>4. CASE l = current
    BY <2>1, <2>2, <2>3, <2>4 DEF StopsAnyhow, Noticed, Running
  <2>5. CASE l # current
    BY <1>0, <1>s, <2>1, <2>2, <2>3, <2>5, SamePlace
  <2> QED
    BY <2>3, <2>4, <2>5
<1>4. CASE BeginBlock(l) \/ NextPhase(l)
  <2>1. PICK kind \in Kind : BeginPhase(l, kind) /\ (loop[l].pc = "ready" => kind = "state")
                             /\ loop[l].pc \in {"ready", "state", "event"}
                             /\ (loop[l].pc # "ready" => kind # "state")
    BY <1>4 DEF BeginBlock, NextPhase, Kind
  <2>2. Waiting(l) = {}
    BY <1>4, NobodyWaits DEF BeginBlock, NextPhase, Kind
  <2>3. /\ OneHandler'
        /\ l # current => \A m \in Monitor : Mine(m)' = Mine(m)
        /\ \A m \in Monitor : \A t \in Mine(m)' : l = current => kind = "state" /\ t.pc = "begun"
        /\ l = current /\ kind = "state" => \A m \in Monitor : Mine(m)' # {}
    BY <1>0, <2>1, <2>2, OneHandlerBegins
  <2>4. /\ loop'[l].next = loop[l].next /\ loop'[l].pc = kind
        /\ \A k \in Loop \ {l} : loop'[k] = loop[k]
        /\ UNCHANGED <<chain, latest, current, watermark, kv, incident>>
    BY <2>1 DEF BeginPhase, TypeOK, LoopState
  <2>5. MineKnown'
    BY <1>0, <2>3, <2>4, HandlersStay
  <2>6. CASE l = current
    <3>1. ASSUME NEW m \in Monitor, HasPassed(m)' PROVE HasPassed(m)
      <4>1. Mine(m)' = {}
        BY <3>1 DEF HasPassed
      <4>2. kind # "state"
        BY <2>3, <2>6, <4>1
      <4>3. Mine(m) = {}
        BY <2>2, <2>6 DEF Mine
      <4> QED
        BY <2>1, <2>6, <4>2, <4>3 DEF HasPassed, Running
    <3> QED
      BY <1>s, <2>1, <2>3, <2>4, <2>5, <2>6, <3>1 DEF Unnoticed, Running, Kind
  <2>7. CASE l # current
    BY <1>0, <1>s, <2>3, <2>4, <2>5, <2>7, SamePlace
  <2> QED
    BY <2>3, <2>5, <2>6, <2>7
<1>5. CASE Rejected(l)
  <2>1. l # current /\ loop[l].pc \in Running /\ GoOn(l, "ready") /\ tasks' = tasks
        /\ UNCHANGED <<chain, latest, current, watermark, kv, incident>>
    BY <1>5 DEF Rejected, IsRunning, Running
  <2>2. (\A m \in Monitor : Mine(m)' \subseteq Mine(m)) /\ Unnoticed
    BY <2>1, GivenUp
  <2> QED
    BY <1>m, <2>1, <2>2
<1>6. CASE PersistBlock(l)
  <2>1. /\ \A k \in Loop : loop'[k].attempt = loop[k].attempt
        /\ loop'[l].next = loop[l].next /\ loop'[l].pc = "persist" /\ loop[l].pc = "call"
        /\ \A k \in Loop \ {l} : loop'[k] = loop[k]
    BY <1>6 DEF PersistBlock, TypeOK, LoopState
  <2>2. UNCHANGED <<chain, latest, current, watermark, tasks, kv, incident>>
    BY <1>6 DEF PersistBlock
  <2>3. (\A m : Mine(m)' = Mine(m)) /\ OneHandler' /\ MineKnown'
    BY <1>1, <2>1, <2>2
  <2>4. CASE l = current
    BY <1>s, <2>1, <2>2, <2>3, <2>4 DEF Unnoticed, HasPassed, Running
  <2>5. CASE l # current
    BY <1>0, <1>s, <2>1, <2>2, <2>3, <2>5, SamePlace
  <2> QED
    BY <2>3, <2>4, <2>5
<1>7. CASE Rebuild(l)
  <2>1. /\ loop'[l].pc = "starting" /\ current' = l /\ restarts' = restarts + 1 /\ restarts \in Nat
        /\ UNCHANGED <<chain, latest, watermark, tasks, kv, incident>>
    BY <1>7 DEF Rebuild, NewLoop, TypeOK
  <2>2. StopsAnyhow
    BY <2>1 DEF StopsAnyhow, Running
  <2>3. \A m : Mine(m)' = {}
    BY <1>7, <2>1 DEF Mine, Waiting, Rebuild
  <2> QED
    BY <2>2, <2>3, OneHandlerNone, HandlersNone DEF Noticed
<1> QED
  BY <1>2, <1>3, <1>4, <1>5, <1>6, <1>7 DEF LoopStep

LEMMA HandlersStep ==
  ASSUME OneHandler, MineKnown, UNCHANGED <<kv, incident>>,
         \A m \in Monitor : Mine(m)' \subseteq Mine(m)
  PROVE  OneHandler' /\ MineKnown'
  BY HandlersStay, OneHandlerStays

\* Where a handler the current watcher waits for is.
LEMMA MineAt ==
  ASSUME TypeOK, Match, LoopsKnown, NEW m, Mine(m) # {}
  PROVE  /\ loop[current].pc = "state" /\ At <= latest /\ ~HasPassed(m)
         /\ \A t \in Mine(m) : t.block = At
<1>1. current \in Loop
  BY DEF TypeOK
<1>2. ASSUME NEW t \in Mine(m) PROVE loop[current].pc = "state" /\ t.block = At
  BY DEF Mine, Waiting, Match, TasksMatch, At
<1>3. PICK t : t \in Mine(m)
  OBVIOUS
<1>4. loop[current].pc = "state" /\ At <= latest
  BY <1>1, <1>2, <1>3 DEF LoopsKnown, Running, At
<1> QED
  BY <1>2, <1>4 DEF HasPassed

LEMMA HandleSeen ==
  ASSUME TypeOK, TypeOK', Match, OneHandler, EntriesKnown, LoopsKnown, MineKnown, NEW t \in tasks,
         Handle(t)
  PROVE  OneHandler' /\ MineKnown' /\ (Unnoticed \/ Noticed)
<1> USE DEF vars, world, service, store, history
<1>0. /\ UNCHANGED <<chain, latest, loop, current, watermark, kv, incident>> /\ t \in Task
      /\ t.pc = "begun" /\ IsRunning(t.loop) /\ latest <= latest'
  BY DEF Handle, TypeOK
<1>1. CASE t.kind = "state" /\ tasks' # tasks \ {t}
  <2>1. Tracks(t)
    BY <1>1 DEF Handle
  <2>2. PICK op \in {"create", "resolve"}, id \in Nat :
          LET u == [t EXCEPT !.pc = "sent", !.op = op, !.id = id]
          IN /\ tasks' = (tasks \ {t}) \union {u}
             /\ op = "create" => kv[t.monitor] = None \/ kv[t.monitor].isDue
             /\ op = "resolve" => kv[t.monitor] # None /\ id = kv[t.monitor].id
    BY <1>1, <2>1, Asks
  <2> DEFINE u == [t EXCEPT !.pc = "sent", !.op = op, !.id = id]
  <2>3. /\ Follows(t, u) /\ u.pc = "sent" /\ u.op = op /\ u.id = id
        /\ tasks' = (tasks \ {t}) \union {u}
    BY <1>0, <2>2 DEF Task, Follows
  <2> HIDE DEF u
  <2>4. OneHandler'
    BY <1>0, <2>3, OneHandlerMoves
  <2>5. ASSUME NEW m \in Monitor PROVE /\ Mine(m)' = {} => Mine(m) = {}
                                       /\ \A v \in Mine(m)' : v \in Mine(m) \/ (v = u /\ t.monitor = m)
    <3>1. t \in Mine(m) => u \in Mine(m)' /\ Mine(m)' = (Mine(m) \ {t}) \union {u} /\ t.monitor = m
      BY <1>0, <2>3, MineMoves, MineIsOwn
    <3>2. t \notin Mine(m) => Mine(m)' = Mine(m)
      BY <1>0, <2>3, MineMoves
    <3> QED
      BY <3>1, <3>2
  <2>6. HandlerKnown(t.monitor, u)'
    BY <1>0, <2>2, <2>3 DEF HandlerKnown
  <2>7. \A m \in Monitor : \A v \in Mine(m) : HandlerKnown(m, v)'
    BY <1>0 DEF MineKnown, HandlerKnown, OpenOf
  <2>8. MineKnown'
    BY <2>5, <2>6, <2>7 DEF MineKnown
  <2> QED
    BY <1>0, <2>4, <2>5, <2>8, SamePlace
<1>2. CASE t.kind # "state"
  <2>1. PICK u : u = [t EXCEPT !.pc = "sent", !.op = "report", !.id = 0]
    OBVIOUS
  <2>2. tasks' = (tasks \ {t}) \union {u} /\ Follows(t, u)
    BY <1>0, <1>2, <2>1 DEF Handle, Ask, Follows, Task
  <2>3. \A m \in Monitor : Mine(m)' = Mine(m)
    BY <1>0, <1>2, <2>2, MineMoves, MineIsOwn
  <2> QED
    BY <1>0, <2>3, HandlersStep, SamePlace
<1>3. CASE t.kind = "state" /\ tasks' = tasks \ {t}
  <2>1. \A m : Mine(m)' = Mine(m) \ {t}
    BY <1>0, <1>3, MineEnds
  <2>2. OneHandler' /\ MineKnown'
    BY <1>0, <2>1, HandlersStep
  <2>3. CASE ~Awaited(t)
    <3>1. \A m \in Monitor : Mine(m)' = Mine(m)
      BY <2>1, <2>3, MineIs
    <3> QED
      BY <1>0, <2>2, <3>1, SamePlace
  <2>4. CASE Awaited(t)
    <3> DEFINE m == t.monitor
    <3>1. t \in Mine(m) /\ Mine(m) = {t} /\ m \in Monitor
      BY <1>0, <1>3, <2>4, OwnIsMine DEF IsOwn
    <3>2. t.block = At /\ loop[current].pc = "state" /\ At <= latest
      BY <3>1, MineAt
    <3>3. \A n \in Monitor \ {m} : Mine(n)' = Mine(n)
      BY <2>1, MineIs
    <3>4. Moved(m)
      BY <1>0, <3>1, <3>2, <3>3 DEF Moved, HasPassed
    <3>5. IF m \in chain[At].firing THEN kv[m] # None /\ ~kv[m].isDue ELSE kv[m] = None
      <4>1. ASSUME NEW op, NEW id, Ask(t, op, id), t \in tasks, tasks' = tasks \ {t}, op # "none" PROVE FALSE
        <5>1. PICK u : u = [t EXCEPT !.pc = "sent", !.op = op, !.id = id]
          OBVIOUS
        <5>2. u.pc = "sent" /\ u \in tasks'
          BY <1>0, <4>1, <5>1 DEF Ask, Task
        <5>3. u \in Waiting(current) /\ u.kind = "state" /\ u.monitor = m
          BY <1>0, <1>3, <2>4, <4>1, <5>1, <5>2 DEF Waiting, Awaited, Task, IsRunning
        <5>4. u = t
          BY <3>1, <5>3 DEF Mine
        <5> QED
          BY <1>0, <5>2, <5>4
      <4>2. Tracks(t)
        BY <1>3 DEF Handle
      <4> QED
        BY <1>3, <3>2, <4>1, <4>2 DEF Tracks
    <3>6. Leaves(m)
      BY <1>0, <3>4, <3>5 DEF Leaves
    <3> QED
      BY <2>2, <3>1, <3>6 DEF Noticed, Handled
  <2> QED
    BY <2>3, <2>4
<1> QED
  BY <1>1, <1>2, <1>3

LEMMA ServedSeen ==
  ASSUME TypeOK, TypeOK', Match, Known, OneHandler, MineKnown, NEW t \in tasks, Served(t), ~stray'
  PROVE  OneHandler' /\ MineKnown' /\ (Unnoticed \/ Noticed)
<1> USE DEF vars, world, store, history
<1>1. PICK u : u = [t EXCEPT !.pc = "answered", !.id = AnsweredId(t)]
  OBVIOUS
<1>2. /\ t \in Task /\ t.pc = "sent" /\ Serve(t) /\ tasks' = (tasks \ {t}) \union {u}
      /\ UNCHANGED <<chain, latest, loop, current, watermark, kv>> /\ latest <= latest'
  BY <1>1 DEF Served, TypeOK
<1>3. u.pc = "answered" /\ Follows(t, u)
  BY <1>1, <1>2 DEF Task, Follows
<1>4. OneHandler' /\ MineKnown'
  BY <1>2, <1>3, OneHandlerMoves, ServedKnown DEF Known
<1>5. ASSUME NEW m \in Monitor PROVE Mine(m)' = {} => Mine(m) = {}
  BY <1>2, <1>3, MineMoves
<1>6. CASE incident' = incident
  BY <1>2, <1>4, <1>5, <1>6, SamePlace
<1>7. CASE incident' # incident
  <2> DEFINE m == t.monitor
  <2>1. IsOwn(t) /\ t.kind = "state"
    BY <1>7, OthersServed DEF Known
  <2>2. t \in Mine(m) /\ m \in Monitor
    BY <2>1, OwnIsMine DEF Known
  <2>3. TaskKnown(t) /\ HandlerKnown(m, t)
    BY <2>2 DEF Known, TasksKnown, MineKnown
  <2>4. t.block = At /\ loop[current].pc = "state" /\ At <= latest
    BY <2>2, MineAt DEF Known
  <2>5. \A n \in Monitor : HasPassed(n)' => HasPassed(n)
    BY <1>2, <1>5 DEF HasPassed
  <2>6. ~HasPassed(m)
    BY <2>2, MineAt DEF Known
  <2>7. Moved(m) /\ ~HasPassed(m)'
    BY <1>2, <2>2, <2>4, <2>5, <2>6 DEF Moved
  <2>8. CASE t.op = "create"
    <3>1. OpenOf(m) = {} /\ incident' = Append(incident, [monitor |-> m, status |-> "open"])
      BY <1>2, <1>7, <2>8 DEF Serve
    <3>2. m \in chain[At].firing /\ (kv[m] = None \/ kv[m].isDue)
      BY <1>2, <2>3, <2>4, <2>8 DEF TaskKnown, HandlerKnown
    <3> QED
      BY <1>2, <1>4, <2>2, <2>7, <3>1, <3>2 DEF Creates, Handled, Noticed
  <2>9. CASE t.op = "resolve"
    <3>1. /\ incident' = [incident EXCEPT ![t.id].status = "resolved"]
          /\ incident[t.id].status = "open"
      BY <1>2, <1>7, <2>9 DEF Serve
    <3>2. m \notin chain[At].firing /\ kv[m] # None /\ kv[m].id = t.id
      BY <1>2, <2>3, <2>4, <2>9 DEF TaskKnown, HandlerKnown
    <3> QED
      BY <1>2, <1>4, <2>2, <2>7, <3>1, <3>2 DEF Resolves, Handled, Noticed, StatusOf
  <2> QED
    BY <1>2, <1>7, <2>8, <2>9 DEF Serve
<1> QED
  BY <1>6, <1>7

LEMMA AnsweredSeen ==
  ASSUME TypeOK, TypeOK', Match, Known, OneHandler, MineKnown, NEW t \in tasks, Answered(t), ~stray'
  PROVE  OneHandler' /\ MineKnown' /\ (Unnoticed \/ Noticed)
<1> USE DEF vars, world, store, history
<1>1. /\ t \in Task /\ t.pc = "answered" /\ tasks' = tasks \ {t} /\ kv' = Tracked(t)
      /\ UNCHANGED <<chain, latest, loop, current, watermark, incident>> /\ latest <= latest'
  BY DEF Answered, TypeOK, service
<1>2. \A m : Mine(m)' = Mine(m) \ {t}
  BY <1>1, MineEnds
<1>3. OneHandler'
  BY <1>2, OneHandlerStays DEF Known
<1>4. CASE ~IsOwn(t) \/ t.kind # "state"
  <2>1. kv' = kv
    BY <1>4, OthersAnswered DEF Known
  <2>2. \A m \in Monitor : Mine(m)' = Mine(m)
    BY <1>2, <1>4, MineIsOwn
  <2> QED
    BY <1>1, <1>3, <2>1, <2>2, HandlersStay, SamePlace
<1>5. CASE IsOwn(t) /\ t.kind = "state"
  <2> DEFINE m == t.monitor
  <2>1. t \in Mine(m) /\ m \in Monitor /\ Mine(m) = {t}
    BY <1>5, OwnIsMine DEF Known
  <2>2. TaskKnown(t) /\ HandlerKnown(m, t)
    BY <2>1 DEF Known, TasksKnown, MineKnown
  <2>3. t.block = At /\ loop[current].pc = "state" /\ At <= latest
    BY <2>1, MineAt DEF Known
  <2>4. \A n \in Monitor \ {m} : Mine(n)' = Mine(n)
    <3>1. \A n : t \in Mine(n) => n = m
      BY MineIs
    <3> QED
      BY <1>2, <3>1
  <2>5. Moved(m)
    BY <1>1, <2>1, <2>3, <2>4 DEF Moved, HasPassed
  <2>6. \A n \in Monitor \ {m} : kv'[n] = kv[n]
    BY <1>1 DEF Tracked, TypeOK
  <2>7. MineKnown'
    <3>1. Mine(m)' = {}
      BY <1>2, <2>1
    <3>2. ASSUME NEW n \in Monitor, n # m, NEW v \in Mine(n)' PROVE HandlerKnown(n, v)'
      <4>1. HandlerKnown(n, v)
        BY <2>4, <3>2 DEF MineKnown
      <4> QED
        BY <1>1, <2>6, <3>2, <4>1 DEF HandlerKnown, OpenOf
    <3> QED
      BY <3>1, <3>2 DEF MineKnown
  <2>8. CASE t.op = "create"
    <3>1. /\ t.id \in DOMAIN incident /\ incident[t.id].monitor = m
          /\ incident[t.id].status # "resolved" /\ OpenOf(m) \subseteq {t.id}
          /\ m \in chain[At].firing
      BY <1>1, <2>2, <2>3, <2>8 DEF TaskKnown, HandlerKnown
    <3>2. kv' = [kv EXCEPT ![m] = [id |-> t.id, isDue |-> FALSE]]
      BY <1>1, <2>8 DEF Tracked
    <3> QED
      BY <1>1, <1>3, <2>1, <2>5, <2>7, <3>1, <3>2 DEF Records, Handled, Noticed
  <2>9. CASE t.op = "resolve"
    <3>1. /\ m \notin chain[At].firing /\ kv[m] # None /\ StatusOf(m) # "open"
      BY <1>1, <2>2, <2>3, <2>9 DEF TaskKnown, HandlerKnown, StatusOf
    <3>2. kv' = [kv EXCEPT ![m] = None]
      BY <1>1, <2>9 DEF Tracked
    <3> QED
      BY <1>1, <1>3, <2>1, <2>5, <2>7, <3>1, <3>2 DEF Forgets, Handled, Noticed
  <2> QED
    BY <1>1, <1>5, <2>2, <2>8, <2>9 DEF TaskKnown
<1> QED
  BY <1>4, <1>5

LEMMA RejectsSeen ==
  ASSUME TypeOK, TypeOK', Match, OneHandler, MineKnown, NEW t \in tasks, Rejects(t),
         UNCHANGED <<chain, latest, current, watermark, kv, incident>>
  PROVE  OneHandler' /\ MineKnown' /\ (Unnoticed \/ Noticed)
<1>0. t \in Task /\ t.loop \in Loop /\ tasks' = tasks \ {t} /\ latest <= latest'
  BY DEF Rejects, TypeOK, Task
<1>1. Awaited(t) => loop[t.loop].pc = t.kind
  BY DEF Match, TasksMatch
<1>2. ASSUME NEW pc \in {"ready", "call"}, GoOn(t.loop, pc), Awaited(t), pc = "call" => t.kind = "call"
      PROVE  OneHandler' /\ MineKnown' /\ (Unnoticed \/ Noticed)
  <2>1. loop[t.loop].pc \in Running
    BY <1>0, <1>1, <1>2 DEF Task, Kind, Running
  <2>2. /\ \A m \in Monitor : Mine(m)' \subseteq Mine(m)
        /\ Unnoticed
    BY <1>0, <1>1, <1>2, <2>1, GivenUp
  <2> QED
    BY <2>2, HandlersStep
<1>3. CASE UNCHANGED loop /\ (Awaited(t) => t.kind = "call")
  <2>1. \A m : Mine(m)' = Mine(m) \ {t}
    BY <1>0, <1>3, MineEnds
  <2>2. \A m : t \notin Mine(m)
    BY <1>3, MineIs
  <2>3. \A m \in Monitor : Mine(m)' = Mine(m)
    BY <2>1, <2>2
  <2> QED
    BY <1>0, <1>3, <2>3, HandlersStep, SamePlace
<1> QED
  BY <1>2, <1>3 DEF Rejects

LEMMA HandlerSeen ==
  ASSUME TypeOK, TypeOK', Match, Known, ~stray, NEW t \in tasks,
         HandlerStep(t) \/ HandlerFails(t) \/ HandlerHangs(t), ~stray'
  PROVE  OneHandler' /\ MineKnown' /\ (Unnoticed \/ Noticed)
<1> USE DEF vars, world, service, store, history
<1>0. OneHandler /\ EntriesKnown /\ LoopsKnown /\ MineKnown /\ t \in Task
  BY DEF Known, TypeOK
<1>1. CASE Handle(t)
  BY <1>0, <1>1, HandleSeen
<1>2. CASE Served(t)
  BY <1>0, <1>2, ServedSeen
<1>3. CASE Answered(t)
  BY <1>0, <1>3, AnsweredSeen
<1>4. CASE HandlerRejected(t) \/ HandlerFails(t)
  <2>1. Rejects(t) /\ UNCHANGED <<chain, latest, current, watermark, kv, incident>>
    BY <1>4 DEF HandlerRejected, HandlerFails
  <2> QED
    BY <1>0, <2>1, RejectsSeen
<1>5. CASE HandlerHangs(t)
  <2>1. PICK u : u = [t EXCEPT !.pc = "hung"]
    OBVIOUS
  <2>2. /\ tasks' = (tasks \ {t}) \union {u} /\ latest <= latest'
        /\ UNCHANGED <<chain, latest, loop, current, watermark, kv, incident>>
    BY <1>5, <2>1 DEF HandlerHangs, TypeOK
  <2>3. Follows(t, u) /\ u.pc = "hung"
    BY <1>0, <2>1 DEF Follows, Task
  <2>4. ASSUME NEW m \in Monitor
        PROVE  (Mine(m)' = {} => Mine(m) = {}) /\ \A v \in Mine(m)' : v \in Mine(m) \/ v = u
    BY <2>2, <2>3, MineMoves
  <2>5. OneHandler'
    BY <1>0, <2>2, <2>3, OneHandlerMoves
  <2>6. MineKnown'
    BY <1>0, <2>2, <2>3, <2>4, HandlersStay
  <2> QED
    BY <2>2, <2>4, <2>5, <2>6, SamePlace
<1> QED
  BY <1>1, <1>2, <1>3, <1>4, <1>5 DEF HandlerStep

LEMMA PutSeen ==
  ASSUME TypeOK, TypeOK', Match, Known, ~stray, NEW p \in puts, PutStep(p) \/ PutFails(p), ~stray'
  PROVE  OneHandler' /\ MineKnown' /\ (Unnoticed \/ Noticed)
<1> USE DEF vars, world, service, store, history
<1>0. /\ OneHandler /\ LoopsKnown /\ MineKnown /\ p \in Put /\ current \in Loop
      /\ UNCHANGED <<chain, latest, current, tasks, kv, incident>> /\ latest <= latest'
  BY DEF Known, TypeOK, PutStep, PutRead, PutWrite, PutAnswered, PutFails
<1>1. ASSUME \A l \in Loop : loop'[l].attempt = loop[l].attempt
      PROVE  (\A m \in Monitor : Mine(m)' = Mine(m)) /\ OneHandler' /\ MineKnown'
  <2>1. \A m \in Monitor : Mine(m)' = Mine(m)
    BY <1>0, <1>1, MineElse
  <2> QED
    BY <1>0, <2>1, HandlersStep
<1>2. CASE PutRead(p)
  BY <1>0, <1>1, <1>2, SamePlace DEF PutRead
<1>3. CASE PutWrite(p)
  <2>1. loop' = loop
    BY <1>3 DEF PutWrite
  <2>2. CASE watermark' = watermark
    BY <1>0, <1>1, <2>1, <2>2, SamePlace
  <2>3. CASE watermark' # watermark
    <3>1. IsOwn(p) /\ watermark' = p.block
      BY <1>3, <2>3 DEF PutWrite
    <3>2. p.loop = current /\ p.block = At /\ loop[current].pc = "persist"
      BY <1>0, <3>1, ConstantsAssumption DEF IsOwn, IsRunning, LoopsKnown, Match, PutsMatch, At
    <3> QED
      BY <1>0, <1>1, <2>1, <2>3, <3>1, <3>2 DEF Stores, Noticed
  <2> QED
    BY <2>2, <2>3
<1>4. CASE PutAnswered(p)
  <2>1. p.loop \in Loop /\ Awaited(p) /\ p.pc = "answered"
    BY <1>0, <1>4 DEF PutAnswered, Awaited, Put
  <2>2. /\ \A l \in Loop : loop'[l].attempt = loop[l].attempt
        /\ \A l \in Loop \ {p.loop} : loop'[l] = loop[l]
        /\ loop'[p.loop].pc = "ready" /\ loop'[p.loop].next = p.block + 1
        /\ watermark' = watermark
    BY <1>4, <2>1 DEF PutAnswered, Awaited, TypeOK
  <2>3. CASE p.loop = current
    <3>1. p.block = At /\ loop[current].pc = "persist" /\ IsOwn(p)
      BY <1>0, <2>1, <2>3, ConstantsAssumption
         DEF IsOwn, IsRunning, LoopsKnown, Match, PutsMatch, At
    <3>2. Moves
      BY <1>0, <2>1, <2>2, <2>3, <3>1 DEF Moves
    <3> QED
      BY <1>1, <2>2, <3>2 DEF Noticed
  <2>4. CASE p.loop # current
    BY <1>0, <1>1, <2>2, <2>4, SamePlace
  <2> QED
    BY <2>3, <2>4
<1>5. CASE PutFails(p)
  <2>1. Awaited(p) /\ GoOn(p.loop, "ready") /\ watermark' = watermark
    BY <1>5 DEF PutFails
  <2>2. p.loop \in Loop /\ loop[p.loop].pc \in Running
    BY <1>0, <2>1 DEF Match, PutsMatch, Awaited, Put, Running
  <2>3. /\ \A m \in Monitor : Mine(m)' \subseteq Mine(m)
        /\ Unnoticed
    BY <1>0, <2>1, <2>2, GivenUp
  <2> QED
    BY <1>0, <2>3, HandlersStep
<1> QED
  BY <1>2, <1>3, <1>4, <1>5 DEF PutStep

LEMMA WorldSeen ==
  ASSUME TypeOK, TypeOK', Match, Known, ~stray, ~stray',
         \/ \E t \in late : ServedLate(t)
         \/ \E m \in Lasting : RecheckDue(m)
         \/ \E i \in DOMAIN incident : ManualResolve(i)
         \/ PersistTimer \/ NewBlock \/ Crash
  PROVE  OneHandler' /\ MineKnown' /\ (Unnoticed \/ Noticed)
<1> USE DEF vars, world, service, store, history
<1>0. OneHandler /\ MineKnown /\ current \in Loop
  BY DEF Known, TypeOK
<1>1. ASSUME UNCHANGED <<loop, current, tasks>> PROVE (\A m : Mine(m)' = Mine(m)) /\ OneHandler'
  <2>1. \A m : Mine(m)' = Mine(m)
    BY <1>1 DEF Mine, Waiting, Awaited
  <2> QED
    BY <1>0, <2>1, OneHandlerStays
<1>2. CASE (\E t \in late : ServedLate(t)) \/ PersistTimer \/ NewBlock
  <2>1. UNCHANGED <<chain, loop, current, tasks, watermark, kv, incident>> /\ latest <= latest'
    BY <1>2 DEF ServedLate, PersistTimer, NewBlock, TypeOK
  <2> QED
    BY <1>0, <1>1, <2>1, HandlersStay, SamePlace
<1>3. ASSUME NEW m \in Lasting, RecheckDue(m)
      PROVE  OneHandler' /\ MineKnown' /\ (Unnoticed \/ Noticed)
  <2>1. m \in Monitor /\ kv[m] # None /\ kv' = [kv EXCEPT ![m].isDue = TRUE]
    BY <1>3, ConstantsAssumption DEF RecheckDue
  <2>2. Falls(m)
    BY <1>3, <2>1 DEF RecheckDue, Falls
  <2>3. /\ \A n \in Monitor : (kv[n] # None /\ kv'[n] # None) \/ kv'[n] = kv[n]
        /\ \A n \in Monitor : kv[n] # None => kv'[n].id = kv[n].id
        /\ \A n \in Monitor : kv[n] # None /\ kv[n].isDue => kv'[n].isDue
    <3>1. kv \in [Monitor -> OngoingIncident \union {None}] /\ kv[m] \in OngoingIncident
      BY <2>1 DEF TypeOK
    <3>2. kv'[m] \in OngoingIncident /\ kv'[m].id = kv[m].id /\ kv'[m].isDue = TRUE
      BY <2>1, <3>1 DEF OngoingIncident
    <3>3. \A n \in Monitor \ {m} : kv'[n] = kv[n]
      BY <2>1, <3>1
    <3>4. kv'[m] # None
      BY <3>2, ConstantsAssumption
    <3> QED
      BY <2>1, <3>2, <3>3, <3>4
  <2>4. (\A n : Mine(n)' = Mine(n)) /\ OneHandler' /\ incident' = incident
    BY <1>1, <1>3 DEF RecheckDue
  <2>5. ASSUME NEW n \in Monitor, NEW v, HandlerKnown(n, v) PROVE HandlerKnown(n, v)'
    BY <2>3, <2>4, <2>5 DEF HandlerKnown, OpenOf
  <2>6. MineKnown'
    BY <1>0, <2>4, <2>5 DEF MineKnown
  <2> QED
    BY <2>1, <2>2, <2>4, <2>6 DEF Noticed
<1>4. ASSUME NEW i \in DOMAIN incident, ManualResolve(i)
      PROVE  OneHandler' /\ MineKnown' /\ (Unnoticed \/ Noticed)
  <2>1. /\ incident' = [incident EXCEPT ![i].status = "manual"] /\ incident[i].status = "open"
        /\ kv' = kv
    BY <1>4 DEF ManualResolve
  <2>2. (\A n : Mine(n)' = Mine(n)) /\ OneHandler'
    BY <1>1, <1>4 DEF ManualResolve
  <2>3. Closed(i)
    BY <1>4, <2>1 DEF ManualResolve, Closed
  <2>4. /\ DOMAIN incident' = DOMAIN incident
        /\ incident'[i].status = "manual" /\ incident'[i].monitor = incident[i].monitor
        /\ \A j \in DOMAIN incident : j # i => incident'[j] = incident[j]
    BY <2>1, Closes
  <2>5. ASSUME NEW n \in Monitor, NEW v \in Mine(n) PROVE HandlerKnown(n, v)'
    <3>1. HandlerKnown(n, v) /\ TaskKnown(v)
      BY <1>0 DEF MineKnown, Known, TasksKnown, Mine, Waiting
    <3>2. OpenOf(n)' \subseteq OpenOf(n)
      BY <2>4 DEF OpenOf
    <3> QED
      BY <2>1, <2>4, <3>1, <3>2 DEF HandlerKnown, TaskKnown
  <2>6. MineKnown'
    BY <2>2, <2>5 DEF MineKnown
  <2> QED
    BY <2>1, <2>2, <2>3, <2>6 DEF Noticed
<1>5. CASE Crash
  <2>1. /\ loop'[1].pc = "boot" /\ current' = 1 /\ tasks' = {} /\ kv' = [m \in Monitor |-> None]
        /\ restarts' = restarts + 1 /\ restarts \in Nat
        /\ UNCHANGED <<chain, latest, watermark, incident>>
    BY <1>5 DEF Crash, NewLoop, TypeOK
  <2>2. StopsAnyhow
    BY <2>1 DEF StopsAnyhow, Running
  <2>3. \A m \in Monitor : Mine(m)' = {}
    BY <2>1 DEF Mine, Waiting
  <2> QED
    BY <2>2, <2>3, OneHandlerNone, HandlersNone DEF Noticed
<1> QED
  BY <1>2, <1>3, <1>4, <1>5

-----------------------------------------------------------------------------
(***************************************************************************)
(* The block stored, and the request to store the next.                    *)
(***************************************************************************)
LEMMA StoreSame ==
  ASSUME TypeOK, TypeOK', StoreKnown, UNCHANGED <<current, watermark>>, latest <= latest',
         \/ loop'[current].pc = loop[current].pc
         \/ {loop[current].pc, loop'[current].pc} \subseteq Running,
         loop'[current].next = loop[current].next,
         \A p \in puts' : IsOwn(p)' => p.pc = "sent" \/ (p \in puts /\ IsOwn(p))
  PROVE  StoreKnown'
<1>1. Position' = Position
  BY DEF Position, Running
<1>2. latest \in Nat /\ latest' \in Nat /\ watermark \in Nat
  BY DEF TypeOK
<1>3. Position' \in {watermark, watermark + 1}' /\ watermark' <= latest'
  BY <1>1, <1>2 DEF StoreKnown
<1>4. \A p \in puts' : IsOwn(p)' => /\ p.pc = "read" => p.seen = watermark'
                                    /\ p.pc = "answered" => Position' = watermark'
  BY <1>1 DEF StoreKnown
<1> QED
  BY <1>3, <1>4 DEF StoreKnown

LEMMA StoreAfresh ==
  ASSUME StoreKnown, Position' = watermark, UNCHANGED <<latest, watermark>>,
         \A p \in puts' : ~IsOwn(p)'
  PROVE  StoreKnown'
  BY DEF StoreKnown

\* The loop of l gives its attempt up, or is a new one.
LEMMA PutsDropped ==
  ASSUME TypeOK, TypeOK', Match, NEW l \in Loop, loop'[l].attempt > loop[l].attempt, puts' \subseteq puts
  PROVE  \A p \in puts' : p.loop = l => ~Awaited(p)'
<1>1. ASSUME NEW p \in puts', p.loop = l PROVE p.attempt # loop'[l].attempt
  <2>1. p.attempt <= loop[l].attempt
    BY <1>1, ConstantsAssumption DEF Match, PutsMatch
  <2>2. p.attempt \in Nat /\ loop[l].attempt \in Nat /\ loop'[l].attempt \in Nat
    BY DEF TypeOK, Put, LoopState
  <2> QED
    BY <2>1, <2>2
<1> QED
  BY <1>1 DEF Awaited

LEMMA StoreGivenUp ==
  ASSUME TypeOK, TypeOK', Match, StoreKnown, NEW l \in Loop, NEW pc \in {"ready", "call"}, GoOn(l, pc),
         loop[l].pc \in Running, UNCHANGED <<latest, current, watermark>>, puts' \subseteq puts
  PROVE  StoreKnown'
<1>1. /\ loop'[l].attempt > loop[l].attempt /\ loop'[l].next = loop[l].next /\ loop'[l].pc = pc
      /\ \A k \in Loop \ {l} : loop'[k] = loop[k]
  BY GoesOn
<1>2. current \in Loop /\ latest <= latest'
  BY DEF TypeOK
<1>3. \A p \in puts' : p.loop = l => ~Awaited(p)'
  BY <1>1, PutsDropped
<1>4. \A p \in puts' : IsOwn(p)' => p \in puts /\ IsOwn(p)
  BY <1>1, <1>2, <1>3 DEF IsOwn, IsRunning, Awaited
<1> QED
  BY <1>1, <1>2, <1>4, StoreSame DEF Running

LEMMA StoreStep ==
  ASSUME TypeOK, TypeOK', Match, LoopsKnown, StoreKnown, StartBlock = None, Next, ~stray'
  PROVE  StoreKnown'
<1> USE DEF vars, world, service, store, history
<1>c. current \in Loop /\ current # None /\ latest <= latest
  BY ConstantsAssumption DEF TypeOK
<1>s. ASSUME UNCHANGED <<latest, current, loop, watermark, puts>> PROVE StoreKnown'
  <2>1. \A p \in puts' : IsOwn(p)' => p \in puts /\ IsOwn(p)
    BY <1>s DEF IsOwn, Awaited, IsRunning
  <2> QED
    BY <1>c, <1>s, <2>1, StoreSame
<1>o. ASSUME NEW l \in Loop, l # current, \A k \in Loop \ {l} : loop'[k] = loop[k],
             UNCHANGED <<latest, current, watermark>>,
             \A p \in puts' : p \in puts \/ p.pc = "sent"
      PROVE  StoreKnown'
  <2>1. \A p \in puts' : IsOwn(p)' => p.pc = "sent" \/ (p \in puts /\ IsOwn(p))
    BY <1>o, <1>c DEF IsOwn, Awaited, IsRunning
  <2> QED
    BY <1>c, <1>o, <2>1, StoreSame
<1>1. ASSUME NEW l \in Loop, StartLoop(l) PROVE StoreKnown'
  <2>1. /\ loop'[l].pc = "ready" /\ loop'[l].next = watermark /\ loop'[l].attempt = loop[l].attempt
        /\ \A k \in Loop \ {l} : loop'[k] = loop[k]
        /\ UNCHANGED <<latest, current, watermark, puts>>
    BY <1>1 DEF StartLoop, FirstBlock, TypeOK, LoopState
  <2>2. CASE l = current
    <3>0. \A p \in puts : p.loop = l => ~Awaited(p)
      BY <1>1, NothingStored DEF StartLoop
    <3>1. \A p \in puts' : ~IsOwn(p)'
      BY <2>1, <2>2, <3>0 DEF IsOwn, IsRunning, Awaited
    <3>2. Position' = watermark
      BY <2>1, <2>2 DEF Position, Running
    <3> QED
      BY <2>1, <3>1, <3>2, StoreAfresh
  <2> QED
    BY <1>o, <2>1, <2>2
<1>2. ASSUME NEW l \in Loop, LoopExits(l) \/ Retire(l) PROVE StoreKnown'
  <2>1. /\ loop'[l].attempt = loop[l].attempt /\ loop'[l].pc \in {"exited", "off"}
        /\ \A k \in Loop \ {l} : loop'[k] = loop[k]
        /\ UNCHANGED <<latest, current, watermark, puts>>
    BY <1>2 DEF LoopExits, Retire, TypeOK, LoopState
  <2>2. CASE l = current
    <3>1. loop[l].pc # "persist"
      BY <1>2 DEF LoopExits, Retire
    <3>2. \A p \in puts' : ~IsOwn(p)'
      BY <2>1, <2>2, <3>1, NothingStored DEF IsOwn, IsRunning, Awaited
    <3>3. Position' = watermark
      BY <2>1, <2>2 DEF Position, Running
    <3> QED
      BY <2>1, <3>2, <3>3, StoreAfresh
  <2> QED
    BY <1>o, <2>1, <2>2
<1>3. ASSUME NEW l \in Loop, BeginBlock(l) \/ NextPhase(l) \/ PersistBlock(l) PROVE StoreKnown'
  <2>0. PICK pc \in Running : loop' = [loop EXCEPT ![l].pc = pc]
    BY <1>3 DEF BeginBlock, NextPhase, BeginPhase, PersistBlock, Running
  <2>p. loop[l].pc \in Running /\ UNCHANGED <<latest, current, watermark>>
    BY <1>3 DEF BeginBlock, NextPhase, BeginPhase, PersistBlock, Running
  <2>1. /\ loop'[l].attempt = loop[l].attempt /\ loop'[l].next = loop[l].next
        /\ {loop[l].pc, loop'[l].pc} \subseteq Running
        /\ \A k \in Loop \ {l} : loop'[k] = loop[k]
        /\ UNCHANGED <<latest, current, watermark>>
    BY <2>0, <2>p DEF TypeOK, LoopState
  <2>2. \A p \in puts' : p \in puts \/ p.pc = "sent"
    BY <1>3 DEF BeginBlock, NextPhase, BeginPhase, PersistBlock, PutOf
  <2>3. CASE l = current
    <3>1. \A p \in puts' : IsOwn(p)' => p.pc = "sent" \/ (p \in puts /\ IsOwn(p))
      BY <2>1, <2>2, <2>3 DEF IsOwn, Awaited, IsRunning
    <3> QED
      BY <1>c, <2>1, <2>3, <3>1, StoreSame
  <2> QED
    BY <1>o, <2>1, <2>2, <2>3
<1>4. ASSUME NEW l \in Loop, Rejected(l) PROVE StoreKnown'
  BY <1>4, StoreGivenUp DEF Rejected, Running
<1>5. ASSUME NEW l \in Loop, Rebuild(l) PROVE StoreKnown'
  <2>1. /\ loop'[l].attempt > loop[l].attempt /\ loop'[l].pc = "starting" /\ current' = l
        /\ UNCHANGED <<latest, watermark, puts>>
    BY <1>5 DEF Rebuild, NewLoop, TypeOK, LoopState
  <2>2. \A p \in puts' : ~IsOwn(p)'
    BY <2>1, PutsDropped DEF IsOwn, IsRunning
  <2>3. Position' = watermark
    BY <2>1 DEF Position, Running
  <2> QED
    BY <2>1, <2>2, <2>3, StoreAfresh
<1>6. ASSUME NEW t \in tasks, HandlerStep(t) \/ HandlerFails(t) \/ HandlerHangs(t) PROVE StoreKnown'
  <2>1. UNCHANGED <<latest, current, watermark, puts>> /\ (loop' = loop \/ Rejects(t))
    BY <1>6 DEF HandlerStep, Handle, Served, Answered, HandlerRejected, HandlerFails, HandlerHangs
  <2>2. t.loop \in Loop /\ (Awaited(t) => loop[t.loop].pc \in Running)
    BY DEF TypeOK, Task, Match, TasksMatch, Kind, Running
  <2>3. CASE GoOn(t.loop, "ready") /\ Awaited(t)
    BY <2>1, <2>2, <2>3, StoreGivenUp
  <2>4. CASE GoOn(t.loop, "call") /\ Awaited(t)
    BY <2>1, <2>2, <2>4, StoreGivenUp
  <2> QED
    BY <1>s, <2>1, <2>3, <2>4 DEF Rejects
<1>7. ASSUME NEW p \in puts, PutRead(p) PROVE StoreKnown'
  <2>1. p \in Put /\ UNCHANGED <<latest, current, loop, watermark>>
    BY <1>7 DEF PutRead, TypeOK
  <2>2. \A q \in puts' : q \in puts \/ (q.pc = "read" /\ q.seen = watermark)
    BY <1>7, <2>1 DEF PutRead, Put
  <2> QED
    BY <2>1, <2>2 DEF StoreKnown, IsOwn, Awaited, IsRunning, Position
<1>8. ASSUME NEW p \in puts, PutWrite(p) PROVE StoreKnown'
  <2>1. p \in Put /\ p.pc = "read" /\ UNCHANGED <<latest, current, loop>>
    BY <1>8 DEF PutWrite, TypeOK
  <2>2. PICK r : r = [p EXCEPT !.pc = "answered"]
    OBVIOUS
  <2>3. puts' \subseteq (puts \ {p}) \union {r} /\ r.loop = p.loop /\ r.attempt = p.attempt
    BY <1>8, <2>1, <2>2 DEF PutWrite, Put
  <2>5. CASE ~IsOwn(p)
    <3>1. watermark' = watermark
      BY <1>8, <2>5 DEF PutWrite
    <3>2. \A q \in puts' : IsOwn(q)' => q \in puts /\ IsOwn(q)
      BY <2>1, <2>3, <2>5 DEF IsOwn, Awaited, IsRunning
    <3> QED
      BY <1>c, <2>1, <3>1, <3>2, StoreSame
  <2>6. CASE IsOwn(p)
    <3>1. /\ p.loop = current /\ p.block = loop[current].next /\ loop[current].pc = "persist"
          /\ p.seen = watermark /\ loop[current].next <= latest
      BY <1>c, <2>1, <2>6, ConstantsAssumption
         DEF IsOwn, IsRunning, LoopsKnown, Match, PutsMatch, StoreKnown, Running
    <3>2. Position = loop[current].next /\ Position' = loop[current].next
      BY <2>1, <3>1 DEF Position, Running
    <3>3. watermark' = Position /\ watermark \in Nat
      BY <1>8, <3>1, <3>2 DEF PutWrite, StoreKnown, TypeOK
    <3>4. ASSUME NEW q \in puts', IsOwn(q)' PROVE q = r
      <4>1. q \in puts /\ q # p => q.loop # p.loop \/ ~Awaited(q)
        BY <2>6 DEF Match, PutsMatch, IsOwn
      <4> QED
        BY <2>1, <2>3, <3>1, <3>4, <4>1 DEF IsOwn, Awaited, IsRunning
    <3>5. r.pc = "answered"
      BY <2>1, <2>2 DEF Put
    <3> QED
      BY <2>1, <3>1, <3>2, <3>3, <3>4, <3>5 DEF StoreKnown
  <2> QED
    BY <2>5, <2>6
<1>9. ASSUME NEW p \in puts, PutAnswered(p) PROVE StoreKnown'
  <2>1. /\ p \in Put /\ p.loop \in Loop /\ Awaited(p) /\ p.pc = "answered" /\ puts' = puts \ {p}
        /\ UNCHANGED <<latest, current, watermark>>
    BY <1>9 DEF PutAnswered, Awaited, TypeOK, Put
  <2>2. /\ \A l \in Loop : loop'[l].attempt = loop[l].attempt
        /\ \A l \in Loop \ {p.loop} : loop'[l] = loop[l]
        /\ loop'[p.loop].pc = "ready" /\ loop'[p.loop].next = p.block + 1
    BY <1>9, <2>1 DEF PutAnswered, Awaited, TypeOK
  <2>3. CASE p.loop = current
    <3>1. p.block = loop[current].next /\ loop[current].pc = "persist" /\ IsOwn(p)
      BY <2>1, <2>3, <1>c DEF IsOwn, IsRunning, LoopsKnown, Match, PutsMatch
    <3>2. loop[current].next = watermark
      BY <2>1, <3>1 DEF StoreKnown, Position, Running
    <3>3. Position' = watermark + 1
      BY <2>1, <2>2, <2>3, <3>1, <3>2 DEF Position, Running
    <3>4. \A q \in puts' : ~IsOwn(q)'
      BY <2>1, <2>2, <2>3 DEF IsOwn, IsRunning, Awaited, Match, PutsMatch
    <3> QED
      BY <2>1, <3>3, <3>4 DEF StoreKnown
  <2>4. CASE p.loop # current
    BY <1>o, <2>1, <2>2, <2>4
  <2> QED
    BY <2>3, <2>4
<1>10. ASSUME NEW p \in puts, PutFails(p) PROVE StoreKnown'
  <2>1. /\ p.loop \in Loop /\ loop[p.loop].pc \in Running /\ GoOn(p.loop, "ready")
        /\ puts' \subseteq puts /\ UNCHANGED <<latest, current, watermark>>
    BY <1>10 DEF PutFails, Awaited, TypeOK, Put, Match, PutsMatch, Running
  <2> QED
    BY <2>1, StoreGivenUp
<1>11. ASSUME NEW t \in late, ServedLate(t) PROVE StoreKnown'
  BY <1>s, <1>11 DEF ServedLate
<1>12. ASSUME NEW m \in Lasting, RecheckDue(m) PROVE StoreKnown'
  BY <1>s, <1>12 DEF RecheckDue
<1>13. ASSUME NEW i \in DOMAIN incident, ManualResolve(i) PROVE StoreKnown'
  BY <1>s, <1>13 DEF ManualResolve
<1>14. ASSUME PersistTimer \/ NewBlock PROVE StoreKnown'
  <2>1. UNCHANGED <<current, loop, watermark>> /\ latest <= latest'
    BY <1>14 DEF PersistTimer, NewBlock, TypeOK
  <2>2. \A p \in puts' : p \in puts \/ p.pc = "sent"
    BY <1>14 DEF PersistTimer, NewBlock, PutOf
  <2>3. \A p \in puts' : IsOwn(p)' => p.pc = "sent" \/ (p \in puts /\ IsOwn(p))
    BY <2>1, <2>2 DEF IsOwn, IsRunning, Awaited
  <2> QED
    BY <2>1, <2>3, StoreSame
<1>15. ASSUME Crash PROVE StoreKnown'
  <2>1. /\ loop'[1].pc = "boot" /\ loop'[1].attempt > loop[1].attempt /\ current' = 1
        /\ UNCHANGED <<latest, watermark>> /\ puts' \subseteq puts
    BY <1>15 DEF Crash, NewLoop, TypeOK, LoopState
  <2>2. \A p \in puts' : ~IsOwn(p)'
    BY <2>1, PutsDropped DEF IsOwn, IsRunning
  <2>3. Position' = watermark
    BY <2>1 DEF Position, Running
  <2> QED
    BY <2>1, <2>2, <2>3, StoreAfresh
<1> QED
  BY <1>1, <1>2, <1>3, <1>4, <1>5, <1>6, <1>7, <1>8, <1>9, <1>10, <1>11, <1>12, <1>13, <1>14,
     <1>15 DEF Next, LoopStep, PutStep

-----------------------------------------------------------------------------
(***************************************************************************)
(* The entries and the incidents agree with the blocks, past the stored    *)
(* one too.                                                                *)
(***************************************************************************)
\* An open incident belongs to the block stored or to the one after.
OpenHasCause(m) == OpenOf(m) # {} => Fires(m, watermark) \/ Fires(m, watermark + 1)

\* Past the stored block, the process does not know of an incident only when it
\* has it to create.
UnknownHasCause(m) ==
  kv[m] = None /\ OpenOf(m) # {} /\ Position = watermark + 1 => Fires(m, Position)

\* The entry of a resolved incident is one to be dropped.
ResolvedHasCause(m) ==
  kv[m] # None /\ StatusOf(m) = "resolved" => Rests(m, Position) \/ Rests(m, watermark + 1)

\* An entry for another incident than the open one is to be rechecked.
OtherIsDue(m) ==
  kv[m] # None /\ ~(OpenOf(m) \subseteq {kv[m].id}) =>
    kv[m].isDue /\ (Position = watermark + 1 => Fires(m, Position))

\* Past the stored block, there is an entry where the condition holds.
EntryHasCause(m) ==
  Position = watermark + 1 =>
    IF kv[m] # None THEN Fires(m, watermark) \/ Fires(m, Position)
    ELSE Rests(m, watermark) \/ Rests(m, Position)

\* A condition the attempt is done with has its entry and its incident, but for
\* what an attempt at the next block has done before it was given up.
PassedAgrees(m) ==
  HasPassed(m) =>
    /\ Fires(m, Position) =>
         /\ kv[m] # None /\ OpenOf(m) \subseteq {kv[m].id}
         /\ StatusOf(m) = "resolved" => Position = watermark /\ Rests(m, watermark + 1)
    /\ Rests(m, Position) =>
         /\ kv[m] = None
         /\ OpenOf(m) # {} => Position = watermark /\ Fires(m, watermark + 1)

Agrees(m) ==
  /\ OpenHasCause(m) /\ UnknownHasCause(m) /\ ResolvedHasCause(m)
  /\ OtherIsDue(m) /\ EntryHasCause(m) /\ PassedAgrees(m)

Agreement == StoreKnown /\ \A m \in Monitor : Agrees(m)

LEMMA Numbers == TypeOK => Position \in Nat /\ watermark \in Nat /\ latest \in Nat
<1> SUFFICES ASSUME TypeOK PROVE Position \in Nat /\ watermark \in Nat /\ latest \in Nat
  OBVIOUS
<1>1. latest \in Nat /\ watermark \in Nat
  BY DEF TypeOK
<1>2. loop[current].next \in Nat
  BY DEF TypeOK, LoopState
<1> QED
  BY <1>1, <1>2 DEF Position

LEMMA ViewSame ==
  ASSUME TypeOK, LoopsKnown, NEW m \in Monitor, Agrees(m), chain' = chain, latest <= latest',
         latest' \in Nat,
         Position' = Position, watermark' = watermark, kv'[m] = kv[m], OpenOf(m)' = OpenOf(m),
         kv[m] # None => incident'[kv[m].id].status = incident[kv[m].id].status,
         HasPassed(m)' => HasPassed(m)
  PROVE  Agrees(m)'
<1>1. latest \in Nat /\ watermark \in Nat /\ Position \in Nat
  BY DEF TypeOK, Position, LoopState
<1>2. ASSUME NEW b \in Nat
      PROVE  (Fires(m, b) => b <= latest' /\ m \in chain'[b].firing)
             /\ (Rests(m, b) => b <= latest' /\ m \notin chain'[b].firing)
  BY <1>1 DEF Fires, Rests
<1>3. HasPassed(m) => Position <= latest
  BY DEF HasPassed, LoopsKnown, Position, Running, TypeOK
<1>4. kv[m] # None => StatusOf(m)' = StatusOf(m)
  BY DEF StatusOf
<1>5. OpenHasCause(m)'
  BY <1>1, <1>2 DEF Agrees, OpenHasCause, Fires
<1>6. UnknownHasCause(m)'
  BY <1>1, <1>2 DEF Agrees, UnknownHasCause, Fires
<1>7. ResolvedHasCause(m)'
  BY <1>1, <1>2, <1>4 DEF Agrees, ResolvedHasCause, Rests
<1>8. OtherIsDue(m)'
  BY <1>1, <1>2 DEF Agrees, OtherIsDue, Fires
<1>9. EntryHasCause(m)'
  BY <1>1, <1>2 DEF Agrees, EntryHasCause, Fires, Rests
<1>10. PassedAgrees(m)'
  BY <1>1, <1>2, <1>3, <1>4 DEF Agrees, PassedAgrees, Fires, Rests
<1> QED
  BY <1>5, <1>6, <1>7, <1>8, <1>9, <1>10 DEF Agrees

LEMMA UnnoticedAgrees ==
  ASSUME TypeOK, TypeOK', LoopsKnown, NEW m \in Monitor, Agrees(m), Unnoticed
  PROVE  Agrees(m)'
<1>1. Position' = Position
  BY DEF Unnoticed, Position
<1>2. latest' \in Nat /\ OpenOf(m)' = OpenOf(m)
  BY DEF TypeOK, Unnoticed, OpenOf
<1> QED
  BY <1>1, <1>2, ViewSame DEF Unnoticed

\* Where a handler of m works.
LEMMA MovedFacts ==
  ASSUME TypeOK, TypeOK', StoreKnown, NEW m \in Monitor, Moved(m)
  PROVE  /\ Position = At /\ Position' = Position /\ Position \in {watermark, watermark + 1}
         /\ Position \in Nat /\ watermark \in Nat /\ latest \in Nat
         /\ Fires(m, Position) <=> m \in chain[At].firing
         /\ Rests(m, Position) <=> m \notin chain[At].firing
         /\ \A b : (Fires(m, b)' <=> Fires(m, b)) /\ (Rests(m, b)' <=> Rests(m, b))
<1>1. Position = At /\ Position' = Position
  BY DEF Moved, Position, Running, At
<1>2. Position \in Nat /\ watermark \in Nat /\ latest \in Nat
  BY Numbers
<1>3. UNCHANGED <<chain, latest, watermark>> /\ At <= latest
  BY DEF Moved
<1> QED
  BY <1>1, <1>2, <1>3 DEF Fires, Rests, StoreKnown

LEMMA LeavesAgrees ==
  ASSUME TypeOK, TypeOK', LoopsKnown, StoreKnown, NEW m \in Monitor, Agrees(m), Leaves(m)
  PROVE  Agrees(m)'
<1> USE MovedFacts DEF Agrees, OpenHasCause, UnknownHasCause, ResolvedHasCause, OtherIsDue, EntryHasCause
<1>1. Moved(m) /\ UNCHANGED <<kv, incident, watermark>>
  BY DEF Leaves, Moved
<1>2. OpenOf(m)' = OpenOf(m) /\ StatusOf(m)' = StatusOf(m)
  BY <1>1 DEF OpenOf, StatusOf
<1>3. PassedAgrees(m)'
  BY <1>1, <1>2 DEF Leaves, PassedAgrees
<1> QED
  BY <1>1, <1>2, <1>3

LEMMA CreatesAgrees ==
  ASSUME TypeOK, TypeOK', EntriesKnown, StoreKnown, NEW m \in Monitor, Agrees(m), Creates(m)
  PROVE  Agrees(m)'
<1> USE MovedFacts DEF Agrees, OpenHasCause, UnknownHasCause, ResolvedHasCause, OtherIsDue, EntryHasCause
<1>1. Moved(m) /\ UNCHANGED <<kv, watermark>> /\ m \in chain[At].firing /\ (kv[m] = None \/ kv[m].isDue)
  BY DEF Creates, Moved
<1>2. \A i \in DOMAIN incident : incident'[i] = incident[i]
  <2>1. incident \in Seq(IncidentRow) /\ [monitor |-> m, status |-> "open"] \in IncidentRow
    BY DEF TypeOK, IncidentRow
  <2> QED
    BY <2>1 DEF Creates
<1>3. kv[m] # None => StatusOf(m)' = StatusOf(m)
  BY <1>1, <1>2 DEF EntriesKnown, StatusOf
<1>4. PassedAgrees(m)'
  BY DEF Creates, PassedAgrees
<1> QED
  BY <1>1, <1>3, <1>4

LEMMA ResolvesAgrees ==
  ASSUME TypeOK, TypeOK', EntriesKnown, StoreKnown, NEW m \in Monitor, Agrees(m), Resolves(m)
  PROVE  Agrees(m)'
<1> USE MovedFacts DEF Agrees, OpenHasCause, UnknownHasCause, ResolvedHasCause, OtherIsDue, EntryHasCause
<1>1. Moved(m) /\ UNCHANGED <<kv, watermark>> /\ m \notin chain[At].firing /\ kv[m] # None
  BY DEF Resolves, Moved
<1>2. kv[m].id \in DOMAIN incident
  BY <1>1 DEF EntriesKnown
<1>3. OpenOf(m)' \subseteq OpenOf(m)
  BY <1>2, Closes DEF OpenOf, Resolves
<1>4. PassedAgrees(m)'
  BY DEF Resolves, PassedAgrees
<1> QED
  BY <1>1, <1>3, <1>4

LEMMA RecordsAgrees ==
  ASSUME TypeOK, TypeOK', StoreKnown, NEW m \in Monitor, Agrees(m), Records(m)
  PROVE  Agrees(m)'
<1> USE MovedFacts DEF Agrees, OpenHasCause, UnknownHasCause, ResolvedHasCause, OtherIsDue, EntryHasCause
<1>1. Moved(m) /\ UNCHANGED <<incident, watermark>> /\ m \in chain[At].firing
  BY DEF Records, Moved
<1>2. PICK i \in DOMAIN incident :
        /\ incident[i].monitor = m /\ incident[i].status # "resolved" /\ OpenOf(m) \subseteq {i}
        /\ kv' = [kv EXCEPT ![m] = [id |-> i, isDue |-> FALSE]]
  BY DEF Records
<1>i. i \in Nat /\ kv \in [Monitor -> OngoingIncident \union {None}]
  <2>1. incident \in Seq(IncidentRow)
    BY DEF TypeOK
  <2> QED
    BY <1>2, <2>1 DEF TypeOK
<1>3. kv'[m] = [id |-> i, isDue |-> FALSE] /\ kv'[m] # None
  <2>1. kv'[m] = [id |-> i, isDue |-> FALSE]
    BY <1>i, <1>2
  <2>2. [id |-> i, isDue |-> FALSE] \in OngoingIncident
    BY <1>i DEF OngoingIncident
  <2> QED
    BY <2>1, <2>2, ConstantsAssumption
<1>4. OpenOf(m)' \subseteq {i} /\ OpenOf(m)' = OpenOf(m) /\ StatusOf(m)' # "resolved"
  BY <1>1, <1>2, <1>3 DEF OpenOf, StatusOf
<1>5. PassedAgrees(m)'
  BY <1>1, <1>3, <1>4 DEF PassedAgrees, Fires, Rests
<1> QED
  BY <1>1, <1>3, <1>4, <1>5

LEMMA ForgetsAgrees ==
  ASSUME TypeOK, TypeOK', StoreKnown, NEW m \in Monitor, Agrees(m), Forgets(m)
  PROVE  Agrees(m)'
<1> USE MovedFacts DEF Agrees, OpenHasCause, UnknownHasCause, ResolvedHasCause, OtherIsDue, EntryHasCause
<1>1. Moved(m) /\ UNCHANGED <<incident, watermark>> /\ m \notin chain[At].firing /\ kv[m] # None
  BY DEF Forgets, Moved
<1>2. kv'[m] = None /\ OpenOf(m)' = OpenOf(m)
  BY <1>1 DEF TypeOK, Forgets, OpenOf
<1>3. kv[m].id \notin OpenOf(m)
  BY OpenIs DEF Forgets, StatusOf
<1>4. ~Fires(m, Position)
  BY <1>1 DEF Fires, Rests
<1>5. OpenOf(m) # {} => Position = watermark /\ Fires(m, watermark + 1)
  BY <1>1, <1>3, <1>4
<1>6. PassedAgrees(m)'
  BY <1>1, <1>2, <1>4, <1>5 DEF PassedAgrees
<1> QED
  BY <1>1, <1>2, <1>3, <1>4, <1>6

\* A handler of m leaves the other monitors alone.
LEMMA OthersSame ==
  ASSUME TypeOK, TypeOK', EntriesKnown, NEW m \in Monitor, NEW n \in Monitor, n # m, Handled(m)
  PROVE  /\ kv'[n] = kv[n] /\ OpenOf(n)' = OpenOf(n) /\ Alerts(n)' = Alerts(n)
         /\ kv[n] # None => incident'[kv[n].id].status = incident[kv[n].id].status
         /\ HasPassed(n)' => HasPassed(n)
<1>1. HasPassed(n)' => HasPassed(n)
  BY DEF Handled, Leaves, Creates, Resolves, Records, Forgets, Moved
<1>2. kv'[n] = kv[n]
  BY DEF Handled, Leaves, Creates, Resolves, Records, Forgets, TypeOK
<1>3. CASE incident' = incident
  BY <1>1, <1>2, <1>3 DEF OpenOf, Alerts
<1>4. CASE Creates(m)
  <2>1. incident \in Seq(IncidentRow) /\ [monitor |-> m, status |-> "open"] \in IncidentRow
    BY DEF TypeOK, IncidentRow
  <2>2. /\ \A i \in DOMAIN incident : incident'[i] = incident[i]
        /\ DOMAIN incident' = DOMAIN incident \union {Len(incident) + 1}
        /\ incident'[Len(incident) + 1] = [monitor |-> m, status |-> "open"]
    BY <1>4, <2>1 DEF Creates
  <2>3. incident'[Len(incident) + 1].monitor # n
    BY <2>2
  <2>4. \A i : (i \in OpenOf(n)' <=> i \in OpenOf(n)) /\ (i \in Alerts(n)' <=> i \in Alerts(n))
    BY <2>2, <2>3 DEF OpenOf, Alerts
  <2> QED
    BY <1>1, <1>2, <2>2, <2>4 DEF EntriesKnown
<1>5. CASE Resolves(m)
  <2>1. kv[m].id \in DOMAIN incident /\ incident[kv[m].id].monitor = m
    BY <1>5 DEF Resolves, EntriesKnown
  <2>2. /\ DOMAIN incident' = DOMAIN incident /\ incident'[kv[m].id].monitor = m
        /\ \A j \in DOMAIN incident : j # kv[m].id => incident'[j] = incident[j]
    BY <1>5, <2>1, Closes DEF Resolves
  <2>3. \A i : (i \in OpenOf(n)' <=> i \in OpenOf(n)) /\ (i \in Alerts(n)' <=> i \in Alerts(n))
    BY <2>1, <2>2 DEF OpenOf, Alerts
  <2> QED
    BY <1>1, <1>2, <2>1, <2>2, <2>3 DEF EntriesKnown
<1> QED
  BY <1>3, <1>4, <1>5 DEF Handled, Leaves, Records, Forgets

LEMMA OthersAgree ==
  ASSUME TypeOK, TypeOK', EntriesKnown, LoopsKnown, NEW m \in Monitor, NEW n \in Monitor, n # m,
         Agrees(n), Handled(m)
  PROVE  Agrees(n)'
<1>1. Moved(m)
  BY DEF Handled, Leaves, Creates, Resolves, Records, Forgets
<1>2. /\ chain' = chain /\ latest <= latest' /\ latest' \in Nat
      /\ Position' = Position /\ watermark' = watermark
  BY <1>1, Numbers DEF Moved, Position
<1> QED
  BY <1>2, OthersSame, ViewSame

LEMMA StoresAgrees ==
  ASSUME TypeOK, TypeOK', Match, LoopsKnown, StoreKnown, NEW m \in Monitor, Agrees(m), Stores
  PROVE  Agrees(m)'
<1>1. /\ loop[current].pc = "persist" /\ watermark' = At /\ watermark' # watermark
      /\ UNCHANGED <<chain, latest, current, loop, tasks, kv, incident>> /\ current \in Loop
  BY DEF Stores, TypeOK
<1>2. Position = At /\ Position' = Position /\ At <= latest
  BY <1>1 DEF Position, Running, At, LoopsKnown
<1>3. Position = watermark + 1 /\ watermark' = Position /\ watermark \in Nat /\ Position # watermark
  BY <1>1, <1>2, Numbers DEF StoreKnown
<1>4. Mine(m) = {} /\ Mine(m)' = {}
  <2>1. Mine(m) = {}
    BY <1>1, NoneOfMine
  <2> QED
    BY <1>1, <2>1 DEF Mine, Waiting, Awaited
<1>5. HasPassed(m)
  BY <1>1, <1>4 DEF HasPassed, Running
<1>6. OpenOf(m)' = OpenOf(m) /\ StatusOf(m)' = StatusOf(m)
  BY <1>1 DEF OpenOf, StatusOf
<1>7. \A b : (Fires(m, b)' <=> Fires(m, b)) /\ (Rests(m, b)' <=> Rests(m, b))
  BY <1>1 DEF Fires, Rests
<1>8. Fires(m, Position) <=> ~Rests(m, Position)
  BY <1>2 DEF Fires, Rests
<1>9. Position' # (watermark + 1)'
  BY <1>2, <1>3
<1>10. \/ /\ Fires(m, Position) /\ kv[m] # None /\ OpenOf(m) \subseteq {kv[m].id}
          /\ StatusOf(m) # "resolved"
       \/ Rests(m, Position) /\ kv[m] = None /\ OpenOf(m) = {}
  BY <1>3, <1>5, <1>8 DEF Agrees, PassedAgrees
<1>11. /\ OpenOf(m)' # {} => Fires(m, Position)
       /\ kv'[m] # None => kv'[m] = kv[m] /\ OpenOf(m)' \subseteq {kv'[m].id} /\ StatusOf(m)' # "resolved"
       /\ kv'[m] = None => OpenOf(m)' = {}
       /\ Fires(m, Position) <=> kv'[m] # None
  BY <1>1, <1>6, <1>8, <1>10
<1>12. Fires(m, watermark)' <=> Fires(m, Position)
  BY <1>1, <1>2 DEF Fires
<1>13. OpenHasCause(m)' /\ UnknownHasCause(m)' /\ EntryHasCause(m)'
  BY <1>9, <1>11, <1>12 DEF OpenHasCause, UnknownHasCause, EntryHasCause
<1>14. ResolvedHasCause(m)' /\ OtherIsDue(m)'
  BY <1>11 DEF ResolvedHasCause, OtherIsDue
<1>15. PassedAgrees(m)'
  BY <1>2, <1>7, <1>8, <1>11 DEF PassedAgrees
<1> QED
  BY <1>13, <1>14, <1>15 DEF Agrees

LEMMA MovesAgrees ==
  ASSUME TypeOK, TypeOK', Match, LoopsKnown, StoreKnown, NEW m \in Monitor, Agrees(m), Moves
  PROVE  Agrees(m)'
<1>1. /\ loop[current].pc = "persist" /\ loop'[current].pc = "ready"
      /\ loop'[current].next = At + 1
      /\ UNCHANGED <<chain, latest, current, watermark, kv, incident>> /\ current \in Loop
      /\ Position = watermark
  BY DEF Moves, TypeOK, StoreKnown
<1>2. Position = At /\ Position' = watermark + 1 /\ At <= latest
  BY <1>1 DEF Position, Running, At, LoopsKnown
<1>3. HasPassed(m) /\ ~HasPassed(m)'
  BY <1>1, NoneOfMine DEF HasPassed, Running
<1>4. OpenOf(m)' = OpenOf(m) /\ StatusOf(m)' = StatusOf(m) /\ kv'[m] = kv[m]
  BY <1>1 DEF OpenOf, StatusOf
<1>5. \A b : (Fires(m, b)' <=> Fires(m, b)) /\ (Rests(m, b)' <=> Rests(m, b))
  BY <1>1 DEF Fires, Rests
<1>6. Fires(m, Position) <=> ~Rests(m, Position)
  BY <1>2 DEF Fires, Rests
<1>7. \/ /\ Fires(m, watermark) /\ kv[m] # None /\ OpenOf(m) \subseteq {kv[m].id}
         /\ StatusOf(m) = "resolved" => Rests(m, watermark + 1)
      \/ Rests(m, watermark) /\ kv[m] = None /\ (OpenOf(m) # {} => Fires(m, watermark + 1))
  BY <1>1, <1>3, <1>6 DEF Agrees, PassedAgrees
<1>8. PassedAgrees(m)'
  BY <1>3 DEF PassedAgrees
<1> QED
  BY <1>1, <1>2, <1>4, <1>5, <1>7, <1>8
     DEF Agrees, OpenHasCause, UnknownHasCause, ResolvedHasCause, OtherIsDue, EntryHasCause

LEMMA StartsAgrees ==
  ASSUME TypeOK, TypeOK', StoreKnown, NEW m \in Monitor, Agrees(m), Starts, StartBlock = None
  PROVE  Agrees(m)'
<1>1. /\ Position = watermark /\ Position' = watermark /\ ~HasPassed(m)'
      /\ UNCHANGED <<chain, latest, watermark, kv, incident>>
  BY DEF Starts, FirstBlock, Position, Running, HasPassed
<1>2. OpenOf(m)' = OpenOf(m) /\ StatusOf(m)' = StatusOf(m)
  BY <1>1 DEF OpenOf, StatusOf
<1>3. \A b : (Fires(m, b)' <=> Fires(m, b)) /\ (Rests(m, b)' <=> Rests(m, b))
  BY <1>1 DEF Fires, Rests
<1>4. PassedAgrees(m)'
  BY <1>1 DEF PassedAgrees
<1> QED
  BY <1>1, <1>2, <1>3, <1>4
     DEF Agrees, OpenHasCause, UnknownHasCause, ResolvedHasCause, OtherIsDue, EntryHasCause

LEMMA StopsAgrees ==
  ASSUME TypeOK, TypeOK', StoreKnown, NEW m \in Monitor, Agrees(m), StopsAnyhow
  PROVE  Agrees(m)'
<1>1. /\ Position \in {watermark, watermark + 1} /\ Position' = watermark /\ watermark \in Nat
      /\ UNCHANGED <<chain, latest, watermark, incident>> /\ ~HasPassed(m)'
  BY Numbers DEF StopsAnyhow, Position, StoreKnown, HasPassed
<1>2. kv'[m] = kv[m] \/ kv'[m] = None
  BY DEF StopsAnyhow
<1>3. OpenOf(m)' = OpenOf(m) /\ (kv'[m] # None => StatusOf(m)' = StatusOf(m))
  BY <1>1, <1>2 DEF OpenOf, StatusOf
<1>4. \A b : (Fires(m, b)' <=> Fires(m, b)) /\ (Rests(m, b)' <=> Rests(m, b))
  BY <1>1 DEF Fires, Rests
<1>5. PassedAgrees(m)'
  BY <1>1 DEF PassedAgrees
<1> QED
  BY <1>1, <1>2, <1>3, <1>4, <1>5
     DEF Agrees, OpenHasCause, UnknownHasCause, ResolvedHasCause, OtherIsDue, EntryHasCause

LEMMA FallsSame ==
  ASSUME TypeOK, TypeOK', NEW m \in Monitor, NEW n \in Monitor, Falls(n)
  PROVE  /\ kv'[m] = None <=> kv[m] = None
         /\ kv[m] # None => /\ kv'[m].id = kv[m].id /\ (kv[m].isDue => kv'[m].isDue)
                            /\ StatusOf(m)' = StatusOf(m)
         /\ OpenOf(m)' = OpenOf(m) /\ Alerts(m)' = Alerts(m)
         /\ HasPassed(m)' => HasPassed(m)
<1>1. UNCHANGED <<incident, current, loop, tasks>>
  BY DEF Falls
<1>2. HasPassed(m)' => HasPassed(m)
  BY <1>1 DEF HasPassed, Mine, Waiting, Awaited
<1>3. kv \in [Monitor -> OngoingIncident \union {None}] /\ kv[n] \in OngoingIncident
  BY DEF TypeOK, Falls
<1>4. kv'[n] = [kv[n] EXCEPT !.isDue = TRUE] /\ \A k \in Monitor : k # n => kv'[k] = kv[k]
  BY <1>3 DEF Falls
<1>5. kv'[n] \in OngoingIncident /\ kv'[n].id = kv[n].id /\ kv'[n].isDue
  BY <1>3, <1>4 DEF OngoingIncident
<1>6. /\ kv'[m] = None <=> kv[m] = None
      /\ kv[m] # None => kv'[m].id = kv[m].id /\ (kv[m].isDue => kv'[m].isDue)
  BY <1>3, <1>4, <1>5, ConstantsAssumption
<1> QED
  BY <1>1, <1>2, <1>6 DEF OpenOf, Alerts, StatusOf

LEMMA FallsAgrees ==
  ASSUME TypeOK, TypeOK', StoreKnown, NEW m \in Monitor, Agrees(m), NEW n \in Monitor, Falls(n)
  PROVE  Agrees(m)'
<1>1. Position' = Position /\ UNCHANGED <<chain, latest, watermark, incident>>
  BY DEF Falls, Position
<1>4. \A b : (Fires(m, b)' <=> Fires(m, b)) /\ (Rests(m, b)' <=> Rests(m, b))
  BY <1>1 DEF Fires, Rests
<1>5. PassedAgrees(m)'
  BY <1>1, <1>4, FallsSame DEF Agrees, PassedAgrees
<1> QED
  BY <1>1, <1>4, <1>5, FallsSame
     DEF Agrees, OpenHasCause, UnknownHasCause, ResolvedHasCause, OtherIsDue, EntryHasCause

LEMMA ClosedAgrees ==
  ASSUME TypeOK, TypeOK', EntriesKnown, StoreKnown, NEW m \in Monitor, Agrees(m),
         NEW i \in DOMAIN incident, Closed(i)
  PROVE  Agrees(m)'
<1>1. /\ Position' = Position /\ UNCHANGED <<chain, latest, watermark, kv>>
      /\ HasPassed(m)' => HasPassed(m)
  BY DEF Closed, Position, HasPassed, Mine, Waiting, Awaited
<1>2. /\ DOMAIN incident' = DOMAIN incident
      /\ incident'[i].status = "manual" /\ incident'[i].monitor = incident[i].monitor
      /\ \A j \in DOMAIN incident : j # i => incident'[j] = incident[j]
  BY Closes DEF Closed
<1>3. /\ OpenOf(m)' \subseteq OpenOf(m)
      /\ kv[m] # None /\ StatusOf(m)' = "resolved" => StatusOf(m) = "resolved"
  BY <1>1, <1>2 DEF OpenOf, StatusOf, EntriesKnown
<1>4. \A b : (Fires(m, b)' <=> Fires(m, b)) /\ (Rests(m, b)' <=> Rests(m, b))
  BY <1>1 DEF Fires, Rests
<1>5. PassedAgrees(m)'
  BY <1>1, <1>3, <1>4 DEF Agrees, PassedAgrees
<1> QED
  BY <1>1, <1>3, <1>4, <1>5
     DEF Agrees, OpenHasCause, UnknownHasCause, ResolvedHasCause, OtherIsDue, EntryHasCause

LEMMA NoticedAgrees ==
  ASSUME TypeOK, TypeOK', Match, EntriesKnown, LoopsKnown, StoreKnown, StartBlock = None,
         NEW m \in Monitor, Agrees(m), Unnoticed \/ Noticed
  PROVE  Agrees(m)'
<1>1. ASSUME NEW n \in Monitor, Handled(n) PROVE Agrees(m)'
  <2>1. CASE n # m
    BY <1>1, <2>1, OthersAgree
  <2>2. CASE n = m
    BY <1>1, <2>2, LeavesAgrees, CreatesAgrees, ResolvesAgrees, RecordsAgrees, ForgetsAgrees
       DEF Handled
  <2> QED
    BY <2>1, <2>2
<1>2. ASSUME NEW n \in Monitor, Falls(n) PROVE Agrees(m)'
  BY <1>2, FallsAgrees
<1>3. ASSUME NEW i \in DOMAIN incident, Closed(i) PROVE Agrees(m)'
  BY <1>3, ClosedAgrees
<1>4. Unnoticed \/ Starts \/ StopsAnyhow \/ Stores \/ Moves => Agrees(m)'
  BY UnnoticedAgrees, StartsAgrees, StopsAgrees, StoresAgrees, MovesAgrees
<1> QED
  BY <1>1, <1>2, <1>3, <1>4 DEF Noticed

LEMMA StepSeen ==
  ASSUME TypeOK, TypeOK', Match, Known, Next, ~stray'
  PROVE  ~stray /\ OneHandler' /\ MineKnown' /\ (Unnoticed \/ Noticed)
<1>1. ~stray
  BY StrayStays
<1>2. ASSUME NEW l \in Loop, LoopStep(l) \/ LoopExits(l) \/ Rebuild(l)
      PROVE  OneHandler' /\ MineKnown' /\ (Unnoticed \/ Noticed)
  BY <1>2, LoopSeen
<1>3. ASSUME NEW t \in tasks, HandlerStep(t) \/ HandlerFails(t) \/ HandlerHangs(t)
      PROVE  OneHandler' /\ MineKnown' /\ (Unnoticed \/ Noticed)
  BY <1>1, <1>3, HandlerSeen
<1>4. ASSUME NEW p \in puts, PutStep(p) \/ PutFails(p)
      PROVE  OneHandler' /\ MineKnown' /\ (Unnoticed \/ Noticed)
  BY <1>1, <1>4, PutSeen
<1> QED
  BY <1>1, <1>2, <1>3, <1>4, WorldSeen DEF Next

LEMMA KnownStep ==
  ASSUME TypeOK, TypeOK', Match, Known, Next
  PROVE  Known'
<1>1. TasksKnown' /\ EntriesKnown' /\ OneOpen' /\ LoopsKnown'
  BY TasksKnownStep, EntriesKnownStep, OneOpenStep, LoopsKnownStep DEF Known
<1>2. stray' \/ (OneHandler' /\ MineKnown')
  BY StepSeen
<1> QED
  BY <1>1, <1>2 DEF Known

AgreeInv == StartBlock = None /\ ~stray => Agreement

LEMMA AgreeStep ==
  ASSUME TypeOK, TypeOK', Match, Known, AgreeInv, Next
  PROVE  AgreeInv'
<1> SUFFICES ASSUME StartBlock = None, ~stray' PROVE Agreement'
  BY DEF AgreeInv
<1>1. ~stray /\ (Unnoticed \/ Noticed)
  BY StepSeen
<1>2. Agreement
  BY <1>1 DEF AgreeInv
<1>3. StoreKnown'
  BY <1>2, StoreStep DEF Agreement, Known
<1>4. \A m \in Monitor : Agrees(m)'
  BY <1>1, <1>2, NoticedAgrees DEF Agreement, Known
<1> QED
  BY <1>3, <1>4 DEF Agreement

LEMMA AgreedNow ==
  ASSUME TypeOK, EntriesKnown, AgreeInv
  PROVE  AgreesUnlessStray
<1> SUFFICES ASSUME StartBlock = None, IsUpToDate, ~stray, NEW m \in Monitor
             PROVE  IF m \in chain[latest].firing
                    THEN kv[m] # None /\ incident[kv[m].id].monitor = m
                                      /\ incident[kv[m].id].status # "resolved"
                    ELSE kv[m] = None /\ OpenOf(m) = {}
  BY DEF AgreesUnlessStray
<1>1. StoreKnown /\ Agrees(m)
  BY DEF AgreeInv, Agreement
<1>2. Position = latest + 1
  BY DEF IsUpToDate, Position, Running
<1>3. watermark = latest /\ Position = watermark + 1 /\ latest \in Nat
  BY <1>1, <1>2, Numbers DEF StoreKnown
<1>4. /\ ~Fires(m, watermark + 1) /\ ~Rests(m, watermark + 1)
      /\ Fires(m, watermark) <=> m \in chain[latest].firing
      /\ Rests(m, watermark) <=> m \notin chain[latest].firing
  BY <1>3 DEF Fires, Rests
<1>5. kv[m] # None <=> m \in chain[latest].firing
  BY <1>1, <1>3, <1>4 DEF Agrees, EntryHasCause
<1>6. kv[m] # None => incident[kv[m].id].monitor = m /\ incident[kv[m].id].status # "resolved"
  BY <1>1, <1>3, <1>4 DEF Agrees, ResolvedHasCause, StatusOf, EntriesKnown
<1>7. kv[m] = None => OpenOf(m) = {}
  BY <1>1, <1>3, <1>4 DEF Agrees, UnknownHasCause
<1> QED
  BY <1>5, <1>6, <1>7

\* Each condition block 1 shows has one incident.
LEMMA InitIncidents ==
  ASSUME Init
  PROVE  /\ \A i \in DOMAIN incident : incident[i].monitor \in chain[1].firing /\ incident[i].status = "open"
         /\ \A i, j \in DOMAIN incident : incident[i].monitor = incident[j].monitor => i = j
<1> DEFINE F == chain[1].firing
           D == 1 .. Cardinality(F)
           f == [i \in D |-> incident[i].monitor]
<1>1. IsFiniteSet(F) /\ Cardinality(F) \in Nat
  <2>1. chain[1] \in Block
    BY ChainsAssumption DEF Init
  <2>2. F \subseteq Monitor
    BY <2>1 DEF Block
  <2> QED
    BY <2>2, ConstantsAssumption, FS_Subset, FS_CardinalityType
<1>2. incident \in [D -> [monitor: F, status: {"open"}]] /\ \A m \in F : \E i \in D : incident[i].monitor = m
  BY DEF Init
<1>3. \A i \in D : incident[i].monitor \in F /\ incident[i].status = "open"
  BY <1>2
<1>4. f \in Surjection(D, F)
  BY <1>2, <1>3 DEF Surjection
<1>5. IsFiniteSet(D) /\ Cardinality(D) = Cardinality(F)
  BY <1>1, FS_Interval
<1>6. f \in Injection(D, F)
  BY <1>1, <1>4, <1>5, FS_SurjSameCardinalityImpliesInj
<1>7. \A i, j \in D : incident[i].monitor = incident[j].monitor => i = j
  BY <1>6 DEF Injection, IsInjective
<1> QED
  BY <1>2, <1>3, <1>7

LEMMA InitKnown == Init => Known /\ AgreeInv
<1> SUFFICES ASSUME Init PROVE Known /\ AgreeInv
  OBVIOUS
<1>0. TypeOK
  BY InitType
<1>1. TasksKnown /\ EntriesKnown /\ LoopsKnown /\ OneHandler /\ MineKnown
  BY DEF Init, TasksKnown, EntriesKnown, LoopsKnown, OneHandler, MineKnown, Mine, Waiting, Running
<1>2. OneOpen
  BY InitIncidents DEF OneOpen, OpenOf
<1>3. Position = 1 /\ watermark = 1 /\ latest = 1 /\ \A m \in Monitor : kv[m] = None /\ ~HasPassed(m)
  BY DEF Init, Position, HasPassed, Running
<1>4. StoreKnown
  BY <1>3 DEF StoreKnown, Init
<1>5. ASSUME NEW m \in Monitor PROVE Agrees(m)
  <2>1. OpenOf(m) # {} => Fires(m, 1)
    BY <1>3, InitIncidents DEF OpenOf, Fires
  <2> QED
    BY <1>3, <2>1 DEF Agrees, OpenHasCause, UnknownHasCause, ResolvedHasCause, OtherIsDue,
                      EntryHasCause, PassedAgrees
<1> QED
  BY <1>1, <1>2, <1>4, <1>5 DEF Known, AgreeInv, Agreement

-----------------------------------------------------------------------------
(***************************************************************************)
(* Incidents and episodes: no more of the one than of the other.           *)
(***************************************************************************)
\* The times m has begun to fire, up to block n.
EpisodesTo(m, n) ==
  {b \in 1 .. n : m \in chain[b].firing /\ (b > 1 => m \notin chain[b - 1].firing)}

Undisturbed ==
  restarts = 0 /\ ~stray /\ \A i \in DOMAIN incident : incident[i].status # "manual"

IsAtWork == loop[current].pc \in Running

\* A process that has just begun: block 1 has an incident, or the monitor none.
FreshFor(m) ==
  loop[current].pc \in {"boot", "starting"} =>
    /\ kv[m] = None
    /\ Alerts(m) # {} => m \in chain[1].firing
    /\ \A i, j \in Alerts(m) : i = j
    /\ OpenOf(m) = {} => Alerts(m) = {}

\* No more incidents than episodes up to the block the watcher is at, and one
\* less if it has one to create.
CountedFor(m) ==
  IsAtWork /\ At \in DOMAIN chain =>
    /\ Cardinality(Alerts(m)) <= Cardinality(EpisodesTo(m, At))
    /\ m \in chain[At].firing /\ OpenOf(m) = {} =>
         Cardinality(Alerts(m)) + 1 <= Cardinality(EpisodesTo(m, At))

\* The entry of a resolved incident is left only where the condition rests.
ClosedFor(m) == IsAtWork /\ kv[m] # None /\ StatusOf(m) = "resolved" => Rests(m, At)

PassedFor(m) ==
  HasPassed(m) => IF m \in chain[At].firing THEN OpenOf(m) # {} ELSE kv[m] = None

Counted(m) ==
  /\ Cardinality(Alerts(m)) <= Cardinality(Episodes(m))
  /\ FreshFor(m) /\ CountedFor(m) /\ ClosedFor(m) /\ PassedFor(m)

CountInv == Undisturbed => \A m \in Monitor : Counted(m)

\* A set of numbers has a first.
LEMMA HasFirst ==
  ASSUME NEW S \in SUBSET Nat, S # {}
  PROVE  \E n \in S : \A m \in S : n <= m
<1>1. PICK n \in S : \A m \in S : <<m, n>> \notin OpToRel(<, Nat)
  BY NatLessThanWellFounded, WFMin
<1>2. \A m \in S : ~(m < n)
  BY <1>1 DEF OpToRel
<1> QED
  BY <1>2

LEMMA EpisodesFinite ==
  ASSUME NEW n \in Nat, NEW m
  PROVE  IsFiniteSet(EpisodesTo(m, n)) /\ Cardinality(EpisodesTo(m, n)) \in Nat
<1>1. IsFiniteSet(1 .. n) /\ EpisodesTo(m, n) \in SUBSET (1 .. n)
  BY FS_Interval DEF EpisodesTo
<1> QED
  BY <1>1, FS_Subset, FS_CardinalityType

LEMMA EpisodesGrow ==
  ASSUME NEW n \in Nat, NEW k \in Nat, k <= n, NEW m
  PROVE  Cardinality(EpisodesTo(m, k)) <= Cardinality(EpisodesTo(m, n))
<1>1. EpisodesTo(m, k) \in SUBSET EpisodesTo(m, n)
  BY DEF EpisodesTo
<1> QED
  BY <1>1, EpisodesFinite, FS_Subset

\* A condition that begins to fire begins an episode.
LEMMA OneMore ==
  ASSUME NEW n \in Nat \ {0}, NEW m, m \notin chain[n].firing, m \in chain[n + 1].firing
  PROVE  Cardinality(EpisodesTo(m, n + 1)) = Cardinality(EpisodesTo(m, n)) + 1
<1>1. EpisodesTo(m, n + 1) = EpisodesTo(m, n) \union {n + 1} /\ n + 1 \notin EpisodesTo(m, n)
  BY DEF EpisodesTo
<1> QED
  BY <1>1, EpisodesFinite, FS_AddElement

\* A condition that fires has begun to at some time.
LEMMA SomeEpisode ==
  ASSUME NEW n \in Nat \ {0}, NEW m, m \in chain[n].firing
  PROVE  Cardinality(EpisodesTo(m, n)) >= 1
<1> DEFINE F == {b \in 1 .. n : m \in chain[b].firing}
<1>1. n \in F /\ F \in SUBSET Nat
  OBVIOUS
<1>2. PICK b \in F : \A c \in F : b <= c
  BY <1>1, HasFirst
<1>3. b \in EpisodesTo(m, n)
  BY <1>2 DEF EpisodesTo
<1>4. EpisodesTo(m, n) # {}
  BY <1>3
<1> QED
  BY <1>4, EpisodesFinite, FS_EmptySet

LEMMA AlertsFinite ==
  ASSUME TypeOK, NEW m
  PROVE  IsFiniteSet(Alerts(m)) /\ Cardinality(Alerts(m)) \in Nat
<1>1. DOMAIN incident = 1 .. Len(incident) /\ Len(incident) \in Nat
  BY DEF TypeOK
<1>2. Len(incident) \in Int /\ 1 \in Int
  BY <1>1
<1>3. IsFiniteSet(1 .. Len(incident)) /\ Alerts(m) \in SUBSET (1 .. Len(incident))
  BY <1>1, <1>2, FS_Interval DEF Alerts
<1> QED
  BY <1>3, FS_Subset, FS_CardinalityType

\* What m has, its watcher and its incidents, stays.
LEMMA CountSame ==
  ASSUME TypeOK, TypeOK', NEW m \in Monitor, Counted(m), chain' = chain, latest <= latest',
         kv'[m] = None <=> kv[m] = None, Alerts(m)' = Alerts(m), OpenOf(m)' = OpenOf(m),
         kv[m] # None => StatusOf(m)' = StatusOf(m),
         loop'[current'].next = At,
         \/ loop'[current'].pc = loop[current].pc
         \/ {loop[current].pc, loop'[current'].pc} \subseteq Running,
         HasPassed(m)' => HasPassed(m)
  PROVE  Counted(m)'
<1>0. latest \in Nat /\ latest' \in Nat /\ At' = At
  BY DEF TypeOK, At
<1>1. Episodes(m) = EpisodesTo(m, latest) /\ Episodes(m)' = EpisodesTo(m, latest')
  BY DEF Episodes, EpisodesTo
<1>2. Cardinality(Episodes(m)) <= Cardinality(Episodes(m)')
  BY <1>0, <1>1, EpisodesGrow
<1>3. /\ Cardinality(Alerts(m)) \in Nat /\ Cardinality(Episodes(m)) \in Nat
      /\ Cardinality(Episodes(m)') \in Nat
  BY <1>0, <1>1, AlertsFinite, EpisodesFinite
<1>4. Cardinality(Alerts(m)') <= Cardinality(Episodes(m)')
  BY <1>2, <1>3 DEF Counted
<1>5. IsAtWork' <=> IsAtWork
  BY DEF IsAtWork
<1>6. FreshFor(m)'
  BY DEF Counted, FreshFor, Running
<1>7. \A n : EpisodesTo(m, n)' = EpisodesTo(m, n)
  BY DEF EpisodesTo
<1>8. CountedFor(m)'
  BY <1>0, <1>5, <1>7 DEF Counted, CountedFor
<1>9. ClosedFor(m)'
  <2>2. At \in Nat
    BY DEF TypeOK, At, LoopState
  <2>3. Rests(m, At) => Rests(m, At)'
    BY <1>0, <2>2 DEF Rests
  <2> QED
    BY <1>5, <2>3 DEF Counted, ClosedFor
<1>10. PassedFor(m)'
  BY <1>0 DEF Counted, PassedFor
<1> QED
  BY <1>4, <1>6, <1>8, <1>9, <1>10 DEF Counted

LEMMA UndisturbedBefore ==
  ASSUME TypeOK, Next, Undisturbed'
  PROVE  Undisturbed
<1>1. restarts' = restarts \/ restarts' = restarts + 1
  <2> USE DEF vars, world, service, store, history
  <2>1. ASSUME NEW l \in Loop, LoopStep(l) \/ LoopExits(l) \/ Rebuild(l)
        PROVE  restarts' = restarts \/ restarts' = restarts + 1
    BY <2>1 DEF LoopStep, StartLoop, BeginBlock, NextPhase, BeginPhase, PersistBlock, Rejected,
                Retire, LoopExits, Rebuild
  <2>2. ASSUME NEW t \in tasks, HandlerStep(t) \/ HandlerFails(t) \/ HandlerHangs(t)
        PROVE  restarts' = restarts
    BY <2>2 DEF HandlerStep, Handle, Served, Answered, HandlerRejected, HandlerFails, HandlerHangs
  <2>3. ASSUME NEW p \in puts, PutStep(p) \/ PutFails(p)
        PROVE  restarts' = restarts
    BY <2>3 DEF PutStep, PutRead, PutWrite, PutAnswered, PutFails
  <2> QED
    BY <2>1, <2>2, <2>3 DEF Next, ServedLate, RecheckDue, ManualResolve, PersistTimer, NewBlock, Crash
<1>2. restarts = 0 /\ ~stray
  BY <1>1, StrayStays DEF Undisturbed, TypeOK
<1>3. ASSUME NEW i \in DOMAIN incident PROVE incident[i].status # "manual"
  BY StepKeeps DEF Keeps, Undisturbed
<1> QED
  BY <1>2, <1>3 DEF Undisturbed

\* The numbers compared.
LEMMA CountNumbers ==
  ASSUME TypeOK, NEW m
  PROVE  /\ At \in Nat /\ latest \in Nat
         /\ Cardinality(Alerts(m)) \in Nat /\ Cardinality(Episodes(m)) \in Nat
         /\ \A n \in Nat : Cardinality(EpisodesTo(m, n)) \in Nat
         /\ \A n \in Nat : n <= latest => Cardinality(EpisodesTo(m, n)) <= Cardinality(Episodes(m))
         /\ DOMAIN chain = 1 .. Len(chain) /\ Len(chain) \in Nat /\ latest <= Len(chain)
<1>1. At \in Nat /\ latest \in Nat
  BY DEF TypeOK, At, LoopState
<1>2. Episodes(m) = EpisodesTo(m, latest)
  BY DEF Episodes, EpisodesTo
<1>3. DOMAIN chain = 1 .. Len(chain) /\ Len(chain) \in Nat /\ latest <= Len(chain)
  BY DEF TypeOK
<1> QED
  BY <1>1, <1>2, <1>3, AlertsFinite, EpisodesFinite, EpisodesGrow

\* What is open is an alert, and not resolved; what is not open nor closed by
\* hand is resolved.
LEMMA OpenAlerts ==
  ASSUME TypeOK, NEW m
  PROVE  /\ OpenOf(m) \subseteq Alerts(m)
         /\ Undisturbed => \A i \in Alerts(m) : i \in OpenOf(m) <=> incident[i].status # "resolved"
<1>1. incident \in Seq(IncidentRow)
  BY DEF TypeOK
<1>2. \A i \in DOMAIN incident : incident[i].status \in {"open", "resolved", "manual"}
  <2>1. \A i \in DOMAIN incident : incident[i] \in IncidentRow
    BY <1>1
  <2> QED
    BY <2>1 DEF IncidentRow
<1> QED
  BY <1>2, OpenIs DEF Alerts, Undisturbed

LEMMA StartsCount ==
  ASSUME TypeOK, TypeOK', Match, Match', NEW m \in Monitor, Counted(m), Starts
  PROVE  Counted(m)'
<1>1. /\ UNCHANGED <<chain, latest, current, kv, incident>> /\ IsAtWork'
      /\ loop'[current].pc = "ready" /\ current \in Loop /\ current' \in Loop
  BY DEF Starts, IsAtWork, Running, TypeOK
<1>2. Alerts(m)' = Alerts(m) /\ OpenOf(m)' = OpenOf(m) /\ Episodes(m)' = Episodes(m)
  BY <1>1 DEF Alerts, OpenOf, Episodes
<1>3. /\ kv[m] = None /\ (Alerts(m) # {} => m \in chain[1].firing)
      /\ (\A i, j \in Alerts(m) : i = j) /\ (OpenOf(m) = {} => Alerts(m) = {})
  BY DEF Counted, FreshFor, Starts
<1>4. ~HasPassed(m)' /\ FreshFor(m)' /\ ClosedFor(m)'
  BY <1>1, <1>3 DEF HasPassed, FreshFor, ClosedFor
<1>5. CountedFor(m)'
  <2> SUFFICES ASSUME At' \in DOMAIN chain
               PROVE  /\ Cardinality(Alerts(m)) <= Cardinality(EpisodesTo(m, At'))
                      /\ m \in chain[At'].firing /\ OpenOf(m) = {} =>
                           Cardinality(Alerts(m)) + 1 <= Cardinality(EpisodesTo(m, At'))
    BY <1>1, <1>2 DEF CountedFor, EpisodesTo
  <2>1. At' \in Nat \ {0}
    BY <1>1 DEF TypeOK
  <2>2. Cardinality(EpisodesTo(m, At')) \in Nat
    BY <2>1, EpisodesFinite
  <2>3. CASE Alerts(m) = {}
    <3>1. Cardinality(Alerts(m)) = 0
      BY <2>3, FS_EmptySet
    <3> QED
      BY <2>1, <2>2, <3>1, SomeEpisode
  <2>4. CASE Alerts(m) # {}
    <3>1. PICK i \in Alerts(m) : TRUE
      BY <2>4
    <3>2. Alerts(m) = {i}
      BY <1>3, <3>1
    <3>3. Cardinality(Alerts(m)) = 1
      BY <3>2, FS_Singleton
    <3>4. Cardinality(EpisodesTo(m, 1)) >= 1
      BY <1>3, <2>4, SomeEpisode
    <3>5. Cardinality(EpisodesTo(m, 1)) <= Cardinality(EpisodesTo(m, At'))
      BY <2>1, EpisodesGrow
    <3>6. Cardinality(EpisodesTo(m, 1)) \in Nat
      BY EpisodesFinite
    <3> QED
      BY <1>3, <2>2, <2>4, <3>3, <3>4, <3>5, <3>6
  <2> QED
    BY <2>3, <2>4
<1> QED
  BY <1>1, <1>2, <1>4, <1>5 DEF Counted, PassedFor

LEMMA StopsCount ==
  ASSUME TypeOK, TypeOK', NEW m \in Monitor, Counted(m), StopsAnyhow, restarts' = 0
  PROVE  Counted(m)'
<1>1. loop'[current'].pc = "exited" /\ UNCHANGED <<chain, latest, incident>>
  BY DEF StopsAnyhow
<1>2. Alerts(m)' = Alerts(m) /\ Episodes(m)' = Episodes(m)
  BY <1>1 DEF Alerts, Episodes
<1> QED
  BY <1>1, <1>2 DEF Counted, FreshFor, CountedFor, ClosedFor, PassedFor, IsAtWork, HasPassed, Running

LEMMA StoresCount ==
  ASSUME TypeOK, TypeOK', NEW m \in Monitor, Counted(m), Stores
  PROVE  Counted(m)'
<1>1. UNCHANGED <<chain, latest, current, loop, tasks, kv, incident>> /\ latest <= latest'
  BY DEF Stores, TypeOK
<1>2. /\ Alerts(m)' = Alerts(m) /\ OpenOf(m)' = OpenOf(m) /\ StatusOf(m)' = StatusOf(m)
      /\ HasPassed(m)' = HasPassed(m)
  BY <1>1 DEF Alerts, OpenOf, StatusOf, HasPassed, Mine, Waiting, Awaited
<1> QED
  BY <1>1, <1>2, CountSame DEF At

LEMMA MovesCount ==
  ASSUME TypeOK, TypeOK', Match, LoopsKnown, Undisturbed, NEW m \in Monitor, Counted(m), Moves
  PROVE  Counted(m)'
<1>1. /\ UNCHANGED <<chain, latest, current, kv, incident>> /\ IsAtWork /\ IsAtWork'
      /\ loop[current].pc = "persist" /\ loop'[current].pc = "ready" /\ At' = At + 1
      /\ current \in Loop
  BY DEF Moves, IsAtWork, Running, TypeOK, At
<1>2. Alerts(m)' = Alerts(m) /\ OpenOf(m)' = OpenOf(m) /\ Episodes(m)' = Episodes(m)
  BY <1>1 DEF Alerts, OpenOf, Episodes
<1>3. /\ At \in DOMAIN chain /\ At \in Nat \ {0} /\ At <= latest /\ HasPassed(m)
  BY <1>1, NoneOfMine DEF Match, InRange, LoopsKnown, At, Running, HasPassed, TypeOK
<1>4. ~HasPassed(m)' /\ FreshFor(m)'
  BY <1>1 DEF HasPassed, FreshFor
<1>5. /\ IF m \in chain[At].firing THEN OpenOf(m) # {} ELSE kv[m] = None
      /\ Cardinality(Alerts(m)) <= Cardinality(EpisodesTo(m, At))
      /\ kv[m] # None /\ StatusOf(m) = "resolved" => m \notin chain[At].firing
  BY <1>1, <1>3 DEF Counted, PassedFor, CountedFor, ClosedFor, Rests
<1>6. ClosedFor(m)'
  BY <1>1, <1>5 DEF ClosedFor, StatusOf
<1>7. CountedFor(m)'
  <2>1. /\ Cardinality(EpisodesTo(m, At)) <= Cardinality(EpisodesTo(m, At + 1))
        /\ Cardinality(EpisodesTo(m, At)) \in Nat /\ Cardinality(EpisodesTo(m, At + 1)) \in Nat
        /\ Cardinality(Alerts(m)) \in Nat
    BY <1>3, EpisodesGrow, EpisodesFinite, AlertsFinite
  <2>2. CASE m \in chain[At].firing
    BY <1>1, <1>2, <1>5, <2>1, <2>2 DEF CountedFor, EpisodesTo
  <2>3. CASE m \notin chain[At].firing
    <3>1. m \in chain[At + 1].firing =>
            Cardinality(EpisodesTo(m, At + 1)) = Cardinality(EpisodesTo(m, At)) + 1
      BY <1>3, <2>3, OneMore
    <3> QED
      BY <1>1, <1>2, <1>5, <2>1, <3>1 DEF CountedFor, EpisodesTo
  <2> QED
    BY <2>2, <2>3
<1> QED
  BY <1>1, <1>2, <1>4, <1>6, <1>7 DEF Counted, PassedFor

\* What a handler of a condition counts with.
LEMMA MovedCount ==
  ASSUME TypeOK, TypeOK', Match, EntriesKnown, Undisturbed, NEW m \in Monitor, Counted(m), Moved(m)
  PROVE  /\ UNCHANGED <<chain, latest, current, loop>> /\ At' = At /\ IsAtWork /\ IsAtWork'
         /\ FreshFor(m)' /\ Episodes(m)' = Episodes(m)
         /\ At \in DOMAIN chain /\ At \in Nat /\ At <= latest
         /\ \A n : EpisodesTo(m, n)' = EpisodesTo(m, n)
         /\ Cardinality(Alerts(m)) <= Cardinality(EpisodesTo(m, At))
         /\ m \in chain[At].firing /\ OpenOf(m) = {} =>
              Cardinality(Alerts(m)) + 1 <= Cardinality(EpisodesTo(m, At))
         /\ kv[m] # None /\ m \in chain[At].firing => OpenOf(m) # {}
         /\ Rests(m, At)' <=> m \notin chain[At].firing
<1>1. /\ UNCHANGED <<chain, latest, current, loop>> /\ loop[current].pc = "state" /\ At <= latest
      /\ current \in Loop
  BY DEF Moved, TypeOK
<1>2. At' = At /\ IsAtWork /\ IsAtWork' /\ FreshFor(m)' /\ Episodes(m)' = Episodes(m)
      /\ \A n : EpisodesTo(m, n)' = EpisodesTo(m, n)
  BY <1>1 DEF At, IsAtWork, Running, FreshFor, Episodes, EpisodesTo
<1>3. At \in DOMAIN chain /\ At \in Nat
  BY <1>1 DEF Match, InRange, At, Running, TypeOK
<1>4. CountedFor(m) /\ ClosedFor(m)
  BY DEF Counted
<1>5. ASSUME kv[m] # None, m \in chain[At].firing PROVE OpenOf(m) # {}
  <2>1. kv[m].id \in Alerts(m) /\ StatusOf(m) # "resolved"
    BY <1>2, <1>4, <1>5 DEF EntriesKnown, Alerts, ClosedFor, Rests
  <2> QED
    BY <2>1, OpenAlerts DEF StatusOf
<1>6. Rests(m, At)' <=> m \notin chain[At].firing
  BY <1>1, <1>2 DEF Rests
<1> QED
  BY <1>1, <1>2, <1>3, <1>4, <1>5, <1>6 DEF CountedFor

LEMMA LeavesCount ==
  ASSUME TypeOK, TypeOK', Match, EntriesKnown, Undisturbed, NEW m \in Monitor, Counted(m), Leaves(m)
  PROVE  Counted(m)'
<1>1. /\ UNCHANGED <<kv, incident>> /\ Moved(m)
      /\ IF m \in chain[At].firing THEN kv[m] # None ELSE kv[m] = None
  BY DEF Leaves
<1>2. Alerts(m)' = Alerts(m) /\ OpenOf(m)' = OpenOf(m) /\ StatusOf(m)' = StatusOf(m)
  BY <1>1 DEF Alerts, OpenOf, StatusOf
<1>3. CountedFor(m)'
  BY <1>1, <1>2, MovedCount DEF CountedFor
<1>4. ClosedFor(m)'
  BY <1>1, <1>2, MovedCount DEF Counted, ClosedFor, Rests
<1>5. PassedFor(m)'
  BY <1>1, <1>2, MovedCount DEF PassedFor
<1> QED
  BY <1>1, <1>2, <1>3, <1>4, <1>5, MovedCount DEF Counted

LEMMA CreatesCount ==
  ASSUME TypeOK, TypeOK', Match, EntriesKnown, Undisturbed, NEW m \in Monitor, Counted(m), Creates(m)
  PROVE  Counted(m)'
<1>1. /\ kv' = kv /\ Moved(m) /\ ~HasPassed(m)' /\ m \in chain[At].firing /\ OpenOf(m) = {}
      /\ incident' = Append(incident, [monitor |-> m, status |-> "open"])
  BY DEF Creates
<1>2. incident \in Seq(IncidentRow) /\ [monitor |-> m, status |-> "open"] \in IncidentRow
  BY DEF TypeOK, IncidentRow
<1> DEFINE n == Len(incident) + 1
<1>3. /\ \A i \in DOMAIN incident : incident'[i] = incident[i]
      /\ DOMAIN incident' = DOMAIN incident \union {n} /\ n \notin DOMAIN incident
      /\ incident'[n] = [monitor |-> m, status |-> "open"]
  BY <1>1, <1>2
<1>4. Alerts(m)' = Alerts(m) \union {n} /\ n \notin Alerts(m) /\ n \in OpenOf(m)'
  BY <1>3 DEF Alerts, OpenOf
<1>5. Cardinality(Alerts(m)') = Cardinality(Alerts(m)) + 1
  BY <1>4, AlertsFinite, FS_AddElement
<1>6. Cardinality(Alerts(m)) + 1 <= Cardinality(EpisodesTo(m, At))
  BY <1>1, MovedCount
<1>7. Cardinality(Alerts(m)') <= Cardinality(Episodes(m)')
  BY <1>1, <1>5, <1>6, MovedCount, CountNumbers
<1>8. CountedFor(m)'
  BY <1>1, <1>4, <1>5, <1>6, MovedCount DEF CountedFor
<1>9. kv[m] # None => StatusOf(m)' = StatusOf(m)
  BY <1>1, <1>3 DEF StatusOf, EntriesKnown
<1>10. ClosedFor(m)'
  BY <1>1, <1>9, MovedCount DEF Counted, ClosedFor, Rests
<1> QED
  BY <1>1, <1>7, <1>8, <1>10, MovedCount DEF Counted, PassedFor

LEMMA ResolvesCount ==
  ASSUME TypeOK, TypeOK', Match, EntriesKnown, Undisturbed, NEW m \in Monitor, Counted(m), Resolves(m)
  PROVE  Counted(m)'
<1>1. /\ kv' = kv /\ Moved(m) /\ ~HasPassed(m)' /\ m \notin chain[At].firing /\ kv[m] # None
      /\ incident' = [incident EXCEPT ![kv[m].id].status = "resolved"]
  BY DEF Resolves
<1>2. kv[m].id \in DOMAIN incident
  BY <1>1 DEF EntriesKnown
<1>3. /\ DOMAIN incident' = DOMAIN incident
      /\ \A i \in DOMAIN incident : incident'[i].monitor = incident[i].monitor
  BY <1>1, <1>2, Closes
<1>4. Alerts(m)' = Alerts(m)
  BY <1>3 DEF Alerts
<1>5. CountedFor(m)'
  BY <1>1, <1>4, MovedCount DEF CountedFor
<1>6. ClosedFor(m)'
  BY <1>1, MovedCount DEF ClosedFor
<1> QED
  BY <1>1, <1>4, <1>5, <1>6, MovedCount DEF Counted, PassedFor

LEMMA RecordsCount ==
  ASSUME TypeOK, TypeOK', Match, EntriesKnown, Undisturbed, NEW m \in Monitor, Counted(m), Records(m)
  PROVE  Counted(m)'
<1>1. incident' = incident /\ Moved(m) /\ m \in chain[At].firing
  BY DEF Records
<1>2. PICK i \in DOMAIN incident :
        /\ incident[i].monitor = m /\ incident[i].status # "resolved"
        /\ kv' = [kv EXCEPT ![m] = [id |-> i, isDue |-> FALSE]]
  BY DEF Records
<1>3. Alerts(m)' = Alerts(m) /\ OpenOf(m)' = OpenOf(m)
  BY <1>1 DEF Alerts, OpenOf
<1>4. i \in OpenOf(m)
  BY <1>2, OpenAlerts DEF Alerts
<1>5. kv'[m] = [id |-> i, isDue |-> FALSE]
  BY <1>2 DEF TypeOK
<1>6. StatusOf(m)' # "resolved"
  BY <1>1, <1>2, <1>5 DEF StatusOf
<1>7. CountedFor(m)'
  BY <1>1, <1>3, MovedCount DEF CountedFor
<1>8. ClosedFor(m)' /\ PassedFor(m)'
  BY <1>1, <1>3, <1>4, <1>6, MovedCount DEF ClosedFor, PassedFor
<1> QED
  BY <1>1, <1>3, <1>7, <1>8, MovedCount DEF Counted

LEMMA ForgetsCount ==
  ASSUME TypeOK, TypeOK', Match, EntriesKnown, Undisturbed, NEW m \in Monitor, Counted(m), Forgets(m)
  PROVE  Counted(m)'
<1>1. incident' = incident /\ Moved(m) /\ m \notin chain[At].firing
  BY DEF Forgets
<1>2. kv'[m] = None
  BY DEF Forgets, TypeOK
<1>3. Alerts(m)' = Alerts(m) /\ OpenOf(m)' = OpenOf(m)
  BY <1>1 DEF Alerts, OpenOf
<1>4. CountedFor(m)'
  BY <1>1, <1>3, MovedCount DEF CountedFor
<1>5. ClosedFor(m)' /\ PassedFor(m)'
  BY <1>1, <1>2, MovedCount DEF ClosedFor, PassedFor
<1> QED
  BY <1>1, <1>3, <1>4, <1>5, MovedCount DEF Counted

LEMMA FallsCount ==
  ASSUME TypeOK, TypeOK', NEW m \in Monitor, Counted(m), NEW n \in Monitor, Falls(n)
  PROVE  Counted(m)'
<1>1. UNCHANGED <<chain, latest, current, loop>> /\ latest <= latest'
  BY DEF Falls, TypeOK
<1> QED
  BY <1>1, FallsSame, CountSame DEF At

LEMMA OthersCount ==
  ASSUME TypeOK, TypeOK', EntriesKnown, NEW m \in Monitor, NEW n \in Monitor, n # m,
         Counted(n), Handled(m)
  PROVE  Counted(n)'
<1>1. UNCHANGED <<chain, latest, current, loop>> /\ latest <= latest'
  BY DEF Handled, Leaves, Creates, Resolves, Records, Forgets, Moved, TypeOK
<1>2. kv[n] # None => StatusOf(n)' = StatusOf(n)
  BY OthersSame DEF StatusOf
<1> QED
  BY <1>1, <1>2, OthersSame, CountSame DEF At

LEMMA UnnoticedCount ==
  ASSUME TypeOK, TypeOK', NEW m \in Monitor, Counted(m), Unnoticed
  PROVE  Counted(m)'
<1>1. Alerts(m)' = Alerts(m) /\ OpenOf(m)' = OpenOf(m) /\ StatusOf(m)' = StatusOf(m)
  BY DEF Unnoticed, Alerts, OpenOf, StatusOf
<1> QED
  BY <1>1, CountSame DEF Unnoticed, At

LEMMA CountStep ==
  ASSUME TypeOK, TypeOK', Match, Match', Known, CountInv, Next
  PROVE  CountInv'
<1> SUFFICES ASSUME Undisturbed', NEW m \in Monitor PROVE Counted(m)'
  BY DEF CountInv
<1>1. Undisturbed /\ Counted(m) /\ EntriesKnown /\ LoopsKnown
  BY UndisturbedBefore DEF CountInv, Known
<1>2. Unnoticed \/ Noticed
  BY StepSeen DEF Undisturbed
<1>3. ASSUME NEW n \in Monitor, Handled(n) PROVE Counted(m)'
  <2>1. CASE n # m
    BY <1>1, <1>3, <2>1, OthersCount
  <2>2. CASE n = m
    BY <1>1, <1>3, <2>2, LeavesCount, CreatesCount, ResolvesCount, RecordsCount, ForgetsCount
       DEF Handled
  <2> QED
    BY <2>1, <2>2
<1>4. ASSUME NEW i \in DOMAIN incident, Closed(i) PROVE FALSE
  <2>1. i \in DOMAIN incident' /\ incident'[i].status = "manual"
    BY <1>4, Closes DEF Closed
  <2> QED
    BY <2>1 DEF Undisturbed
<1> QED
  BY <1>1, <1>2, <1>3, <1>4, UnnoticedCount, StartsCount, StopsCount, StoresCount, MovesCount, FallsCount
     DEF Noticed, Undisturbed

LEMMA InitCount == Init => CountInv
<1> SUFFICES ASSUME Init, NEW m \in Monitor PROVE Counted(m)
  BY DEF CountInv
<1>0. TypeOK
  BY InitType
<1>1. /\ loop[current].pc = "boot" /\ kv[m] = None /\ latest = 1
  BY DEF Init
<1>2. /\ \A i \in Alerts(m) : m \in chain[1].firing
      /\ \A i, j \in Alerts(m) : i = j
      /\ Alerts(m) = OpenOf(m)
  <2>1. \A i : i \in Alerts(m) <=> i \in OpenOf(m)
    BY <1>0, InitIncidents, OpenIs DEF Alerts
  <2> QED
    BY <2>1, InitIncidents DEF Alerts
<1>3. Cardinality(Alerts(m)) <= Cardinality(Episodes(m))
  <2>1. Episodes(m) = EpisodesTo(m, 1)
    BY <1>1 DEF Episodes, EpisodesTo
  <2>2. Cardinality(EpisodesTo(m, 1)) \in Nat
    BY EpisodesFinite
  <2>3. CASE Alerts(m) = {}
    BY <2>1, <2>2, <2>3, FS_EmptySet
  <2>4. CASE Alerts(m) # {}
    <3>1. PICK i \in Alerts(m) : TRUE
      BY <2>4
    <3>2. Alerts(m) = {i}
      BY <1>2, <3>1
    <3>3. Cardinality(Alerts(m)) = 1
      BY <3>2, FS_Singleton
    <3>4. Cardinality(EpisodesTo(m, 1)) >= 1
      BY <1>2, <3>1, SomeEpisode
    <3> QED
      BY <2>1, <2>2, <3>3, <3>4
  <2> QED
    BY <2>3, <2>4
<1>4. FreshFor(m)
  BY <1>1, <1>2 DEF FreshFor
<1> QED
  BY <1>1, <1>3, <1>4 DEF Counted, CountedFor, ClosedFor, PassedFor, IsAtWork, HasPassed, Running

LEMMA CountedNow == CountInv => OneAlertUnlessRestarted
  BY DEF CountInv, Counted, Undisturbed, OneAlertUnlessRestarted, OneAlertPerEpisode

LEMMA WatchStutter ==
  ASSUME Known, AgreeInv, CountInv, UNCHANGED vars
  PROVE  Known' /\ AgreeInv' /\ CountInv'
<1> USE DEF vars, world, service, store, history
<1>1. /\ \A m : Mine(m)' = Mine(m) /\ OpenOf(m)' = OpenOf(m) /\ Alerts(m)' = Alerts(m)
      /\ \A m : StatusOf(m)' = StatusOf(m) /\ HasPassed(m)' = HasPassed(m)
      /\ Position' = Position /\ At' = At
  BY DEF Mine, Waiting, Awaited, OpenOf, Alerts, StatusOf, HasPassed, Position, At
<1>2. TasksKnown' /\ EntriesKnown' /\ OneOpen' /\ LoopsKnown'
  BY <1>1 DEF Known, TasksKnown, TaskKnown, EntriesKnown, OneOpen, LoopsKnown, Awaited
<1>3. OneHandler' <=> OneHandler
  BY <1>1 DEF OneHandler
<1>4. MineKnown' <=> MineKnown
  BY <1>1 DEF MineKnown, HandlerKnown
<1>5. StoreKnown' <=> StoreKnown
  BY <1>1 DEF StoreKnown, IsOwn, IsRunning, Awaited
<1>6. \A m, b : (Fires(m, b)' <=> Fires(m, b)) /\ (Rests(m, b)' <=> Rests(m, b))
  BY DEF Fires, Rests
<1>7. \A m : Agrees(m)' <=> Agrees(m)
  BY <1>1, <1>6 DEF Agrees, OpenHasCause, UnknownHasCause, ResolvedHasCause, OtherIsDue,
                    EntryHasCause, PassedAgrees
<1>8. \A m : Counted(m)' <=> Counted(m)
  <2>1. \A m : Episodes(m)' = Episodes(m) /\ \A n : EpisodesTo(m, n)' = EpisodesTo(m, n)
    BY DEF Episodes, EpisodesTo
  <2> QED
    BY <1>1, <1>6, <2>1 DEF Counted, FreshFor, CountedFor, ClosedFor, PassedFor, IsAtWork
<1> QED
  BY <1>2, <1>3, <1>4, <1>5, <1>7, <1>8 DEF Known, AgreeInv, Agreement, CountInv, Undisturbed

-----------------------------------------------------------------------------
(***************************************************************************)
(* The initial states, and the theorems.                                   *)
(***************************************************************************)
LEMMA InitMatch == Init => Match
<1> SUFFICES ASSUME Init PROVE Match
  OBVIOUS
<1>1. TasksMatch /\ PutsMatch
  BY DEF Init, TasksMatch, PutsMatch
<1>2. InRange
  BY DEF Init, InRange, Running
<1> QED
  BY <1>1, <1>2 DEF Match

LEMMA InitReports == Init => ReportInv
<1> SUFFICES ASSUME Init PROVE ReportInv
  OBVIOUS
<1>1. DOMAIN chain = 1 .. Len(chain) /\ 1 \in DOMAIN chain
  BY ChainsAssumption DEF Init
<1>2. IsReported(1)
  BY DEF Init, Reports, IsReported, Reported
<1>3. ReportedTo(0) /\ ReportedTo(1)
  BY <1>1, <1>2 DEF ReportedTo, IsReported
<1>4. LoopsReported
  BY <1>3 DEF Init, LoopsReported, Running
<1>5. EventPending /\ TasksReported /\ PutsReported /\ ReportedTo(watermark)
  BY <1>3 DEF Init, EventPending, TasksReported, PutsReported
<1> QED
  BY <1>4, <1>5 DEF ReportInv

LEMMA Stutter == IInv /\ UNCHANGED vars => IInv'
<1> SUFFICES ASSUME IInv, UNCHANGED vars PROVE IInv'
  OBVIOUS
<1> USE DEF vars, world, store, service, history
<1>1. TypeOK'
  BY DEF IInv, TypeOK
<1>2. Match'
  BY DEF IInv, Match, TasksMatch, PutsMatch, InRange, Awaited
<1>3. ReportInv'
  <2>1. \A b : IsReported(b) => IsReported(b)'
    BY DEF IsReported, Reported
  <2>2. LoopsReported' /\ PutsReported' /\ ReportedTo(watermark)'
    BY <2>1 DEF IInv, ReportInv, LoopsReported, PutsReported, ReportedTo
  <2>3. EventPending' /\ TasksReported'
    BY DEF IInv, ReportInv, EventPending, TasksReported, Waiting, Awaited, Reported
  <2> QED
    BY <2>2, <2>3 DEF ReportInv
<1> QED
  BY <1>1, <1>2, <1>3 DEF IInv

LEMMA StoredAreReported == IInv => NoReportLost
<1> SUFFICES ASSUME IInv, NEW b \in Stored, NEW r \in Reports(b, "event")
             PROVE  r \in reported
  BY DEF NoReportLost
<1>1. b \in DOMAIN chain /\ b \in Nat /\ b <= watermark /\ ~IsSkipped(b)
  BY DEF Stored, IInv, TypeOK
<1>2. IsReported(b)
  BY <1>1 DEF IInv, ReportInv, ReportedTo
<1>3. PICK m \in chain[b].event : r = [monitor |-> m, block |-> b, kind |-> "event"]
  BY DEF Reports
<1> QED
  BY <1>1, <1>2, <1>3 DEF IsReported, Reported

LEMMA Inductive == Spec => []IInv
<1>1. Init => IInv
  BY InitType, InitMatch, InitReports DEF IInv
<1>2. IInv /\ [Next]_vars => IInv'
  BY StepType, MatchStep, ReportStep, Stutter DEF IInv, Match
<1> QED
  BY <1>1, <1>2, PTL DEF Spec

WatchInv == Known /\ AgreeInv /\ CountInv

LEMMA Watched == Spec => []WatchInv
<1>1. Init => WatchInv
  BY InitKnown, InitCount DEF WatchInv
<1>2. ASSUME IInv, IInv', WatchInv, [Next]_vars PROVE WatchInv'
  <2>1. CASE Next
    BY <1>2, <2>1, KnownStep, AgreeStep, CountStep DEF IInv, WatchInv
  <2>2. CASE UNCHANGED vars
    BY <1>2, <2>2, WatchStutter DEF WatchInv
  <2> QED
    BY <1>2, <2>1, <2>2
<1> QED
  BY <1>1, <1>2, Inductive, PTL DEF Spec

\* The loops, handlers, requests and tables keep their types: what a stale
\* answer or a late request does to the KV store and the incidents included.
THEOREM WatcherTypeCorrect == Spec => []TypeOK
<1>1. IInv => TypeOK
  BY DEF IInv
<1> QED
  BY <1>1, Inductive, PTL

\* A block that setLastBlock has stored (watcher.ts, loop) has its event
\* reports at the incident service, so that a restart, which begins there,
\* loses none of them: for any number of monitors, blocks, failures, hung
\* calls, requests served late, rebuilds and restarts.
THEOREM NoReportIsLost == Spec => []NoReportLost
  BY Inductive, StoredAreReported, PTL

\* A watcher that is up to date and the incident service agree on every
\* condition (incident-handler.ts, handle): tracked and open, or closed by hand,
\* where it holds, neither where it does not.  For any monitors and chains, and
\* through any restarts, rebuilds, retries, failures and hung calls, as long as
\* nothing that was given up has an effect; a startBlock may leave blocks out.
THEOREM WatcherAndServiceAgree == Spec => []AgreesUnlessStray
<1>1. IInv /\ WatchInv => AgreesUnlessStray
  BY AgreedNow DEF IInv, WatchInv, Known
<1> QED
  BY <1>1, Inductive, Watched, PTL

\* A process that lives on makes at most one incident for each time a condition
\* begins to hold: a retry of a block (watcher.ts, loop) finds the entry the
\* attempt before has made, or the open incident that its lost answer was about.
THEOREM OneAlertAnEpisode == Spec => []OneAlertUnlessRestarted
<1>1. WatchInv => OneAlertUnlessRestarted
  BY CountedNow DEF WatchInv
<1> QED
  BY <1>1, Watched, PTL
=============================================================================
