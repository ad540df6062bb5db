----------------------- MODULE WatcherService_proofs -----------------------
(***************************************************************************)
(* Type correctness of WatcherService, and four of its properties: one     *)
(* watcher works at a time, no block is left out, blocks are processed     *)
(* with the configuration as it is, and the alerts tell what holds; for    *)
(* any edits, blocks, failures, crashes and restarts.                      *)
(***************************************************************************)
EXTENDS WatcherService, TLAPS

\* The block a watcher is at is one of the chain; a process that is down has none.
IsPlaced(v) ==
  /\ v.pc \in {"loop", "block", "persist"} => v.next >= 1
  /\ v.pc \in {"block", "persist"} => v.next <= latest

Placed ==
  /\ \A w \in Watcher : IsPlaced(watcher[w])
  /\ up = "down" => \A w \in Watcher : watcher[w].pc = "off"

-----------------------------------------------------------------------------
(***************************************************************************)
(* Types.                                                                  *)
(***************************************************************************)
\* The edits are numbered from 1.
LEMMA EditsAreNumbered ==
  ASSUME NEW d \in Directories
  PROVE  1 \in DOMAIN Verdicts[d] /\ DOMAIN Verdicts[d] \subseteq Nat \ {0}
<1>1. Len(d) \in Nat \ {0} /\ DOMAIN d = 1 .. Len(d)
  BY DirectoriesAssumption
<1>2. DOMAIN Verdicts[d] = DOMAIN d
  BY DEF Verdicts
<1> QED
  BY <1>1, <1>2

LEMMA OffType == Off \in WatcherState /\ Connecting \in WatcherState
<1>1. 0 \in 0 .. MaxBlock + 1
  BY ServiceAssumption
<1>2. Off \in WatcherState
  BY <1>1 DEF Off, WatcherState
<1>4. Connecting \in WatcherState
  BY <1>2 DEF Connecting, WatcherState
<1> QED
  BY <1>2, <1>4

LEMMA InitType == Init => TypeOK
<1> SUFFICES ASSUME Init PROVE TypeOK
  OBVIOUS
<1>1. verdict \in {Verdicts[d] : d \in Directories} /\ edit \in DOMAIN verdict
  BY EditsAreNumbered DEF Init
<1>2. watcher \in [Watcher -> WatcherState]
  <2>1. Off \in WatcherState
    BY OffType
  <2> QED
    BY <2>1 DEF Init
<1>3. kv \in Entries /\ guard.stalled = 0
  BY DEF Init, EmptyMap, Entries, NoProgress
<1>4. guard \in [last : Block \union {None}, stalled : 0 .. ExitAfter, rebuilt : BOOLEAN,
                isPersisting : BOOLEAN]
  BY ServiceAssumption DEF Init, NoProgress
<1>5. startBlock \in StartBlocks /\ latest \in Block /\ failures \in 0 .. MaxFailures
  BY ServiceAssumption DEF Init, Block
<1> QED
  BY <1>1, <1>2, <1>3, <1>4, <1>5 DEF Init, TypeOK

\* The snapshot the loader serves has been read.
LEMMA LoadType ==
  ASSUME TypeOK, LoadSnapshot
  PROVE  /\ edit' \in DOMAIN verdict /\ UNCHANGED verdict
         /\ cachedSnapshot' \in Snapshot \union {None}
         /\ Snapshot' = Snapshot /\ WatcherState' = WatcherState
  BY DEF TypeOK, LoadSnapshot, Loaded, Snapshot, WatcherState

LEMMA HaltType ==
  ASSUME TypeOK, Halt, UNCHANGED verdict
  PROVE  up' = "down" /\ watcher' \in [Watcher -> WatcherState']
<1>1. Off \in WatcherState' /\ WatcherState' = WatcherState
  BY OffType DEF WatcherState
<1> QED
  BY <1>1 DEF Halt

LEMMA FlushedType ==
  ASSUME TypeOK
  PROVE  Flushed \in Entries
  BY DEF TypeOK, Flushed, Entries, WatcherState

LEMMA ConfiguredType ==
  ASSUME NEW v \in WatcherState, UNCHANGED verdict, cachedSnapshot' \in Snapshot
  PROVE  /\ Configured(v) \in WatcherState
         /\ Configured(v).pc = v.pc /\ Configured(v).isRunning = v.isRunning
         /\ Configured(v).next = v.next /\ Configured(v).done = v.done /\ Configured(v).isHung = v.isHung
  BY DEF Configured, WatcherState, Snapshot

-----------------------------------------------------------------------------
\* One watcher moves on, the process goes on.
LEMMA OneMoves ==
  ASSUME TypeOK, Placed, NEW w \in Watcher, watcher[w].pc # "off",
         NEW c \in WatcherState, IsPlaced(c),
         UNCHANGED <<verdict, latest, up>>, watcher' = [watcher EXCEPT ![w] = c]
  PROVE  watcher' \in [Watcher -> WatcherState'] /\ Placed'
<1>1. WatcherState' = WatcherState
  BY DEF WatcherState
<1>2. watcher \in [Watcher -> WatcherState] /\ up # "down"
  BY DEF TypeOK, Placed
<1>3. watcher' \in [Watcher -> WatcherState']
  BY <1>1, <1>2
<1>4. \A v \in Watcher : watcher'[v] = c \/ watcher'[v] = watcher[v]
  BY <1>2
<1> QED
  BY <1>2, <1>3, <1>4 DEF Placed, IsPlaced

LEMMA OneIs ==
  ASSUME TypeOK, Placed, NEW w \in Watcher
  PROVE  \E v \in WatcherState : v = watcher[w] /\ IsPlaced(v)
  BY DEF TypeOK, Placed

\* The process ends.
LEMMA HaltPlaced ==
  ASSUME TypeOK, Halt, UNCHANGED verdict
  PROVE  watcher' \in [Watcher -> WatcherState'] /\ Placed'
<1>1. \A w \in Watcher : watcher'[w].pc = "off"
  BY DEF Halt, Off
<1> QED
  BY <1>1, HaltType DEF Placed, IsPlaced

\* The rest of the state, when the chain stands still.
LEMMA RestType ==
  ASSUME TypeOK, UNCHANGED <<verdict, chain, storeType>>, edit' \in DOMAIN verdict,
         cachedSnapshot' \in Snapshot \union {None},
         kv' \in Entries, isDirty' \in BOOLEAN, file' \in Entries \union {None},
         up' \in {"running", "ending", "down"}, watcher' \in [Watcher -> WatcherState'],
         current' \in Watcher \union {None},
         guard' \in [last : Block \union {None}, stalled : 0 .. ExitAfter, rebuilt : BOOLEAN,
                    isPersisting : BOOLEAN],
         shown' \in BOOLEAN, processed' \subseteq 1 .. latest, failures' \in 0 .. MaxFailures,
         forgot' \in BOOLEAN, overtaken' \in BOOLEAN
  PROVE  TypeOK'
  BY DEF TypeOK, chain, Snapshot

LEMMA FailType ==
  ASSUME TypeOK, Fail \/ UNCHANGED failures
  PROVE  failures' \in 0 .. MaxFailures
  BY ServiceAssumption DEF TypeOK, Fail

LEMMA BootstrapType ==
  ASSUME TypeOK, Placed, Bootstrap
  PROVE  TypeOK' /\ Placed'
<1>1. 1 \in Watcher
  BY ServiceAssumption DEF Watcher
<1>2. watcher' = [watcher EXCEPT ![1] = Connecting] /\ UNCHANGED verdict /\ up = "down" /\ up' = "running"
  BY DEF Bootstrap
<1>3. WatcherState' = WatcherState
  BY <1>2 DEF WatcherState
<1>4. watcher' \in [Watcher -> WatcherState']
  BY <1>1, <1>2, <1>3, OffType DEF TypeOK
<1>5. Connecting.pc = "connecting"
  BY DEF Connecting, Off
<1>6. \A w \in Watcher : watcher'[w].pc \in {"connecting", "off"}
  BY <1>1, <1>2, <1>5 DEF TypeOK, Placed
<1>7. Placed'
  BY <1>2, <1>6 DEF Placed, IsPlaced
<1>8. Load \in Entries
  BY DEF TypeOK, Load, Or, EmptyMap, Entries
<1>9. guard' \in [last : Block \union {None}, stalled : 0 .. ExitAfter, rebuilt : BOOLEAN,
                 isPersisting : BOOLEAN]
  <2>1. 0 \in 0 .. ExitAfter
    BY ServiceAssumption
  <2> QED
    BY <2>1 DEF Bootstrap, NoProgress
<1>10. TypeOK'
  BY <1>4, <1>8, <1>9, RestType DEF Bootstrap, TypeOK, history, effects
<1> QED
  BY <1>7, <1>10

LEMMA CrashType ==
  ASSUME TypeOK, Placed, Crash
  PROVE  TypeOK' /\ Placed'
<1>1. watcher' \in [Watcher -> WatcherState'] /\ Placed' /\ up' = "down"
  BY HaltPlaced DEF Crash, loader, Halt
<1>2. failures' \in 0 .. MaxFailures
  BY FailType DEF Crash
<1>3. file' \in Entries \union {None}
  BY DEF Crash, TypeOK
<1>4. TypeOK'
  BY <1>1, <1>2, <1>3, RestType DEF Crash, TypeOK, history, effects, loader, Snapshot
<1> QED
  BY <1>1, <1>4

LEMMA ExitType ==
  ASSUME TypeOK, Placed, Exit
  PROVE  TypeOK' /\ Placed'
<1>1. watcher' \in [Watcher -> WatcherState'] /\ Placed' /\ up' = "down"
  BY HaltPlaced DEF Exit, loader, Halt
<1>2. TypeOK'
  BY <1>1, RestType DEF Exit, TypeOK, history, effects, loader, fileStore, Snapshot
<1> QED
  BY <1>1, <1>2

LEMMA StoppedType ==
  ASSUME NEW w, NEW v \in WatcherState, v = watcher[w], IsPlaced(v)
  PROVE  /\ Stopped(w) \in WatcherState /\ IsPlaced(Stopped(w)) /\ ~Stopped(w).isRunning
         /\ Stopped(w).pc \in {v.pc, "loop"} /\ Stopped(w).next = v.next
         /\ Stopped(w).pc # v.pc => v.pc = "block" /\ v.isHung
         /\ v.isHung => Stopped(w).pc # "block"
         /\ Stopped(w).done = v.done
         /\ Stopped(w).fingerprint = v.fingerprint /\ Stopped(w).groups = v.groups
  BY DEF Stopped, WatcherState, IsPlaced

LEMMA TerminateType ==
  ASSUME TypeOK, Placed, Terminate
  PROVE  TypeOK' /\ Placed'
<1>1. Flushed \in Entries /\ Written(Flushed) \in Entries \union {None}
  BY FlushedType DEF Written, TypeOK
<1>2. WatcherState' = WatcherState
  BY DEF Terminate, loader, WatcherState
<1>3. watcher' \in [Watcher -> WatcherState] /\ \A w \in Watcher : IsPlaced(watcher'[w])
  <2>1. CASE current = None
    BY <2>1 DEF Terminate, TypeOK, Placed
  <2>2. CASE current # None
    <3>1. PICK v \in WatcherState : v = watcher[current] /\ IsPlaced(v)
      BY <2>2, OneIs DEF TypeOK
    <3>2. Stopped(current) \in WatcherState /\ IsPlaced(Stopped(current))
      BY <3>1, StoppedType
    <3> QED
      BY <2>2, <3>2 DEF Terminate, TypeOK, Placed
  <2> QED
    BY <2>1, <2>2
<1>4. Placed'
  BY <1>3 DEF Terminate, chain, Placed, IsPlaced
<1>5. failures' \in 0 .. MaxFailures
  BY FailType DEF Terminate
<1>6. TypeOK'
  BY <1>1, <1>2, <1>3, <1>5, RestType DEF Terminate, TypeOK, history, effects, loader, Snapshot
<1> QED
  BY <1>4, <1>6

\* A start that fails ends the process.
LEMMA StartFailsType ==
  ASSUME TypeOK, Placed, NEW w \in Watcher, StartFails(w), UNCHANGED verdict
  PROVE  /\ watcher' \in [Watcher -> WatcherState'] /\ Placed' /\ up' = "down"
         /\ kv' \in Entries /\ file' \in Entries \union {None} /\ isDirty' \in BOOLEAN
         /\ UNCHANGED <<storeType, current, guard>>
<1>1. Flushed \in Entries /\ Written(Flushed) \in Entries \union {None}
  BY FlushedType DEF Written, TypeOK
<1>2. Halt
  BY DEF StartFails, Fatal
<1>3. watcher' \in [Watcher -> WatcherState'] /\ Placed' /\ up' = "down"
  BY <1>2, HaltPlaced DEF Halt
<1> QED
  BY <1>1, <1>3 DEF StartFails, Fatal, TypeOK, fileStore

LEMMA ConnectedType ==
  ASSUME TypeOK, Placed, NEW w \in Watcher, Connected(w)
  PROVE  TypeOK' /\ Placed'
<1>1. /\ edit' \in DOMAIN verdict /\ UNCHANGED verdict
      /\ cachedSnapshot' \in Snapshot \union {None} /\ WatcherState' = WatcherState
  BY LoadType DEF Connected
<1>2. CASE cachedSnapshot' = None
  <2>1. StartFails(w)
    BY <1>2 DEF Connected
  <2> QED
    BY <1>1, <2>1, StartFailsType, RestType DEF Connected, TypeOK, history, effects
<1>3. CASE cachedSnapshot' # None
  <2>1. PICK v \in WatcherState : v = watcher[w]
    BY DEF TypeOK
  <2>2. v.pc = "connecting"
    BY <2>1 DEF Connected
  <2>3. PICK s \in WatcherState : s = [v EXCEPT !.pc = "starting", !.isRunning = TRUE]
    BY DEF WatcherState
  <2>4. s.pc = "starting"
    BY <2>3 DEF WatcherState
  <2>5. PICK c \in WatcherState : c = Configured(s) /\ c.pc = "starting"
    BY <1>1, <1>3, <2>4, ConfiguredType
  <2>6. watcher' = [watcher EXCEPT ![w] = c] /\ current' = w /\ UNCHANGED <<fileStore, up, guard>>
    BY <1>3, <2>1, <2>3, <2>5 DEF Connected, Goes
  <2>7. watcher' \in [Watcher -> WatcherState'] /\ Placed'
    BY <1>1, <2>1, <2>2, <2>5, <2>6, OneMoves DEF IsPlaced, Connected, chain
  <2> QED
    BY <1>1, <2>6, <2>7, RestType DEF Connected, TypeOK, history, effects, fileStore
<1> QED
  BY <1>2, <1>3

LEMMA StartedType ==
  ASSUME TypeOK, Placed, NEW w \in Watcher, Started(w)
  PROVE  TypeOK' /\ Placed'
<1>1. PICK v \in WatcherState : v = watcher[w] /\ v.pc = "starting"
  BY DEF TypeOK, Started
<1>2. PICK n \in Block : n = FirstBlock(w)
  BY ServiceAssumption DEF TypeOK, FirstBlock, Entries, Or, Block
<1>3. n \in 0 .. MaxBlock + 1 /\ n >= 1
  BY ServiceAssumption DEF Block
<1>4. PICK c : c = [v EXCEPT !.pc = "loop", !.next = n]
  OBVIOUS
<1>5. c \in WatcherState /\ IsPlaced(c)
  BY <1>3, <1>4 DEF WatcherState, IsPlaced
<1>6. watcher' = [watcher EXCEPT ![w] = c]
  BY <1>1, <1>2, <1>4 DEF Started, Goes
<1>7. watcher' \in [Watcher -> WatcherState'] /\ Placed'
  BY <1>1, <1>5, <1>6, OneMoves DEF Started, loader, chain
<1> QED
  BY <1>7, RestType DEF Started, TypeOK, effects, loader, fileStore, Snapshot

LEMMA RefusedType ==
  ASSUME TypeOK, Placed, NEW w \in Watcher, Refused(w)
  PROVE  TypeOK' /\ Placed'
<1>1. failures' \in 0 .. MaxFailures
  BY FailType DEF Refused
<1>2. StartFails(w) /\ UNCHANGED verdict
  BY DEF Refused, loader
<1> QED
  BY <1>1, <1>2, StartFailsType, RestType DEF Refused, TypeOK, history, effects, loader, Snapshot

LEMMA LeaveLoopType ==
  ASSUME TypeOK, Placed, NEW w \in Watcher, LeaveLoop(w)
  PROVE  TypeOK' /\ Placed'
<1>1. PICK c \in WatcherState : c = Off
  BY OffType
<1>2. IsPlaced(c)
  BY <1>1 DEF IsPlaced, Off
<1>3. watcher' \in [Watcher -> WatcherState'] /\ Placed'
  BY <1>1, <1>2, OneMoves DEF LeaveLoop, Goes, loader, chain
<1> QED
  BY <1>3, RestType DEF LeaveLoop, TypeOK, effects, loader, fileStore, history, Snapshot

\* A watcher in its loop has been configured.
LEMMA BeginBlockType ==
  ASSUME TypeOK, Placed, NEW w \in Watcher, BeginBlock(w), cachedSnapshot' # None
  PROVE  TypeOK' /\ Placed'
<1>1. /\ edit' \in DOMAIN verdict /\ UNCHANGED verdict
      /\ cachedSnapshot' \in Snapshot \union {None} /\ WatcherState' = WatcherState
  BY LoadType DEF BeginBlock
<1>2. PICK v \in WatcherState : v = watcher[w] /\ IsPlaced(v) /\ v.pc = "loop" /\ v.next <= latest
  BY OneIs DEF BeginBlock
<1>3. PICK s \in WatcherState : s = Configured(v) /\ s.pc = "loop" /\ s.next = v.next
  BY <1>1, <1>2, ConfiguredType
<1>4. PICK c : c = IF verdict[s.groups].isWatching THEN [s EXCEPT !.pc = "block"] ELSE s
  OBVIOUS
<1>5. c \in WatcherState /\ IsPlaced(c)
  BY <1>2, <1>3, <1>4 DEF WatcherState, IsPlaced
<1>6. watcher' = [watcher EXCEPT ![w] = c]
  BY <1>2, <1>3, <1>4 DEF BeginBlock, Goes
<1>7. watcher' \in [Watcher -> WatcherState'] /\ Placed'
  BY <1>1, <1>2, <1>5, <1>6, OneMoves DEF BeginBlock, chain
<1> QED
  BY <1>1, <1>7, RestType DEF BeginBlock, TypeOK, effects, fileStore, history

\* What handle does to the store and the alerts.
LEMMA SetType ==
  ASSUME TypeOK, NEW key \in {"last", "ongoing"}, NEW value,
         key = "last" => value \in Block, key = "ongoing" => value = "open", Set(key, value)
  PROVE  kv' \in Entries /\ isDirty' \in BOOLEAN
  BY DEF TypeOK, Set, Entries

LEMMA ReportStateType ==
  ASSUME TypeOK, Placed, NEW w \in Watcher, ReportState(w)
  PROVE  TypeOK' /\ Placed'
<1>1. PICK v \in WatcherState : v = watcher[w] /\ IsPlaced(v) /\ v.pc = "block"
  BY OneIs DEF ReportState
<1>2. PICK c : c = [v EXCEPT !.pc = "persist"]
  OBVIOUS
<1>3. c \in WatcherState /\ IsPlaced(c)
  BY <1>1, <1>2 DEF WatcherState, IsPlaced
<1>4. watcher' = [watcher EXCEPT ![w] = c]
  BY <1>1, <1>2 DEF ReportState, Goes
<1>5. watcher' \in [Watcher -> WatcherState'] /\ Placed'
  BY <1>1, <1>3, <1>4, OneMoves DEF ReportState, loader, chain
<1>6. kv' \in Entries /\ isDirty' \in BOOLEAN /\ shown' \in BOOLEAN
  <2>1. \/ shown' = TRUE /\ Set("ongoing", "open")
        \/ shown' = FALSE /\ Del("ongoing")
        \/ UNCHANGED <<shown, kv, isDirty>>
    BY DEF ReportState
  <2>2. CASE shown' = TRUE /\ Set("ongoing", "open")
    BY <2>2, SetType
  <2>3. CASE shown' = FALSE /\ Del("ongoing")
    BY <2>3 DEF Del, TypeOK, Entries
  <2> QED
    BY <2>1, <2>2, <2>3 DEF TypeOK
<1> QED
  BY <1>5, <1>6, RestType DEF ReportState, TypeOK, loader, history, Snapshot

LEMMA BlockFailsType ==
  ASSUME TypeOK, Placed, NEW w \in Watcher, BlockFails(w)
  PROVE  TypeOK' /\ Placed'
<1>1. PICK v \in WatcherState : v = watcher[w] /\ IsPlaced(v) /\ v.pc = "block"
  BY OneIs DEF BlockFails
<1>2. PICK c : c = [v EXCEPT !.pc = "loop", !.isHung = FALSE]
  OBVIOUS
<1>3. c \in WatcherState /\ IsPlaced(c)
  BY <1>1, <1>2 DEF WatcherState, IsPlaced
<1>4. watcher' = [watcher EXCEPT ![w] = c]
  BY <1>1, <1>2 DEF BlockFails, Goes
<1>5. watcher' \in [Watcher -> WatcherState'] /\ Placed'
  BY <1>1, <1>3, <1>4, OneMoves DEF BlockFails, loader, chain
<1>6. failures' \in 0 .. MaxFailures
  BY FailType DEF BlockFails
<1>7. shown' \in BOOLEAN
  BY DEF BlockFails, TypeOK
<1> QED
  BY <1>5, <1>6, <1>7, RestType DEF BlockFails, TypeOK, loader, fileStore, history, Snapshot

LEMMA SetLastBlockType ==
  ASSUME TypeOK, Placed, NEW w \in Watcher, SetLastBlock(w)
  PROVE  TypeOK' /\ Placed'
<1>1. PICK v \in WatcherState : v = watcher[w] /\ IsPlaced(v) /\ v.pc = "persist"
  BY OneIs DEF SetLastBlock
<1>2. v.next \in 1 .. latest /\ v.next \in Block /\ v.next + 1 \in 0 .. MaxBlock + 1 /\ v.next + 1 >= 1
  BY <1>1, ServiceAssumption DEF IsPlaced, TypeOK, WatcherState, Block
<1>3. PICK c : c = [v EXCEPT !.pc = "loop", !.done = v.next, !.next = v.next + 1]
  OBVIOUS
<1>4. c \in WatcherState /\ IsPlaced(c)
  BY <1>2, <1>3 DEF WatcherState, IsPlaced
<1>5. watcher' = [watcher EXCEPT ![w] = c]
  BY <1>1, <1>3 DEF SetLastBlock, Goes
<1>6. watcher' \in [Watcher -> WatcherState'] /\ Placed'
  BY <1>1, <1>4, <1>5, OneMoves DEF SetLastBlock, loader, chain
<1>7. kv' \in Entries /\ isDirty' \in BOOLEAN
  BY <1>1, <1>2, SetType DEF SetLastBlock
<1>8. processed' \subseteq 1 .. latest
  BY <1>1, <1>2 DEF SetLastBlock, TypeOK
<1> QED
  BY <1>6, <1>7, <1>8, RestType DEF SetLastBlock, TypeOK, loader, history, Snapshot

LEMMA HangType ==
  ASSUME TypeOK, Placed, NEW w \in Watcher, Hang(w) \/ Reconnect(w)
  PROVE  TypeOK' /\ Placed'
<1>1. PICK v \in WatcherState : v = watcher[w] /\ IsPlaced(v) /\ v.pc # "off"
  BY OneIs DEF Hang, Reconnect
<1>2. PICK h \in BOOLEAN : watcher' = [watcher EXCEPT ![w] = [watcher[w] EXCEPT !.isHung = h]]
  BY DEF Hang, Reconnect, Goes
<1>3. PICK c : c = [v EXCEPT !.isHung = h]
  OBVIOUS
<1>4. c \in WatcherState /\ IsPlaced(c) /\ watcher' = [watcher EXCEPT ![w] = c]
  BY <1>1, <1>2, <1>3 DEF WatcherState, IsPlaced
<1>5. watcher' \in [Watcher -> WatcherState'] /\ Placed'
  BY <1>1, <1>4, OneMoves DEF Hang, Reconnect, loader, chain
<1>6. failures' \in 0 .. MaxFailures
  BY FailType DEF Hang, Reconnect
<1> QED
  BY <1>5, <1>6, RestType DEF Hang, Reconnect, TypeOK, loader, fileStore, history, effects, Snapshot

-----------------------------------------------------------------------------
(***************************************************************************)
(* The timers, the chain, the editing.                                     *)
(***************************************************************************)
LEMMA DoneType ==
  ASSUME TypeOK
  PROVE  CurrentDone \in Block \union {None}
  BY DEF TypeOK, CurrentDone, WatcherState

LEMMA PersistTimerType ==
  ASSUME TypeOK, Placed, PersistTimer
  PROVE  TypeOK' /\ Placed'
<1>1. CurrentDone \in Block
  BY DoneType DEF PersistTimer
<1>2. kv' \in Entries /\ isDirty' \in BOOLEAN
  BY <1>1, SetType DEF PersistTimer
<1>3. watcher' \in [Watcher -> WatcherState'] /\ Placed'
  BY DEF PersistTimer, process, loader, chain, TypeOK, Placed, IsPlaced, WatcherState
<1> QED
  BY <1>2, <1>3, RestType DEF PersistTimer, TypeOK, loader, process, history, effects, Snapshot

LEMMA SaveTimerType ==
  ASSUME TypeOK, Placed, SaveTimer
  PROVE  TypeOK' /\ Placed'
<1>1. watcher' \in [Watcher -> WatcherState'] /\ Placed'
  BY DEF SaveTimer, process, loader, chain, TypeOK, Placed, IsPlaced, WatcherState
<1>2. file' \in Entries \union {None} /\ kv' \in Entries /\ isDirty' \in BOOLEAN /\ UNCHANGED storeType
  BY DEF SaveTimer, Save, Written, TypeOK
<1> QED
  BY <1>1, <1>2, RestType DEF SaveTimer, TypeOK, loader, process, history, effects, Snapshot

LEMMA ProgressType ==
  ASSUME TypeOK, Placed, Progress
  PROVE  TypeOK' /\ Placed'
<1>1. watcher' \in [Watcher -> WatcherState'] /\ Placed'
  BY DEF Progress, loader, chain, TypeOK, Placed, IsPlaced, WatcherState
<1>2. CurrentDone \in Block /\ 0 \in 0 .. ExitAfter
  BY DoneType, ServiceAssumption DEF Progress, IsProgress
<1>3. guard' \in [last : Block \union {None}, stalled : 0 .. ExitAfter, rebuilt : BOOLEAN,
                 isPersisting : BOOLEAN]
  BY <1>2 DEF Progress, TypeOK
<1> QED
  BY <1>1, <1>3, RestType DEF Progress, TypeOK, loader, fileStore, history, effects, Snapshot

LEMMA RebuildType ==
  ASSUME TypeOK, Placed, NEW w \in Watcher, Rebuild(w), up = "running",
         UNCHANGED <<verdict, latest, up>>
  PROVE  /\ watcher' \in [Watcher -> WatcherState'] /\ Placed' /\ overtaken' \in BOOLEAN
         /\ \A v \in Watcher : watcher'[v] = IF v = w THEN Connecting
                                             ELSE IF v = current THEN Stopped(v) ELSE watcher[v]
<1>1. WatcherState' = WatcherState
  BY DEF WatcherState
<1>2. \A v \in Watcher : watcher'[v] = IF v = w THEN Connecting
                                        ELSE IF v = current THEN Stopped(v) ELSE watcher[v]
  BY DEF Rebuild
<1>3. \A v \in Watcher : watcher'[v] \in WatcherState /\ IsPlaced(watcher'[v])
  <2> SUFFICES ASSUME NEW v \in Watcher
               PROVE  watcher'[v] \in WatcherState /\ IsPlaced(watcher'[v])
    OBVIOUS
  <2>1. PICK s \in WatcherState : s = watcher[v] /\ IsPlaced(s)
    BY OneIs
  <2>2. Stopped(v) \in WatcherState /\ IsPlaced(Stopped(v))
    BY <2>1, StoppedType
  <2>3. Connecting \in WatcherState /\ Connecting.pc = "connecting"
    BY OffType DEF Connecting, Off
  <2>4. IsPlaced(Connecting)
    BY <2>3 DEF IsPlaced
  <2> QED
    BY <1>2, <2>1, <2>2, <2>3, <2>4
<1>4. watcher' \in [Watcher -> WatcherState']
  <2>1. watcher' = [v \in Watcher |-> watcher'[v]]
    BY DEF Rebuild
  <2> QED
    BY <1>1, <1>3, <2>1
<1>5. Placed'
  BY <1>3 DEF Placed, IsPlaced
<1> QED
  BY <1>2, <1>4, <1>5 DEF Rebuild, TypeOK

LEMMA StalledType ==
  ASSUME TypeOK, Placed, Stalled
  PROVE  TypeOK' /\ Placed'
<1>1. failures' \in 0 .. MaxFailures
  BY FailType DEF Stalled, IsTimely
<1>2. guard.stalled + 1 \in Nat /\ ExitAfter \in Nat
  BY ServiceAssumption DEF TypeOK
<1>3. CASE guard.stalled + 1 > ExitAfter
  <2>1. Fatal /\ UNCHANGED <<overtaken, loader, chain, effects, forgot>>
    BY <1>3 DEF Stalled
  <2>2. Flushed \in Entries /\ Written(Flushed) \in Entries \union {None}
    BY FlushedType DEF Written, TypeOK
  <2>3. watcher' \in [Watcher -> WatcherState'] /\ Placed' /\ up' = "down"
    BY <2>1, HaltPlaced DEF Fatal, Halt, loader
  <2> QED
    BY <1>1, <2>1, <2>2, <2>3, RestType DEF Fatal, TypeOK, loader, effects, Snapshot
<1>4. CASE guard.stalled + 1 <= ExitAfter
  <2>1. guard' \in [last : Block \union {None}, stalled : 0 .. ExitAfter, rebuilt : BOOLEAN,
                   isPersisting : BOOLEAN]
    <3>1. guard.stalled + 1 \in 0 .. ExitAfter
      BY <1>2, <1>4
    <3>2. PICK n \in 0 .. ExitAfter :
            \/ guard' = [guard EXCEPT !.stalled = n]
            \/ guard' = [guard EXCEPT !.stalled = n, !.rebuilt = TRUE]
      <4>1. \/ guard' = [guard EXCEPT !.stalled = guard.stalled + 1]
            \/ guard' = [guard EXCEPT !.stalled = guard.stalled + 1, !.rebuilt = TRUE]
        <5>1. ~(guard.stalled + 1 > ExitAfter)
          BY <1>2, <1>4
        <5> QED
          BY <5>1, Zenon DEF Stalled
      <4> QED
        BY <3>1, <4>1
    <3> QED
      BY <3>2 DEF TypeOK
  <2>2. UNCHANGED <<fileStore, up, current, loader, chain, effects, forgot>> /\ up = "running"
    BY <1>2, <1>4 DEF Stalled
  <2>3. watcher' \in [Watcher -> WatcherState'] /\ Placed' /\ overtaken' \in BOOLEAN
    <3>1. CASE \E w \in Watcher : Rebuild(w)
      BY <2>2, <3>1, RebuildType DEF loader, chain
    <3>2. CASE UNCHANGED <<watcher, overtaken>>
      BY <2>2, <3>2 DEF loader, chain, TypeOK, Placed, IsPlaced, WatcherState
    <3> QED
      BY <1>2, <1>4, <3>1, <3>2 DEF Stalled
  <2> QED
    BY <1>1, <2>1, <2>2, <2>3, RestType DEF TypeOK, fileStore, loader, effects, Snapshot
<1> QED
  BY <1>2, <1>3, <1>4

LEMMA NewBlockType ==
  ASSUME TypeOK, Placed, NewBlock
  PROVE  TypeOK' /\ Placed'
<1>1. latest \in Nat /\ MaxBlock \in Nat /\ latest' = latest + 1 /\ latest' \in Block
  BY ServiceAssumption DEF NewBlock, TypeOK, Block
<1>2. UNCHANGED <<loader, fileStore, firing, startBlock, process, effects, failures, history>>
  BY DEF NewBlock
<1>3. processed' \subseteq 1 .. latest'
  BY <1>1, <1>2 DEF TypeOK, effects
<1>4. TypeOK'
  BY <1>1, <1>2, <1>3 DEF TypeOK, loader, fileStore, process, effects, history, Snapshot, WatcherState
<1>5. Placed'
  <2>1. \A w \in Watcher : watcher[w].next \in Nat
    BY ServiceAssumption DEF TypeOK, WatcherState
  <2> QED
    BY <1>1, <1>2, <2>1 DEF Placed, IsPlaced, process
<1> QED
  BY <1>4, <1>5

LEMMA EditConfigType ==
  ASSUME TypeOK, Placed, EditConfig
  PROVE  TypeOK' /\ Placed'
<1>1. edit' \in DOMAIN verdict /\ UNCHANGED <<verdict, cachedSnapshot, fileStore, chain, process, effects, failures, history>>
  BY DEF EditConfig, Edit
<1>2. watcher' \in [Watcher -> WatcherState'] /\ Placed'
  BY <1>1 DEF process, chain, TypeOK, Placed, IsPlaced, WatcherState
<1> QED
  BY <1>1, <1>2, RestType DEF TypeOK, fileStore, process, effects, history

LEMMA NextType ==
  ASSUME TypeOK, Placed, [Next]_vars,
         \A w \in Watcher : BeginBlock(w) => cachedSnapshot' # None
  PROVE  TypeOK' /\ Placed'
<1>1. CASE Bootstrap \/ Crash \/ Terminate \/ Exit
  BY <1>1, BootstrapType, CrashType, TerminateType, ExitType
<1>2. ASSUME NEW w \in Watcher, WatcherStep(w) \/ Refused(w) \/ BlockFails(w) \/ Hang(w) \/ Reconnect(w)
      PROVE  TypeOK' /\ Placed'
  BY <1>2, ConnectedType, StartedType, LeaveLoopType, BeginBlockType, ReportStateType, SetLastBlockType,
     RefusedType, BlockFailsType, HangType DEF WatcherStep
<1>3. CASE PersistTimer \/ SaveTimer \/ Progress \/ Stalled
  BY <1>3, PersistTimerType, SaveTimerType, ProgressType, StalledType
<1>4. CASE NewBlock \/ EditConfig
  BY <1>4, NewBlockType, EditConfigType
<1>5. CASE UNCHANGED vars
  <2>1. UNCHANGED <<verdict, edit, cachedSnapshot, fileStore, chain, process, effects, failures, history>>
    BY <1>5 DEF vars, loader
  <2>2. watcher' \in [Watcher -> WatcherState'] /\ Placed'
    BY <2>1 DEF process, chain, TypeOK, Placed, IsPlaced, WatcherState
  <2> QED
    BY <2>1, <2>2, RestType DEF TypeOK, fileStore, process, effects, history, Snapshot
<1> QED
  BY <1>1, <1>2, <1>3, <1>4, <1>5 DEF Next

-----------------------------------------------------------------------------
(***************************************************************************)
(* The invariants.  What a watcher has of the configuration is what the    *)
(* loader has, or older; the snapshot of the last edit is of that edit.    *)
(***************************************************************************)
IsInformed(v) ==
  /\ v.fingerprint = None <=> v.pc \in {"off", "connecting"}
  /\ v.fingerprint = None => v.done = None
  /\ v.fingerprint # None =>
       /\ cachedSnapshot # None /\ v.fingerprint <= cachedSnapshot.fingerprint
       /\ v.fingerprint = cachedSnapshot.fingerprint => v.groups = cachedSnapshot.groups

IsFresh(s) == s.fingerprint <= edit /\ (s.fingerprint = edit => s.groups = edit)

Informed ==
  /\ cachedSnapshot # None => IsFresh(cachedSnapshot)
  /\ \A w \in Watcher : IsInformed(watcher[w])

\* One watcher has work, the one in charge; none while another connects.
Busy(v) == v.pc \in {"block", "persist"} \/ (v.pc \in {"starting", "loop"} /\ v.isRunning)

One ==
  /\ \A w \in Watcher : watcher[w].pc = "persist" => ~watcher[w].isHung
  /\ ~overtaken =>
       /\ \A w \in Watcher : Busy(watcher[w]) => w = current
       /\ \A v, w \in Watcher :
            watcher[v].pc = "connecting" =>
              ~Busy(watcher[w]) /\ (watcher[w].pc = "connecting" => v = w)

\* What is stored, in memory or in the file, has been processed, and a watcher that
\* works goes on from there.
AtWork(v) == v.pc \in {"block", "persist"} \/ (v.pc = "loop" /\ v.isRunning)

Whole ==
  startBlock = None /\ ~forgot /\ ~overtaken =>
    /\ \A a, b \in processed : a .. b \subseteq processed
    /\ kv.last \in processed \union {None}
    /\ file # None => file.last \in processed \union {None}
    /\ \A w \in Watcher :
         /\ watcher[w].done \in processed \union {None}
         /\ AtWork(watcher[w]) =>
              processed = {} \/ watcher[w].next \in processed \/ watcher[w].next - 1 \in processed

IInv == TypeOK /\ Placed /\ Informed /\ One /\ Whole

-----------------------------------------------------------------------------
(***************************************************************************)
(* Most steps take up no work and store nothing but what has been done.    *)
(***************************************************************************)
IsTame(v, c) ==
  /\ c.pc = "connecting" => v.pc = "connecting"
  /\ c.pc = "block" => v.pc = "block"
  /\ c.pc = "persist" /\ c.isHung => (v.pc = "persist" /\ v.isHung)
  /\ Busy(c) => Busy(v)
  /\ AtWork(c) => AtWork(v) /\ c.next = v.next
  /\ c.done \in {v.done, None}
  /\ \/ c.pc = "off" /\ c.fingerprint = None /\ c.done = None
     \/ /\ c.fingerprint = v.fingerprint /\ c.groups = v.groups
        /\ c.pc \in {"off", "connecting"} <=> v.pc \in {"off", "connecting"}

Quiet ==
  /\ \A w \in Watcher : IsTame(watcher[w], watcher'[w])
  /\ UNCHANGED <<verdict, current, startBlock, forgot, overtaken, processed>>
  /\ edit' \in {edit, edit + 1}
  /\ \/ UNCHANGED cachedSnapshot
     \/ /\ cachedSnapshot' = None
        /\ \A w \in Watcher :
             watcher'[w].pc = "off" /\ watcher'[w].fingerprint = None /\ watcher'[w].done = None
  /\ kv'.last = kv.last \/ \E w \in Watcher : kv'.last = watcher[w].done
  /\ file' = file \/ file' = kv \/ file' = kv' \/ file' = None

LEMMA QuietKeeps ==
  ASSUME IInv, Quiet
  PROVE  Informed' /\ One' /\ Whole'
<1>1. Informed'
  <2>1. cachedSnapshot' # None => IsFresh(cachedSnapshot)'
    <3>1. CASE UNCHANGED cachedSnapshot /\ cachedSnapshot # None
      <4>1. cachedSnapshot.fingerprint \in Nat /\ edit \in Nat
        BY <3>1, EditsAreNumbered DEF IInv, TypeOK, Snapshot
      <4> QED
        BY <3>1, <4>1 DEF Quiet, IInv, Informed, IsFresh
    <3> QED
      BY <3>1 DEF Quiet
  <2>2. ASSUME NEW w \in Watcher
        PROVE  IsInformed(watcher[w])'
    <3>1. CASE watcher'[w].pc = "off" /\ watcher'[w].fingerprint = None /\ watcher'[w].done = None
      BY <3>1 DEF IsInformed
    <3>2. CASE ~(watcher'[w].pc = "off" /\ watcher'[w].fingerprint = None /\ watcher'[w].done = None)
      BY <3>2 DEF Quiet, IsTame, IInv, Informed, IsInformed
    <3> QED
      BY <3>1, <3>2
  <2> QED
    BY <2>1, <2>2 DEF Informed
<1>2. One'
  BY DEF Quiet, IsTame, IInv, One
<1>3. Whole'
  <2> SUFFICES ASSUME startBlock = None, ~forgot, ~overtaken
               PROVE  /\ \A a, b \in processed : a .. b \subseteq processed
                      /\ kv'.last \in processed \union {None}
                      /\ file' # None => file'.last \in processed \union {None}
                      /\ \A w \in Watcher :
                           /\ watcher'[w].done \in processed \union {None}
                           /\ AtWork(watcher'[w]) =>
                                processed = {} \/ watcher'[w].next \in processed
                                  \/ watcher'[w].next - 1 \in processed
    BY DEF Quiet, Whole, AtWork
  <2>1. kv'.last \in processed \union {None}
    BY DEF Quiet, IInv, Whole
  <2>2. file' # None => file'.last \in processed \union {None}
    BY <2>1 DEF Quiet, IInv, Whole
  <2>3. \A a, b \in processed : a .. b \subseteq processed
    BY DEF IInv, Whole
  <2>4. ASSUME NEW w \in Watcher
        PROVE  /\ watcher'[w].done \in processed \union {None}
               /\ AtWork(watcher'[w]) =>
                    processed = {} \/ watcher'[w].next \in processed \/ watcher'[w].next - 1 \in processed
    BY DEF Quiet, IsTame, IInv, Whole
  <2> QED
    BY <2>1, <2>2, <2>3, <2>4
<1> QED
  BY <1>1, <1>2, <1>3

LEMMA OneTame ==
  ASSUME TypeOK, NEW w \in Watcher, NEW c, IsTame(watcher[w], c), watcher' = [watcher EXCEPT ![w] = c]
  PROVE  \A v \in Watcher : IsTame(watcher[v], watcher'[v])
<1>1. \A v \in Watcher : watcher'[v] = IF v = w THEN c ELSE watcher[v]
  BY DEF TypeOK
<1>2. \A v \in Watcher : IsTame(watcher[v], watcher[v])
  BY DEF IsTame
<1> QED
  BY <1>1, <1>2

LEMMA NoneTame ==
  ASSUME UNCHANGED watcher
  PROVE  \A v \in Watcher : IsTame(watcher[v], watcher'[v])
  BY DEF IsTame

LEMMA HaltTame ==
  ASSUME Halt
  PROVE  /\ \A v \in Watcher : IsTame(watcher[v], watcher'[v])
         /\ \A v \in Watcher :
              watcher'[v].pc = "off" /\ watcher'[v].fingerprint = None /\ watcher'[v].done = None
<1>1. \A v \in Watcher : watcher'[v] = Off
  BY DEF Halt
<1> QED
  BY <1>1 DEF IsTame, Off, Busy, AtWork

LEMMA StoppedTame ==
  ASSUME NEW w, NEW v \in WatcherState, v = watcher[w]
  PROVE  IsTame(v, Stopped(w)) /\ ~Stopped(w).isHung
<1>1. /\ ~Stopped(w).isRunning /\ ~Stopped(w).isHung
      /\ Stopped(w).pc = IF v.isHung /\ v.pc = "block" THEN "loop" ELSE v.pc
      /\ Stopped(w).next = v.next /\ Stopped(w).done = v.done
      /\ Stopped(w).fingerprint = v.fingerprint /\ Stopped(w).groups = v.groups
  BY DEF Stopped, WatcherState
<1> QED
  BY <1>1 DEF IsTame, Busy, AtWork

\* What shutdown writes has been done.
LEMMA FlushedIs ==
  ASSUME TypeOK
  PROVE  /\ Flushed.last = kv.last \/ \E w \in Watcher : Flushed.last = watcher[w].done
         /\ Written(Flushed) \in {file, Flushed}
  BY DEF Flushed, Written, TypeOK, Entries

LEMMA CrashQuiet ==
  ASSUME IInv, Crash \/ Exit
  PROVE  Quiet
<1>1. Halt
  BY DEF Crash, Exit
<1>2. UNCHANGED <<loader, kv, startBlock, current, processed, forgot, overtaken>>
  BY DEF Crash, Exit, chain, effects, history, fileStore
<1>3. file' = file \/ file' = None
  BY DEF Crash, Exit, fileStore
<1> QED
  BY <1>1, <1>2, <1>3, HaltTame DEF Quiet, loader

LEMMA TerminateQuiet ==
  ASSUME IInv, Terminate
  PROVE  Quiet
<1>1. \A v \in Watcher : IsTame(watcher[v], watcher'[v])
  <2>1. CASE current = None
    BY <2>1, NoneTame DEF Terminate
  <2>2. CASE current # None
    <3>1. PICK v \in WatcherState : v = watcher[current]
      BY <2>2 DEF IInv, TypeOK
    <3>2. IsTame(watcher[current], Stopped(current)) /\ current \in Watcher
      BY <2>2, <3>1, StoppedTame DEF IInv, TypeOK
    <3>3. PICK c : c = Stopped(current)
      OBVIOUS
    <3>4. watcher' = [watcher EXCEPT ![current] = c] /\ IsTame(watcher[current], c)
      BY <2>2, <3>2, <3>3 DEF Terminate
    <3> QED
      BY <3>2, <3>4, OneTame DEF IInv
  <2> QED
    BY <2>1, <2>2
<1>2. /\ kv' = Flushed /\ file' = Written(Flushed)
      /\ UNCHANGED <<loader, startBlock, current, processed, forgot, overtaken>>
  BY DEF Terminate, chain, effects, history
<1> QED
  BY <1>1, <1>2, FlushedIs DEF Quiet, loader, IInv

\* A start that fails.
LEMMA StartFailsQuiet ==
  ASSUME IInv, NEW w \in Watcher, StartFails(w)
  PROVE  /\ \A v \in Watcher : IsTame(watcher[v], watcher'[v])
         /\ \A v \in Watcher :
              watcher'[v].pc = "off" /\ watcher'[v].fingerprint = None /\ watcher'[v].done = None
         /\ UNCHANGED current
         /\ kv'.last = kv.last \/ \E v \in Watcher : kv'.last = watcher[v].done
         /\ file' = file \/ file' = kv'
<1>1. Halt /\ UNCHANGED current
  BY DEF StartFails, Fatal
<1>2. UNCHANGED fileStore \/ (kv' = Flushed /\ file' = Written(Flushed))
  BY DEF StartFails, Fatal
<1> QED
  BY <1>1, <1>2, HaltTame, FlushedIs DEF IInv, fileStore

LEMMA RefusedQuiet ==
  ASSUME IInv, NEW w \in Watcher, Refused(w)
  PROVE  Quiet
<1>1. StartFails(w) /\ UNCHANGED <<loader, startBlock, processed, forgot, overtaken>>
  BY DEF Refused, chain, effects, history
<1> QED
  BY <1>1, StartFailsQuiet DEF Quiet, loader

LEMMA FailedStartQuiet ==
  ASSUME IInv, NEW w \in Watcher, Connected(w), cachedSnapshot' = None
  PROVE  Quiet
<1>1. StartFails(w) /\ LoadSnapshot /\ UNCHANGED <<startBlock, processed, forgot, overtaken>>
  BY DEF Connected, chain, effects, history
<1>2. edit' \in {edit, edit + 1} /\ UNCHANGED verdict
  BY <1>1 DEF LoadSnapshot
<1> QED
  BY <1>1, <1>2, StartFailsQuiet DEF Quiet

\* The steps of a watcher that only change where it stands.
LEMMA WatcherQuiet ==
  ASSUME IInv, NEW w \in Watcher,
         LeaveLoop(w) \/ ReportState(w) \/ BlockFails(w) \/ Hang(w) \/ Reconnect(w)
  PROVE  Quiet
<1>1. PICK v \in WatcherState : v = watcher[w]
  BY DEF IInv, TypeOK
<1>2. \E c : IsTame(v, c) /\ watcher' = [watcher EXCEPT ![w] = c]
  <2>1. CASE LeaveLoop(w)
    <3>1. PICK c : c = Off
      OBVIOUS
    <3>2. IsTame(v, c)
      BY <3>1 DEF IsTame, Off, Busy, AtWork
    <3> QED
      BY <2>1, <3>1, <3>2 DEF LeaveLoop, Goes
  <2>2. CASE ReportState(w)
    <3>1. PICK c : c = [v EXCEPT !.pc = "persist"]
      OBVIOUS
    <3>2. IsTame(v, c)
      BY <1>1, <2>2, <3>1 DEF IsTame, Busy, AtWork, ReportState, WatcherState
    <3> QED
      BY <1>1, <2>2, <3>1, <3>2 DEF ReportState, Goes
  <2>3. CASE BlockFails(w)
    <3>1. PICK c : c = [v EXCEPT !.pc = "loop", !.isHung = FALSE]
      OBVIOUS
    <3>2. IsTame(v, c)
      BY <1>1, <2>3, <3>1 DEF IsTame, Busy, AtWork, BlockFails, WatcherState
    <3> QED
      BY <1>1, <2>3, <3>1, <3>2 DEF BlockFails, Goes
  <2>4. CASE Hang(w)
    <3>1. PICK c : c = [v EXCEPT !.isHung = TRUE]
      OBVIOUS
    <3>2. IsTame(v, c)
      BY <1>1, <2>4, <3>1 DEF IsTame, Busy, AtWork, Hang, WatcherState
    <3> QED
      BY <1>1, <2>4, <3>1, <3>2 DEF Hang, Goes
  <2>5. CASE Reconnect(w)
    <3>1. PICK c : c = [v EXCEPT !.isHung = FALSE]
      OBVIOUS
    <3>2. IsTame(v, c)
      BY <1>1, <2>5, <3>1 DEF IsTame, Busy, AtWork, Reconnect, WatcherState
    <3> QED
      BY <1>1, <2>5, <3>1, <3>2 DEF Reconnect, Goes
  <2> QED
    BY <2>1, <2>2, <2>3, <2>4, <2>5
<1>3. \A u \in Watcher : IsTame(watcher[u], watcher'[u])
  BY <1>1, <1>2, OneTame DEF IInv
<1>4. UNCHANGED <<loader, startBlock, current, processed, forgot, overtaken, file>>
  BY DEF LeaveLoop, ReportState, BlockFails, Hang, Reconnect, chain, effects, history, fileStore
<1>5. kv'.last = kv.last
  <2>1. CASE ReportState(w)
    <3>1. Set("ongoing", "open") \/ Del("ongoing") \/ UNCHANGED kv
      BY <2>1 DEF ReportState
    <3> QED
      BY <3>1 DEF Set, Del, IInv, TypeOK, Entries
  <2>2. CASE ~ReportState(w)
    BY <2>2 DEF LeaveLoop, BlockFails, Hang, Reconnect, fileStore
  <2> QED
    BY <2>1, <2>2
<1> QED
  BY <1>3, <1>4, <1>5 DEF Quiet, loader

LEMMA TimerQuiet ==
  ASSUME IInv, PersistTimer \/ SaveTimer \/ Progress \/ NewBlock \/ EditConfig \/ UNCHANGED vars
  PROVE  Quiet
<1>1. UNCHANGED <<verdict, cachedSnapshot, watcher, current, startBlock, forgot, overtaken, processed>>
  BY DEF PersistTimer, SaveTimer, Progress, NewBlock, EditConfig, Edit, vars, loader, chain, process,
         effects, history
<1>2. edit' \in {edit, edit + 1}
  BY DEF PersistTimer, SaveTimer, Progress, NewBlock, EditConfig, Edit, vars, loader
<1>3. kv'.last = kv.last \/ \E w \in Watcher : kv'.last = watcher[w].done
  <2>1. CASE PersistTimer
    <3>1. current \in Watcher /\ kv' = [kv EXCEPT !.last = watcher[current].done]
      BY <2>1 DEF PersistTimer, Set, CurrentDone, IInv, TypeOK
    <3> QED
      BY <3>1 DEF IInv, TypeOK, Entries
  <2>2. CASE ~PersistTimer
    BY <2>2 DEF SaveTimer, Save, Progress, NewBlock, EditConfig, vars, fileStore
  <2> QED
    BY <2>1, <2>2
<1>4. file' = file \/ file' = kv
  BY DEF PersistTimer, SaveTimer, Save, Written, Progress, NewBlock, EditConfig, vars, fileStore
<1> QED
  BY <1>1, <1>2, <1>3, <1>4, NoneTame DEF Quiet

\* A check of the guard that does not rebuild.
LEMMA StalledQuiet ==
  ASSUME IInv, Stalled, ~\E w \in Watcher : Rebuild(w)
  PROVE  Quiet
<1>1. UNCHANGED <<loader, startBlock, processed, forgot>>
  BY DEF Stalled, chain, effects
<1>2. CASE Fatal /\ UNCHANGED overtaken
  <2>1. Halt /\ kv' = Flushed /\ file' = Written(Flushed) /\ UNCHANGED current
    BY <1>2 DEF Fatal
  <2> QED
    BY <1>1, <1>2, <2>1, HaltTame, FlushedIs DEF Quiet, loader, IInv
<1>3. CASE UNCHANGED <<fileStore, watcher, current, overtaken>>
  BY <1>1, <1>3, NoneTame DEF Quiet, loader, fileStore
<1> QED
  BY <1>2, <1>3 DEF Stalled

-----------------------------------------------------------------------------
(***************************************************************************)
(* The steps that take up work, or start a watcher.                        *)
(***************************************************************************)
LEMMA NewWatcher ==
  Connecting.pc = "connecting" /\ Connecting.fingerprint = None /\ Connecting.done = None
  BY DEF Connecting, Off

LEMMA BootstrapKeeps ==
  ASSUME IInv, Bootstrap
  PROVE  Informed' /\ One' /\ Whole'
<1>1. 1 \in Watcher
  BY ServiceAssumption DEF Watcher
<1>2. \A w \in Watcher : watcher[w].pc = "off" /\ watcher[w].fingerprint = None /\ watcher[w].done = None
  BY DEF IInv, Placed, Informed, IsInformed, Bootstrap
<1>3. \A w \in Watcher : watcher'[w] = IF w = 1 THEN Connecting ELSE watcher[w]
  BY DEF Bootstrap, IInv, TypeOK
<1>4. /\ cachedSnapshot' = None /\ kv' = Load
      /\ UNCHANGED <<verdict, edit, file, startBlock, processed, forgot, overtaken>>
  BY DEF Bootstrap, chain, effects, history
<1>5. Informed'
  BY <1>1, <1>2, <1>3, <1>4, NewWatcher DEF Informed, IsInformed
<1>6. One'
  BY <1>1, <1>2, <1>3, <1>4, NewWatcher DEF One, Busy
<1>7. Whole'
  <2> SUFFICES ASSUME startBlock = None, ~forgot, ~overtaken
               PROVE  /\ \A a, b \in processed : a .. b \subseteq processed
                      /\ kv'.last \in processed \union {None}
                      /\ file # None => file.last \in processed \union {None}
                      /\ \A w \in Watcher :
                           watcher'[w].done \in processed \union {None} /\ ~AtWork(watcher'[w])
    BY <1>4 DEF Whole, AtWork
  <2>1. Load.last \in processed \union {None}
    BY DEF Load, Or, EmptyMap, IInv, Whole
  <2> QED
    BY <1>2, <1>3, <1>4, <2>1, NewWatcher DEF IInv, Whole, AtWork
<1> QED
  BY <1>5, <1>6, <1>7

\* What LoadSnapshot gives is fresh, and no older than what it gave before.
LEMMA LoadInforms ==
  ASSUME IInv, LoadSnapshot, cachedSnapshot' # None
  PROVE  /\ IsFresh(cachedSnapshot)'
         /\ \A v \in WatcherState : IsInformed(v) => IsInformed(v)'
         /\ verdict[edit].isGood /\ verdict[edit'].isGood => cachedSnapshot'.groups \in {edit, edit'}
<1>1. edit \in Nat /\ edit' \in {edit, edit + 1} /\ cachedSnapshot' = Loaded(edit')
  BY EditsAreNumbered DEF IInv, TypeOK, LoadSnapshot
<1>2. CASE UNCHANGED cachedSnapshot
  <2>1. cachedSnapshot.fingerprint \in Nat
    BY <1>2, EditsAreNumbered DEF IInv, TypeOK, Snapshot
  <2>2. IsFresh(cachedSnapshot)'
    BY <1>1, <1>2, <2>1 DEF IInv, Informed, IsFresh
  <2>3. \A v \in WatcherState : IsInformed(v) => IsInformed(v)'
    BY <1>2 DEF IsInformed
  <2>4. verdict[edit].isGood /\ verdict[edit'].isGood => cachedSnapshot.groups \in {edit, edit'}
    <3> SUFFICES ASSUME verdict[edit].isGood /\ verdict[edit'].isGood
                 PROVE  cachedSnapshot.groups \in {edit, edit'}
      OBVIOUS
    <3>1. CASE cachedSnapshot.fingerprint = edit
      BY <1>2, <3>1 DEF IInv, Informed, IsFresh
    <3>2. CASE cachedSnapshot.fingerprint # edit
      BY <1>1, <1>2, <3>2 DEF Loaded
    <3> QED
      BY <3>1, <3>2
  <2> QED
    BY <1>2, <2>2, <2>3, <2>4
<1>3. CASE cachedSnapshot' = [fingerprint |-> edit, groups |-> edit']
           /\ (cachedSnapshot = None \/ cachedSnapshot.fingerprint # edit)
  <2>1. IsFresh(cachedSnapshot)'
    BY <1>1, <1>3 DEF IsFresh
  <2>2. ASSUME NEW v \in WatcherState, IsInformed(v)
        PROVE  IsInformed(v)'
    <3>1. CASE v.fingerprint = None
      BY <2>2, <3>1 DEF IsInformed
    <3>2. CASE v.fingerprint # None
      <4>1. /\ cachedSnapshot # None /\ v.fingerprint <= cachedSnapshot.fingerprint
            /\ cachedSnapshot.fingerprint <= edit /\ cachedSnapshot.fingerprint # edit
        BY <1>3, <2>2, <3>2 DEF IsInformed, IInv, Informed, IsFresh
      <4>2. v.fingerprint \in Nat /\ cachedSnapshot.fingerprint \in Nat
        BY <3>2, <4>1, EditsAreNumbered DEF IInv, TypeOK, Snapshot, WatcherState
      <4>3. v.fingerprint < edit
        BY <1>1, <4>1, <4>2
      <4> QED
        BY <1>1, <1>3, <2>2, <3>2, <4>2, <4>3 DEF IsInformed
    <3> QED
      BY <3>1, <3>2
  <2> QED
    BY <1>3, <2>1, <2>2
<1> QED
  BY <1>1, <1>2, <1>3 DEF Loaded

\* A watcher that has just been configured is informed, and has what the loader has.
LEMMA ConfiguredIs ==
  ASSUME IInv, LoadSnapshot, cachedSnapshot' # None, NEW v \in WatcherState, IsInformed(v)
  PROVE  /\ Configured(v).fingerprint = cachedSnapshot'.fingerprint
         /\ Configured(v).groups = cachedSnapshot'.groups
         /\ cachedSnapshot'.fingerprint \in Nat
<1>1. cachedSnapshot' \in Snapshot /\ cachedSnapshot'.fingerprint \in Nat
  BY LoadType, EditsAreNumbered DEF IInv, Snapshot, TypeOK
<1>2. IsInformed(v)'
  BY LoadInforms
<1>3. CASE v.fingerprint = cachedSnapshot'.fingerprint
  BY <1>1, <1>2, <1>3, NoneAssumption DEF Configured, IsInformed
<1>4. CASE v.fingerprint # cachedSnapshot'.fingerprint
  BY <1>1, <1>4 DEF Configured, WatcherState
<1> QED
  BY <1>1, <1>3, <1>4

\* One watcher goes on, on the snapshot just loaded or the one there was.
LEMMA GoesInformed ==
  ASSUME IInv, NEW w \in Watcher, NEW c, watcher' = [watcher EXCEPT ![w] = c], IsInformed(c)',
         \/ UNCHANGED <<cachedSnapshot, edit>>
         \/ LoadSnapshot /\ cachedSnapshot' # None
  PROVE  Informed'
<1>1. cachedSnapshot' # None => IsFresh(cachedSnapshot)'
  BY LoadInforms DEF IInv, Informed, IsFresh
<1>2. \A v \in Watcher : watcher'[v] = IF v = w THEN c ELSE watcher[v]
  BY DEF IInv, TypeOK
<1>3. ASSUME NEW v \in Watcher
      PROVE  IsInformed(watcher[v])'
  <2>1. PICK d \in WatcherState : d = watcher[v] /\ IsInformed(d)
    BY DEF IInv, TypeOK, Informed
  <2>2. IsInformed(d)'
    BY <2>1, LoadInforms DEF IsInformed
  <2> QED
    BY <1>2, <2>1, <2>2 DEF IsInformed
<1> QED
  BY <1>1, <1>3 DEF Informed

LEMMA ConnectedKeeps ==
  ASSUME IInv, NEW w \in Watcher, Connected(w), cachedSnapshot' # None
  PROVE  Informed' /\ One' /\ Whole'
<1>1. PICK v \in WatcherState : v = watcher[w] /\ v.pc = "connecting" /\ IsInformed(v)
  BY DEF IInv, TypeOK, Informed, Connected
<1>2. PICK s : s = [v EXCEPT !.pc = "starting", !.isRunning = TRUE]
  OBVIOUS
<1>3. /\ s \in WatcherState /\ s.pc = "starting" /\ s.fingerprint = None /\ s.isRunning
      /\ s.done = v.done
  BY <1>1, <1>2 DEF WatcherState, IsInformed
<1>4. LoadSnapshot /\ UNCHANGED <<fileStore, chain, effects, history>> /\ current' = w
  BY DEF Connected
<1>5. cachedSnapshot' \in Snapshot /\ cachedSnapshot'.fingerprint \in Nat /\ UNCHANGED verdict
  BY <1>4, LoadType, EditsAreNumbered DEF IInv, Snapshot, TypeOK
<1>6. PICK c : c = Configured(s)
  OBVIOUS
<1>7. /\ c.pc = "starting" /\ c.done = v.done
      /\ c.fingerprint = cachedSnapshot'.fingerprint /\ c.groups = cachedSnapshot'.groups
  BY <1>3, <1>5, <1>6, ConfiguredType, NoneAssumption DEF Configured, WatcherState
<1>8. watcher' = [watcher EXCEPT ![w] = c]
  BY <1>1, <1>2, <1>6 DEF Connected, Goes
<1>9. \A u \in Watcher : watcher'[u] = IF u = w THEN c ELSE watcher[u]
  BY <1>8 DEF IInv, TypeOK
<1>10. Informed'
  <2>1. IsInformed(c)'
    BY <1>5, <1>7, NoneAssumption DEF IsInformed
  <2> QED
    BY <1>4, <1>8, <2>1, GoesInformed
<1>11. One'
  BY <1>1, <1>4, <1>7, <1>9 DEF IInv, One, Busy, history
<1>12. Whole'
  BY <1>1, <1>4, <1>7, <1>9 DEF IInv, Whole, AtWork, history, chain, effects, fileStore
<1> QED
  BY <1>10, <1>11, <1>12

LEMMA StartedKeeps ==
  ASSUME IInv, NEW w \in Watcher, Started(w)
  PROVE  Informed' /\ One' /\ Whole'
<1>1. PICK v \in WatcherState : v = watcher[w] /\ v.pc = "starting" /\ v.isRunning /\ IsInformed(v)
  BY DEF IInv, TypeOK, Informed, Started
<1>2. PICK c : c = [v EXCEPT !.pc = "loop", !.next = FirstBlock(w)]
  OBVIOUS
<1>3. /\ c.pc = "loop" /\ c.next = FirstBlock(w) /\ c.done = v.done /\ c.isRunning
      /\ c.fingerprint = v.fingerprint /\ c.groups = v.groups
  BY <1>1, <1>2 DEF WatcherState
<1>4. watcher' = [watcher EXCEPT ![w] = c]
  BY <1>1, <1>2 DEF Started, Goes
<1>5. \A u \in Watcher : watcher'[u] = IF u = w THEN c ELSE watcher[u]
  BY <1>4 DEF IInv, TypeOK
<1>6. UNCHANGED <<cachedSnapshot, edit, kv, file, startBlock, current, processed, overtaken>>
  BY DEF Started, loader, fileStore, chain, effects
<1>7. Informed'
  <2>1. IsInformed(c)'
    BY <1>1, <1>3, <1>6 DEF IsInformed
  <2> QED
    BY <1>4, <1>6, <2>1, GoesInformed
<1>8. One'
  BY <1>1, <1>3, <1>5, <1>6 DEF IInv, One, Busy
<1>9. Whole'
  <2> SUFFICES ASSUME startBlock = None, ~forgot', ~overtaken
               PROVE  Whole'
    BY <1>6 DEF Whole
  <2>1. ~forgot /\ (kv.last = None => processed = {})
    BY DEF Started
  <2>2. processed = {} \/ c.next \in processed
    <3>1. CASE kv.last = None
      BY <2>1, <3>1
    <3>2. CASE kv.last # None
      BY <1>3, <2>1, <3>2 DEF FirstBlock, Or, IInv, Whole
    <3> QED
      BY <3>1, <3>2
  <2> QED
    BY <1>1, <1>3, <1>5, <1>6, <2>1, <2>2 DEF IInv, Whole, AtWork
<1> QED
  BY <1>7, <1>8, <1>9

LEMMA BeginBlockKeeps ==
  ASSUME IInv, NEW w \in Watcher, BeginBlock(w), cachedSnapshot' # None
  PROVE  /\ Informed' /\ One' /\ Whole'
         /\ watcher'[w].groups = cachedSnapshot'.groups
         /\ \A u \in Watcher \ {w} : watcher'[u] = watcher[u]
<1>1. PICK v \in WatcherState : v = watcher[w] /\ v.pc = "loop" /\ v.isRunning /\ IsInformed(v)
  BY DEF IInv, TypeOK, Informed, BeginBlock
<1>2. LoadSnapshot /\ UNCHANGED <<fileStore, chain, current, effects, history>>
  BY DEF BeginBlock
<1>3. cachedSnapshot' \in Snapshot
  BY <1>2, LoadType DEF IInv, Snapshot, TypeOK
<1>4. PICK s \in WatcherState :
        /\ s = Configured(v) /\ s.pc = "loop" /\ s.isRunning /\ s.next = v.next /\ s.done = v.done
        /\ s.fingerprint = cachedSnapshot'.fingerprint /\ s.groups = cachedSnapshot'.groups
  BY <1>1, <1>2, <1>3, LoadType, ConfiguredType, ConfiguredIs DEF IInv
<1>5. PICK c : c = IF verdict[s.groups].isWatching THEN [s EXCEPT !.pc = "block"] ELSE s
  OBVIOUS
<1>6. /\ c.pc \in {"loop", "block"} /\ c.next = v.next /\ c.done = v.done
      /\ c.fingerprint = cachedSnapshot'.fingerprint /\ c.groups = cachedSnapshot'.groups
  BY <1>4, <1>5 DEF WatcherState
<1>7. watcher' = [watcher EXCEPT ![w] = c]
  BY <1>1, <1>4, <1>5 DEF BeginBlock, Goes
<1>8. \A u \in Watcher : watcher'[u] = IF u = w THEN c ELSE watcher[u]
  BY <1>7 DEF IInv, TypeOK
<1>9. Informed'
  <2>1. cachedSnapshot'.fingerprint \in Nat
    BY <1>1, <1>2, ConfiguredIs
  <2>2. IsInformed(c)'
    BY <1>6, <2>1, NoneAssumption DEF IsInformed
  <2> QED
    BY <1>2, <1>7, <2>2, GoesInformed
<1>10. One'
  BY <1>1, <1>2, <1>6, <1>8 DEF IInv, One, Busy, history
<1>11. Whole'
  BY <1>1, <1>2, <1>6, <1>8 DEF IInv, Whole, AtWork, history, chain, effects, fileStore
<1> QED
  BY <1>6, <1>8, <1>9, <1>10, <1>11

\* A block that follows processed ones leaves no gap.
LEMMA NoGap ==
  ASSUME NEW S \in SUBSET Nat, \A a, b \in S : a .. b \subseteq S, NEW n \in Nat,
         S = {} \/ n \in S \/ n - 1 \in S
  PROVE  \A a, b \in S \union {n} : a .. b \subseteq S \union {n}
<1> SUFFICES ASSUME NEW a \in S \union {n}, NEW b \in S \union {n}, NEW k \in a .. b
             PROVE  k \in S \union {n}
  OBVIOUS
<1>1. CASE S = {} \/ n \in S
  BY <1>1
<1>2. CASE n - 1 \in S
  <2>1. CASE a = n /\ b \in S
    <3>1. k \in n - 1 .. b
      BY <2>1
    <3> QED
      BY <1>2, <2>1, <3>1
  <2>2. CASE a \in S /\ b = n
    <3>1. k = n \/ k \in a .. n - 1
      BY <2>2
    <3> QED
      BY <1>2, <2>2, <3>1
  <2>3. CASE (a = n /\ b = n) \/ (a \in S /\ b \in S)
    BY <2>3
  <2> QED
    BY <2>1, <2>2, <2>3
<1> QED
  BY <1>1, <1>2

LEMMA SetLastBlockKeeps ==
  ASSUME IInv, NEW w \in Watcher, SetLastBlock(w)
  PROVE  Informed' /\ One' /\ Whole'
<1>1. PICK v \in WatcherState : v = watcher[w] /\ v.pc = "persist" /\ IsInformed(v)
  BY DEF IInv, TypeOK, Informed, SetLastBlock
<1>2. v.next \in Nat
  BY ServiceAssumption DEF WatcherState
<1>3. PICK c : c = [v EXCEPT !.pc = "loop", !.done = v.next, !.next = v.next + 1]
  OBVIOUS
<1>4. /\ c.pc = "loop" /\ c.done = v.next /\ c.next = v.next + 1
      /\ c.fingerprint = v.fingerprint /\ c.groups = v.groups
  BY <1>3 DEF WatcherState
<1>5. watcher' = [watcher EXCEPT ![w] = c]
  BY <1>1, <1>3 DEF SetLastBlock, Goes
<1>6. \A u \in Watcher : watcher'[u] = IF u = w THEN c ELSE watcher[u]
  BY <1>5 DEF IInv, TypeOK
<1>7. /\ UNCHANGED <<cachedSnapshot, edit, file, startBlock, current, forgot, overtaken>>
      /\ processed' = processed \union {v.next} /\ kv'.last = v.next
  BY <1>1 DEF SetLastBlock, Set, loader, chain, history, IInv, TypeOK, Entries
<1>8. Informed'
  <2>1. IsInformed(c)'
    BY <1>1, <1>4, <1>7 DEF IsInformed
  <2> QED
    BY <1>5, <1>7, <2>1, GoesInformed
<1>9. One'
  BY <1>1, <1>4, <1>6, <1>7 DEF IInv, One, Busy
<1>10. Whole'
  <2> SUFFICES ASSUME startBlock = None, ~forgot, ~overtaken
               PROVE  Whole'
    BY <1>7 DEF Whole
  <2>1. processed \in SUBSET Nat /\ \A a, b \in processed : a .. b \subseteq processed
    BY DEF IInv, TypeOK, Whole
  <2>2. processed = {} \/ v.next \in processed \/ v.next - 1 \in processed
    BY <1>1 DEF IInv, Whole, AtWork
  <2>3. \A a, b \in processed' : a .. b \subseteq processed'
    BY <1>2, <1>7, <2>1, <2>2, NoGap
  <2>4. \A u \in Watcher : AtWork(watcher'[u]) => u = w
    BY <1>1, <1>6 DEF IInv, One, Busy, AtWork
  <2>5. AtWork(watcher'[w]) => watcher'[w].next - 1 \in processed'
    BY <1>2, <1>4, <1>6, <1>7
  <2>6. \A u \in Watcher : watcher'[u].done \in processed' \union {None}
    BY <1>4, <1>6, <1>7 DEF IInv, Whole
  <2>7. file' # None => file'.last \in processed' \union {None}
    BY <1>7 DEF IInv, Whole
  <2> QED
    BY <1>7, <2>3, <2>4, <2>5, <2>6, <2>7 DEF Whole
<1> QED
  BY <1>8, <1>9, <1>10

\* The old watcher has no more work when there is a new one.
LEMMA RebuildKeeps ==
  ASSUME IInv, Stalled, NEW w \in Watcher, Rebuild(w)
  PROVE  Informed' /\ One' /\ Whole'
<1>1. UNCHANGED <<loader, startBlock, processed, forgot>> /\ up = "running"
  BY DEF Stalled, chain, effects
<1>2. \A v \in Watcher : watcher'[v] = IF v = w THEN Connecting
                                        ELSE IF v = current THEN Stopped(v) ELSE watcher[v]
  BY DEF Rebuild
<1>3. Connecting.pc = "connecting"
  BY NewWatcher
<1>4. UNCHANGED <<fileStore, current>>
  <2>1. ~Halt
    BY <1>2, <1>3 DEF Halt, Off
  <2> QED
    BY <2>1 DEF Stalled, Fatal
<1>5. Informed'
  <2>1. ASSUME NEW v \in Watcher PROVE IsInformed(watcher[v])'
    <3>1. PICK d \in WatcherState : d = watcher[v] /\ IsInformed(d)
      BY DEF IInv, TypeOK, Informed
    <3>2. IsInformed(Connecting)
      BY NewWatcher DEF IsInformed
    <3>3. IsInformed(Stopped(v))
      <4>1. /\ Stopped(v).fingerprint = d.fingerprint /\ Stopped(v).groups = d.groups
            /\ Stopped(v).done = d.done
            /\ Stopped(v).pc = IF d.isHung /\ d.pc = "block" THEN "loop" ELSE d.pc
        BY <3>1 DEF Stopped, WatcherState
      <4> QED
        BY <3>1, <4>1 DEF IsInformed
    <3> QED
      BY <1>1, <1>2, <3>1, <3>2, <3>3 DEF IsInformed, loader
  <2> QED
    BY <1>1, <2>1 DEF IInv, Informed, IsFresh, loader
<1>6. \A v \in Watcher :
        v # w => /\ IsTame(watcher[v], watcher'[v])
                 /\ v = current => ~watcher'[v].isRunning /\ ~watcher'[v].isHung
  <2> SUFFICES ASSUME NEW v \in Watcher, v # w
               PROVE  /\ IsTame(watcher[v], watcher'[v])
                      /\ v = current => ~watcher'[v].isRunning /\ ~watcher'[v].isHung
    OBVIOUS
  <2>1. PICK d \in WatcherState : d = watcher[v] /\ IsPlaced(d)
    BY DEF IInv, TypeOK, Placed
  <2>2. IsTame(d, Stopped(v)) /\ ~Stopped(v).isHung /\ ~Stopped(v).isRunning
    BY <2>1, StoppedTame, StoppedType
  <2>3. IsTame(d, d)
    BY DEF IsTame
  <2> QED
    BY <1>2, <2>1, <2>2, <2>3
<1>7. One'
  <2>1. ASSUME NEW v \in Watcher, watcher'[v].pc = "persist"
        PROVE  ~watcher'[v].isHung
    <3>1. v # w
      BY <1>2, <1>3, <2>1
    <3>2. IsTame(watcher[v], watcher'[v])
      BY <1>6, <3>1
    <3>3. watcher'[v].isHung => watcher[v].pc = "persist" /\ watcher[v].isHung
      BY <2>1, <3>2 DEF IsTame
    <3> QED
      BY <3>3 DEF IInv, One
  <2>2. ASSUME ~overtaken'
        PROVE  \A v \in Watcher : ~Busy(watcher'[v]) /\ (watcher'[v].pc = "connecting" => v = w)
    <3>1. /\ ~overtaken
          /\ \A v \in Watcher : watcher[v].pc # "connecting"
          /\ \A v \in Watcher : watcher[v].pc \in {"block", "persist"} => watcher[v].isHung
      BY <2>2 DEF Rebuild
    <3> SUFFICES ASSUME NEW v \in Watcher
                 PROVE  ~Busy(watcher'[v]) /\ (watcher'[v].pc = "connecting" => v = w)
      OBVIOUS
    <3>2. CASE v = w
      BY <1>2, <1>3, <3>2 DEF Busy
    <3>3. CASE v # w /\ v # current
      BY <1>2, <3>1, <3>3 DEF IInv, One
    <3>4. CASE v # w /\ v = current
      <4>1. PICK d \in WatcherState : d = watcher[v]
        BY DEF IInv, TypeOK
      <4>2. Stopped(v).pc = (IF d.isHung /\ d.pc = "block" THEN "loop" ELSE d.pc) /\ ~Stopped(v).isRunning
        BY <4>1 DEF Stopped, WatcherState
      <4>3. d.pc # "persist" /\ (d.pc = "block" => d.isHung) /\ d.pc # "connecting"
        BY <3>1, <4>1 DEF IInv, One
      <4> QED
        BY <1>2, <3>4, <4>2, <4>3 DEF Busy
    <3> QED
      BY <3>2, <3>3, <3>4
  <2> QED
    BY <2>1, <2>2 DEF One
<1>8. Whole'
  <2> SUFFICES ASSUME startBlock = None, ~forgot, ~overtaken'
               PROVE  Whole'
    BY <1>1 DEF Whole
  <2>1. ~overtaken
    BY DEF Rebuild
  <2>2. ASSUME NEW v \in Watcher
        PROVE  /\ watcher'[v].done \in processed \union {None}
               /\ AtWork(watcher'[v]) =>
                    processed = {} \/ watcher'[v].next \in processed \/ watcher'[v].next - 1 \in processed
    <3>1. CASE v = w
      BY <1>2, <3>1, NewWatcher DEF AtWork
    <3>2. CASE v # w
      <4>1. IsTame(watcher[v], watcher'[v])
        BY <1>6, <3>2
      <4>2. /\ watcher[v].done \in processed \union {None}
            /\ AtWork(watcher[v]) =>
                 processed = {} \/ watcher[v].next \in processed \/ watcher[v].next - 1 \in processed
        BY <2>1 DEF IInv, Whole
      <4> QED
        BY <4>1, <4>2 DEF IsTame
    <3> QED
      BY <3>1, <3>2
  <2> QED
    BY <1>1, <1>4, <2>1, <2>2 DEF IInv, Whole, fileStore
<1> QED
  BY <1>5, <1>7, <1>8

-----------------------------------------------------------------------------
(***************************************************************************)
(* The invariant is inductive.                                             *)
(***************************************************************************)
LEMMA InitInvariant == Init => IInv
<1> SUFFICES ASSUME Init PROVE IInv
  OBVIOUS
<1>1. TypeOK
  BY InitType
<1>2. /\ \A w \in Watcher : watcher[w] = Off
      /\ cachedSnapshot = None /\ kv.last = None /\ file = None /\ processed = {}
  BY DEF Init, EmptyMap
<1>3. Off.pc = "off" /\ Off.fingerprint = None /\ Off.done = None
  BY DEF Off
<1>4. Placed
  BY <1>2, <1>3 DEF Placed, IsPlaced
<1>5. Informed
  BY <1>2, <1>3 DEF Informed, IsInformed
<1>6. One
  BY <1>2, <1>3 DEF One, Busy
<1>7. Whole
  BY <1>2, <1>3 DEF Whole, AtWork
<1> QED
  BY <1>1, <1>4, <1>5, <1>6, <1>7 DEF IInv

\* A watcher in its loop has loaded a snapshot, so that the next one is there too.
LEMMA BlocksHaveASnapshot ==
  ASSUME IInv, NEW w \in Watcher, BeginBlock(w)
  PROVE  cachedSnapshot' # None
<1>1. cachedSnapshot # None
  BY DEF IInv, Informed, IsInformed, BeginBlock
<1>2. PICK read \in DOMAIN verdict : edit \in DOMAIN verdict /\ cachedSnapshot' = Loaded(read)
  BY DEF BeginBlock, LoadSnapshot, IInv, TypeOK
<1>3. read \in Nat /\ edit \in Nat
  BY <1>2, EditsAreNumbered DEF IInv, TypeOK
<1>4. [fingerprint |-> edit, groups |-> read] # None
  BY <1>3, NoneAssumption
<1> QED
  BY <1>1, <1>2, <1>4 DEF Loaded

\* What begins a block, and what every other step leaves as it is.
LEMMA NextKeeps ==
  ASSUME IInv, [Next]_vars
  PROVE  /\ Informed' /\ One' /\ Whole'
         /\ \A w \in Watcher :
              watcher[w].pc = "loop" /\ watcher'[w].pc = "block" /\ verdict[edit].isGood /\ verdict[edit'].isGood
                => watcher'[w].groups \in {edit, edit'}
<1> DEFINE Sees(w) ==
      watcher[w].pc = "loop" /\ watcher'[w].pc = "block" /\ verdict[edit].isGood /\ verdict[edit'].isGood
        => watcher'[w].groups \in {edit, edit'}
<1>1. CASE Quiet
  BY <1>1, QuietKeeps DEF Quiet, IsTame
<1>2. CASE Bootstrap
  <2>1. \A u \in Watcher : watcher[u].pc = "off"
    BY <1>2 DEF IInv, Placed, Bootstrap
  <2> QED
    BY <1>2, <2>1, BootstrapKeeps
<1>3. ASSUME NEW w \in Watcher, Connected(w)
      PROVE  Informed' /\ One' /\ Whole' /\ \A u \in Watcher : Sees(u)
  <2>1. CASE cachedSnapshot' = None
    BY <1>3, <2>1, FailedStartQuiet, QuietKeeps DEF Quiet, IsTame
  <2>2. CASE cachedSnapshot' # None
    <3>1. watcher[w].pc = "connecting" /\ \A u \in Watcher \ {w} : watcher'[u] = watcher[u]
      BY <1>3, <2>2 DEF Connected, Goes, IInv, TypeOK
    <3> QED
      BY <1>3, <2>2, <3>1, ConnectedKeeps
  <2> QED
    BY <2>1, <2>2
<1>4. ASSUME NEW w \in Watcher, Started(w)
      PROVE  Informed' /\ One' /\ Whole' /\ \A u \in Watcher : Sees(u)
  <2>1. watcher[w].pc = "starting" /\ \A u \in Watcher \ {w} : watcher'[u] = watcher[u]
    BY <1>4 DEF Started, Goes, IInv, TypeOK
  <2> QED
    BY <1>4, <2>1, StartedKeeps
<1>5. ASSUME NEW w \in Watcher, BeginBlock(w)
      PROVE  Informed' /\ One' /\ Whole' /\ \A u \in Watcher : Sees(u)
  <2>1. cachedSnapshot' # None /\ LoadSnapshot
    BY <1>5, BlocksHaveASnapshot DEF BeginBlock
  <2>2. verdict[edit].isGood /\ verdict[edit'].isGood => cachedSnapshot'.groups \in {edit, edit'}
    BY <2>1, LoadInforms
  <2> QED
    BY <1>5, <2>1, <2>2, BeginBlockKeeps
<1>6. ASSUME NEW w \in Watcher, SetLastBlock(w)
      PROVE  Informed' /\ One' /\ Whole' /\ \A u \in Watcher : Sees(u)
  <2>1. watcher[w].pc = "persist" /\ \A u \in Watcher \ {w} : watcher'[u] = watcher[u]
    BY <1>6 DEF SetLastBlock, Goes, IInv, TypeOK
  <2> QED
    BY <1>6, <2>1, SetLastBlockKeeps
<1>7. ASSUME Stalled, NEW w \in Watcher, Rebuild(w)
      PROVE  Informed' /\ One' /\ Whole' /\ \A u \in Watcher : Sees(u)
  <2>1. \A u \in Watcher : watcher'[u].pc = "block" => watcher[u].pc = "block"
    <3> SUFFICES ASSUME NEW u \in Watcher, watcher'[u].pc = "block"
                 PROVE  watcher[u].pc = "block"
      OBVIOUS
    <3>1. PICK d \in WatcherState : d = watcher[u] /\ IsPlaced(d)
      BY DEF IInv, TypeOK, Placed
    <3>2. Stopped(u).pc \in {d.pc, "loop"} /\ Connecting.pc = "connecting"
      BY <3>1, StoppedType, NewWatcher
    <3>3. watcher'[u] \in {Connecting, Stopped(u), d}
      BY <1>7, <3>1 DEF Rebuild
    <3> QED
      BY <3>1, <3>2, <3>3
  <2> QED
    BY <1>7, <2>1, RebuildKeeps
<1>8. CASE Stalled /\ ~\E w \in Watcher : Rebuild(w)
  BY <1>1, <1>8, StalledQuiet
<1>9. CASE Crash \/ Exit \/ Terminate
  BY <1>1, <1>9, CrashQuiet, TerminateQuiet
<1>10. CASE PersistTimer \/ SaveTimer \/ Progress \/ NewBlock \/ EditConfig \/ UNCHANGED vars
  BY <1>1, <1>10, TimerQuiet
<1>11. ASSUME NEW w \in Watcher, LeaveLoop(w) \/ ReportState(w) \/ BlockFails(w) \/ Hang(w) \/ Reconnect(w)
       PROVE  Informed' /\ One' /\ Whole' /\ \A u \in Watcher : Sees(u)
  BY <1>1, <1>11, WatcherQuiet
<1>12. ASSUME NEW w \in Watcher, Refused(w)
       PROVE  Informed' /\ One' /\ Whole' /\ \A u \in Watcher : Sees(u)
  BY <1>1, <1>12, RefusedQuiet
<1> QED
  BY <1>2, <1>3, <1>4, <1>5, <1>6, <1>7, <1>8, <1>9, <1>10, <1>11, <1>12 DEF Next, WatcherStep

LEMMA NextInvariant == IInv /\ [Next]_vars => IInv'
<1> SUFFICES ASSUME IInv, [Next]_vars PROVE IInv'
  OBVIOUS
<1>1. TypeOK' /\ Placed'
  BY NextType, BlocksHaveASnapshot DEF IInv
<1> QED
  BY <1>1, NextKeeps DEF IInv

THEOREM Invariant == Spec => []IInv
  BY InitInvariant, NextInvariant, PTL DEF Spec

-----------------------------------------------------------------------------
(***************************************************************************)
(* What has been told.  An alert is sent before the entry of the store is  *)
(* written, the entry before the block is stored as the last one, and the  *)
(* file after all of them: whatever is lost on the way, the blocks that    *)
(* will be processed again tell it again.                                  *)
(***************************************************************************)
\* The entry of map m, of a store that is at block n, is what was told last, or
\* a block to come will tell.
Due(m, n) ==
  (m.ongoing # None <=> shown) \/ \E b \in n .. latest : b \in firing <=> shown

\* What the watcher in charge has told, and stored.
IsTelling(v) ==
  /\ v.done # None =>
       v.pc \in {"loop", "block", "persist"} /\ v.next = v.done + 1 /\ kv.last = v.done
  /\ v.pc \in {"loop", "block", "persist"} /\ kv.last # None => kv.last <= v.next
  /\ v.pc \in {"loop", "block"} =>
       Due(kv, v.next) /\ (v.done # None => (kv.ongoing # None <=> v.done \in firing))
  /\ v.pc = "persist" => Due(kv, v.next + 1) /\ (kv.ongoing # None <=> v.next \in firing)

\* The first alert of all, before its block is processed.
FirstAlert ==
  processed = {} /\ (kv.ongoing # None \/ (file # None /\ file.ongoing # None)) =>
    shown /\ (current # None => watcher[current].pc \notin {"loop", "block"})

Stored ==
  /\ kv.last # None => Due(kv, kv.last)
  /\ file # None /\ file.last # None =>
       Due(file, file.last) /\ kv.last # None /\ file.last <= kv.last

Told ==
  /\ storeType = "inMemory" => file = None
  /\ startBlock = None /\ ~forgot /\ ~overtaken =>
       Stored /\ FirstAlert /\ (current # None => IsTelling(watcher[current]))

\* A process that finds what the last one stored, and whose starts are not overtaken.
IsTold == startBlock = None /\ ~forgot /\ ~overtaken

\* A watcher that has told nothing, and stored nothing, meanwhile.
IsSilent(v, c) ==
  \/ c.pc \notin {"loop", "block", "persist"} /\ c.done = None
  \/ /\ c.next = v.next /\ c.done = v.done
     /\ c.pc = v.pc \/ {c.pc, v.pc} = {"loop", "block"}

LEMMA DueStays ==
  ASSUME UNCHANGED <<shown, firing>>, latest \in Nat, latest' \in Nat, latest <= latest',
         NEW n \in Int
  PROVE  /\ kv' = kv => (Due(kv, n) => Due(kv, n)')
         /\ file' = file => (Due(file, n) => Due(file, n)')
         /\ file' = kv => (Due(kv, n) => Due(file, n)')
  BY DEF Due

\* Steps that tell nothing and store nothing, but for the file.
LEMMA SilentTold ==
  ASSUME TypeOK, TypeOK', Told, IsTold' => IsTold,
         UNCHANGED <<firing, current, storeType, shown, processed, kv>>, latest <= latest',
         file' \in {file, kv, None}, storeType = "inMemory" => file' \in {file, None},
         current # None => IsSilent(watcher[current], watcher'[current])
  PROVE  Told'
<1>1. (storeType = "inMemory" => file = None)'
  BY DEF Told
<1> SUFFICES ASSUME IsTold, IsTold'
             PROVE  Stored' /\ FirstAlert' /\ (current # None => IsTelling(watcher[current]))'
  BY <1>1 DEF Told, IsTold
<1>2. Stored /\ FirstAlert /\ (current # None => IsTelling(watcher[current]))
  BY DEF Told, IsTold
<1>3. /\ latest \in Nat /\ latest' \in Nat
      /\ kv.last # None => kv.last \in Int
      /\ file # None /\ file.last # None => file.last \in Int
  BY ServiceAssumption DEF TypeOK, Entries, Block
<1>4. Stored'
  BY <1>2, <1>3, DueStays DEF Stored
<1>5. FirstAlert'
  BY <1>2 DEF FirstAlert, IsSilent
<1>6. ASSUME current # None
      PROVE  IsTelling(watcher[current])'
  <2>1. PICK v \in WatcherState : v = watcher[current] /\ IsTelling(v)
    BY <1>2, <1>6 DEF TypeOK
  <2>2. PICK c : c = watcher'[current] /\ IsSilent(v, c)
    BY <1>6, <2>1
  <2>3. v.next \in Int
    BY ServiceAssumption DEF WatcherState
  <2>4. \A n \in Int : Due(kv, n) => Due(kv, n)'
    BY <1>3, DueStays
  <2>5. IsTelling(c)'
    BY <2>1, <2>2, <2>3, <2>4 DEF IsTelling, IsSilent
  <2> QED
    BY <2>2, <2>5 DEF IsTelling
<1> QED
  BY <1>4, <1>5, <1>6

\* The watcher in charge has stored what it has done: there is nothing to flush.
LEMMA NothingToFlush ==
  ASSUME TypeOK, Told, IsTold
  PROVE  Flushed = kv /\ (current # None => CurrentDone \in {None, kv.last})
<1>1. current # None => watcher[current].done \in {None, kv.last}
  BY DEF Told, IsTold, IsTelling
<1>2. [kv EXCEPT !.last = kv.last] = kv
  BY DEF TypeOK, Entries
<1> QED
  BY <1>1, <1>2 DEF Flushed, CurrentDone

LEMMA HaltSilent ==
  ASSUME Halt, TypeOK, NEW v
  PROVE  current # None => IsSilent(v, watcher'[current])
<1>1. current # None => watcher'[current] = Off
  BY DEF Halt, TypeOK
<1> QED
  BY <1>1 DEF IsSilent, Off

\* The process ends, and its store with it, or its store is written first.
LEMMA HaltTold ==
  ASSUME TypeOK, TypeOK', Told, Halt, IsTold' => IsTold,
         UNCHANGED <<firing, latest, current, storeType, shown, processed>>,
         \/ kv' = kv /\ file' \in {file, None}
         \/ kv' = Flushed /\ file' = Written(Flushed)
  PROVE  Told'
<1>1. latest <= latest'
  BY DEF TypeOK, Block
<1>2. CASE kv' = kv /\ file' \in {file, None}
  BY <1>1, <1>2, HaltSilent, SilentTold
<1>3. CASE kv' = Flushed /\ file' = Written(Flushed) /\ IsTold
  <2>1. kv' = kv /\ file' \in {file, kv} /\ (storeType = "inMemory" => file' = file)
    BY <1>3, NothingToFlush DEF Written
  <2> QED
    BY <1>1, <2>1, HaltSilent, SilentTold
<1>4. CASE kv' = Flushed /\ file' = Written(Flushed) /\ ~IsTold
  BY <1>4 DEF Told, IsTold, Written
<1> QED
  BY <1>2, <1>3, <1>4

LEMMA StartFailsTold ==
  ASSUME TypeOK, TypeOK', Told, NEW w \in Watcher, StartFails(w),
         UNCHANGED <<chain, effects, history>>
  PROVE  Told'
<1>1. Halt /\ UNCHANGED <<current, storeType>>
  BY DEF StartFails, Fatal, fileStore
<1>2. \/ kv' = kv /\ file' \in {file, None}
      \/ kv' = Flushed /\ file' = Written(Flushed)
  BY DEF StartFails, Fatal, fileStore
<1>3. IsTold' => IsTold
  BY DEF IsTold, chain, history
<1> QED
  BY <1>1, <1>2, <1>3, HaltTold DEF chain, effects

LEMMA CrashTold ==
  ASSUME TypeOK, TypeOK', Told, Crash \/ Exit
  PROVE  Told'
<1>1. /\ Halt /\ UNCHANGED <<chain, effects, history, current, storeType>>
      /\ kv' = kv /\ file' \in {file, None}
  BY DEF Crash, Exit, fileStore
<1>2. IsTold' => IsTold
  BY <1>1 DEF IsTold, chain, history
<1> QED
  BY <1>1, <1>2, HaltTold DEF chain, effects

\* The watcher in charge is stopped.
LEMMA StoppedSilent ==
  ASSUME NEW w, NEW v \in WatcherState, v = watcher[w]
  PROVE  IsSilent(v, Stopped(w))
<1>1. /\ Stopped(w).next = v.next /\ Stopped(w).done = v.done
      /\ Stopped(w).pc = IF v.isHung /\ v.pc = "block" THEN "loop" ELSE v.pc
  BY DEF Stopped, WatcherState
<1> QED
  BY <1>1 DEF IsSilent

LEMMA TerminateTold ==
  ASSUME TypeOK, TypeOK', Told, Terminate
  PROVE  Told'
<1>1. /\ UNCHANGED <<chain, effects, history, current, storeType>>
      /\ kv' = Flushed /\ file' = Written(Flushed)
  BY DEF Terminate
<1>2. IsTold' <=> IsTold
  BY <1>1 DEF IsTold, chain, history
<1>3. CASE IsTold
  <2>1. kv' = kv /\ file' \in {file, kv} /\ (storeType = "inMemory" => file' = file)
    BY <1>1, <1>3, NothingToFlush DEF Written
  <2>2. current # None => IsSilent(watcher[current], watcher'[current])
    BY StoppedSilent DEF Terminate, TypeOK
  <2>3. latest <= latest'
    BY <1>1 DEF TypeOK, Block, chain
  <2> QED
    BY <1>1, <1>2, <2>1, <2>2, <2>3, SilentTold DEF chain, effects
<1>4. CASE ~IsTold
  BY <1>1, <1>2, <1>4 DEF Told, IsTold, Written
<1> QED
  BY <1>3, <1>4

\* A watcher that tells nothing goes on, and the others stand still.
LEMMA GoesSilent ==
  ASSUME TypeOK, NEW w \in Watcher, NEW c, IsSilent(watcher[w], c), Goes(w, c)
  PROVE  current # None => IsSilent(watcher[current], watcher'[current])
<1>1. current # None => watcher'[current] = IF current = w THEN c ELSE watcher[current]
  BY DEF Goes, TypeOK
<1>2. \A v : IsSilent(v, v)
  BY DEF IsSilent
<1> QED
  BY <1>1, <1>2

LEMMA WatcherTold ==
  ASSUME TypeOK, TypeOK', Told, NEW w \in Watcher,
         LeaveLoop(w) \/ Hang(w) \/ Reconnect(w)
  PROVE  Told'
<1>1. PICK v \in WatcherState : v = watcher[w]
  BY DEF TypeOK
<1>2. UNCHANGED <<fileStore, chain, current, effects, history>>
  BY DEF LeaveLoop, Hang, Reconnect
<1>3. \E c : IsSilent(watcher[w], c) /\ Goes(w, c)
  <2>1. CASE LeaveLoop(w)
    <3>1. IsSilent(v, Off)
      BY DEF IsSilent, Off
    <3> QED
      BY <1>1, <2>1, <3>1 DEF LeaveLoop
  <2>2. CASE Hang(w) \/ Reconnect(w)
    <3>1. PICK h \in BOOLEAN : Goes(w, [v EXCEPT !.isHung = h])
      BY <1>1, <2>2 DEF Hang, Reconnect
    <3>2. IsSilent(v, [v EXCEPT !.isHung = h])
      BY DEF IsSilent, WatcherState
    <3> QED
      BY <1>1, <3>1, <3>2
  <2> QED
    BY <2>1, <2>2
<1>4. current # None => IsSilent(watcher[current], watcher'[current])
  BY <1>3, GoesSilent
<1>5. latest <= latest' /\ (IsTold' => IsTold)
  BY <1>2 DEF TypeOK, Block, chain, IsTold, history
<1> QED
  BY <1>2, <1>4, <1>5, SilentTold DEF fileStore, chain, effects

LEMMA BeginBlockTold ==
  ASSUME TypeOK, TypeOK', Told, NEW w \in Watcher, BeginBlock(w), cachedSnapshot' # None
  PROVE  Told'
<1>1. PICK v \in WatcherState : v = watcher[w] /\ v.pc = "loop"
  BY DEF TypeOK, BeginBlock
<1>2. LoadSnapshot /\ UNCHANGED <<fileStore, chain, current, effects, history>>
  BY DEF BeginBlock
<1>3. PICK s \in WatcherState :
        s = Configured(v) /\ s.pc = "loop" /\ s.next = v.next /\ s.done = v.done
  BY <1>1, <1>2, LoadType, ConfiguredType
<1>4. PICK c : c = IF verdict[s.groups].isWatching THEN [s EXCEPT !.pc = "block"] ELSE s
  OBVIOUS
<1>5. IsSilent(v, c)
  BY <1>1, <1>3, <1>4 DEF IsSilent, WatcherState
<1>6. Goes(w, c)
  BY <1>1, <1>3, <1>4 DEF BeginBlock
<1>7. current # None => IsSilent(watcher[current], watcher'[current])
  BY <1>1, <1>5, <1>6, GoesSilent
<1>8. latest <= latest' /\ (IsTold' => IsTold)
  BY <1>2 DEF TypeOK, Block, chain, IsTold, history
<1> QED
  BY <1>2, <1>7, <1>8, SilentTold DEF fileStore, chain, effects

LEMMA TimerTold ==
  ASSUME TypeOK, TypeOK', Told,
         PersistTimer \/ SaveTimer \/ Progress \/ NewBlock \/ EditConfig \/ UNCHANGED vars
  PROVE  Told'
<1>1. /\ UNCHANGED <<firing, startBlock, current, watcher, storeType, shown, processed, history>>
      /\ latest <= latest'
  BY DEF PersistTimer, SaveTimer, Save, Progress, NewBlock, EditConfig, vars, chain, process, effects,
         fileStore, TypeOK, Block
<1>2. IsTold' <=> IsTold
  BY <1>1 DEF IsTold, history
<1>3. file' \in {file, kv} /\ (storeType = "inMemory" => file' = file)
  BY DEF PersistTimer, SaveTimer, Save, Written, Progress, NewBlock, EditConfig, vars, fileStore
<1>4. CASE ~IsTold
  BY <1>1, <1>2, <1>3, <1>4 DEF Told, IsTold
<1>5. CASE IsTold
  <2>1. kv' = kv
    BY <1>5, NothingToFlush DEF PersistTimer, CurrentDone, SaveTimer, Save, Progress, NewBlock, EditConfig,
       vars, fileStore
  <2>2. current # None => IsSilent(watcher[current], watcher'[current])
    BY <1>1 DEF IsSilent
  <2> QED
    BY <1>1, <1>2, <1>3, <2>1, <2>2, SilentTold
<1> QED
  BY <1>4, <1>5

LEMMA StalledTold ==
  ASSUME TypeOK, TypeOK', Told, Stalled
  PROVE  Told'
<1>1. UNCHANGED <<chain, effects, forgot>> /\ latest <= latest'
  BY DEF Stalled, TypeOK, Block, chain
<1>2. CASE Fatal /\ UNCHANGED overtaken
  <2>1. Halt /\ kv' = Flushed /\ file' = Written(Flushed) /\ UNCHANGED <<storeType, current>>
    BY <1>2 DEF Fatal
  <2>2. IsTold' => IsTold
    BY <1>1, <1>2 DEF IsTold, chain
  <2> QED
    BY <1>1, <2>1, <2>2, HaltTold DEF chain, effects
<1>3. ASSUME NEW w \in Watcher, Rebuild(w), UNCHANGED <<fileStore, current>>
      PROVE  Told'
  <2>1. IsTold' => IsTold
    BY <1>1, <1>3 DEF IsTold, chain, Rebuild
  <2>2. ASSUME current # None PROVE IsSilent(watcher[current], watcher'[current])
    <3>1. watcher'[current] \in {Connecting, Stopped(current)}
      BY <1>3, <2>2 DEF Rebuild, TypeOK
    <3>2. IsSilent(watcher[current], Stopped(current))
      BY <2>2, StoppedSilent DEF TypeOK
    <3>3. IsSilent(watcher[current], Connecting)
      BY NewWatcher DEF IsSilent
    <3> QED
      BY <3>1, <3>2, <3>3
  <2> QED
    BY <1>1, <1>3, <2>1, <2>2, SilentTold DEF fileStore, chain, effects
<1>4. CASE UNCHANGED <<fileStore, watcher, current, overtaken>>
  <2>1. IsTold' => IsTold
    BY <1>1, <1>4 DEF IsTold, chain
  <2>2. current # None => IsSilent(watcher[current], watcher'[current])
    BY <1>4 DEF IsSilent
  <2> QED
    BY <1>1, <1>4, <2>1, <2>2, SilentTold DEF fileStore, chain, effects
<1> QED
  BY <1>2, <1>3, <1>4 DEF Stalled

LEMMA BootstrapTold ==
  ASSUME TypeOK, Told, Bootstrap
  PROVE  Told'
<1>1. /\ UNCHANGED <<storeType, file, chain, shown, processed, history>> /\ current' = None
      /\ kv' = IF storeType = "inMemory" \/ file = None THEN EmptyMap ELSE file
  BY DEF Bootstrap, Load, Or, effects, Told
<1>2. IsTold' <=> IsTold
  BY <1>1 DEF IsTold, chain, history
<1>3. \A m, n : Due(m, n)' <=> Due(m, n)
  BY <1>1 DEF Due, chain
<1> SUFFICES ASSUME IsTold PROVE Stored' /\ FirstAlert'
  BY <1>1, <1>2 DEF Told, IsTold
<1>4. Stored /\ FirstAlert /\ (storeType = "inMemory" => file = None)
  BY DEF Told, IsTold
<1>5. Stored'
  <2>1. CASE file = None
    <3>1. kv'.last = None /\ file' = None
      BY <1>1, <2>1 DEF EmptyMap
    <3> QED
      BY <3>1 DEF Stored
  <2>2. CASE file # None
    <3>1. kv' = file /\ file' = file /\ storeType # "inMemory"
      BY <1>1, <1>4, <2>2
    <3>2. file.last # None => file.last \in Int
      BY <2>2, ServiceAssumption DEF TypeOK, Entries, Block
    <3> QED
      BY <1>3, <1>4, <2>2, <3>1, <3>2 DEF Stored
  <2> QED
    BY <2>1, <2>2
<1>6. FirstAlert'
  <2>1. kv'.ongoing # None => file # None /\ file.ongoing # None
    BY <1>1 DEF EmptyMap
  <2> QED
    BY <1>1, <1>4, <2>1 DEF FirstAlert
<1> QED
  BY <1>5, <1>6

\* The new watcher in charge has done nothing yet.
LEMMA ConnectedTold ==
  ASSUME TypeOK, TypeOK', Told, NEW w \in Watcher, Connected(w), cachedSnapshot' # None,
         watcher[w].done = None
  PROVE  Told'
<1>1. /\ UNCHANGED <<fileStore, chain, effects, history>> /\ current' = w /\ LoadSnapshot
      /\ Goes(w, Configured([watcher[w] EXCEPT !.pc = "starting", !.isRunning = TRUE]))
  BY DEF Connected
<1>2. watcher'[w].pc = "starting" /\ watcher'[w].done = None
  <2>1. PICK v \in WatcherState : v = watcher[w]
    BY DEF TypeOK
  <2>2. PICK s \in WatcherState : s = [v EXCEPT !.pc = "starting", !.isRunning = TRUE]
    BY DEF WatcherState
  <2>3. s.pc = "starting" /\ s.done = v.done
    BY <2>2 DEF WatcherState
  <2>4. cachedSnapshot' \in Snapshot /\ UNCHANGED verdict
    BY <1>1, LoadType
  <2>5. Configured(s).pc = "starting" /\ Configured(s).done = v.done
    BY <2>3, <2>4, ConfiguredType
  <2>6. watcher'[w] = Configured(s)
    BY <1>1, <2>1, <2>2 DEF Goes, TypeOK
  <2> QED
    BY <2>1, <2>5, <2>6
<1>3. /\ UNCHANGED <<shown, firing, latest, processed, kv, file, storeType, startBlock, forgot, overtaken>>
  BY <1>1 DEF fileStore, chain, effects, history
<1>4. IsTelling(watcher[current])'
  BY <1>1, <1>2 DEF IsTelling
<1>5. (Stored /\ FirstAlert) => (Stored /\ FirstAlert)'
  BY <1>1, <1>2, <1>3 DEF Stored, FirstAlert, Due
<1> QED
  BY <1>3, <1>4, <1>5 DEF Told

\* What works is in charge.
LEMMA WorkingIsCurrent ==
  ASSUME IInv, Told, IsTold, NEW w \in Watcher, Busy(watcher[w])
  PROVE  /\ w = current /\ current # None /\ Stored /\ FirstAlert
         /\ \E v \in WatcherState : v = watcher[w] /\ IsPlaced(v) /\ IsTelling(v)
         /\ latest \in Nat
         /\ kv.last # None => kv.last \in Int
         /\ file # None /\ file.last # None => file.last \in Int
         /\ \A v \in WatcherState : v.next \in Int
<1>1. w = current /\ w # None
  <2>1. w \in Nat
    BY ServiceAssumption DEF Watcher
  <2> QED
    BY <2>1, NoneAssumption DEF IInv, One, IsTold
<1>2. Stored /\ FirstAlert /\ IsTelling(watcher[w]) /\ IsPlaced(watcher[w]) /\ watcher[w] \in WatcherState
  BY <1>1 DEF Told, IsTold, IInv, TypeOK, Placed
<1>3. /\ latest \in Nat
      /\ kv.last # None => kv.last \in Int
      /\ file # None /\ file.last # None => file.last \in Int
      /\ \A v \in WatcherState : v.next \in Int
  BY ServiceAssumption DEF IInv, TypeOK, Entries, Block, WatcherState
<1> QED
  BY <1>1, <1>2, <1>3

\* A watcher resumes where the store is; when that is nowhere, nothing is told.
LEMMA StartedTold ==
  ASSUME IInv, TypeOK', Told, NEW w \in Watcher, Started(w)
  PROVE  Told'
<1>1. /\ UNCHANGED <<shown, firing, latest, processed, kv, file, storeType, startBlock, current, overtaken>>
      /\ watcher[w].pc = "starting" /\ watcher[w].isRunning
      /\ forgot' = (forgot \/ (kv.last = None /\ (processed # {} \/ shown)))
  BY DEF Started, fileStore, chain, effects
<1> SUFFICES ASSUME IsTold'
             PROVE  Stored' /\ FirstAlert' /\ (current # None => IsTelling(watcher[current]))'
  BY <1>1 DEF Told, IsTold
<1>2. IsTold /\ (kv.last = None => processed = {} /\ ~shown)
  BY <1>1 DEF IsTold
<1>3. Busy(watcher[w])
  BY <1>1 DEF Busy
<1>4. w = current /\ Stored /\ FirstAlert
  BY <1>2, <1>3, WorkingIsCurrent
<1>5. PICK v \in WatcherState : v = watcher[w] /\ IsTelling(v) /\ v.pc = "starting"
  BY <1>1, <1>2, <1>3, WorkingIsCurrent
<1>6. PICK c : c = [v EXCEPT !.pc = "loop", !.next = FirstBlock(w)]
  OBVIOUS
<1>7. c.pc = "loop" /\ c.next = FirstBlock(w) /\ c.done = None
  BY <1>5, <1>6 DEF WatcherState, IsTelling
<1>8. watcher'[w] = c
  BY <1>5, <1>6 DEF Started, Goes, IInv, TypeOK
<1>9. ~shown /\ processed = {} => kv.ongoing = None /\ (file # None => file.ongoing = None)
  BY <1>4 DEF FirstAlert
<1>10. \A m, n : Due(m, n)' <=> Due(m, n)
  BY <1>1 DEF Due
<1>11. Stored'
  BY <1>1, <1>4, <1>10 DEF Stored
<1>12. processed = {} => kv.last = None
  BY <1>2 DEF IInv, Whole, IsTold
<1>13. FirstAlert'
  BY <1>1, <1>2, <1>9, <1>12 DEF FirstAlert
<1>14. IsTelling(c)'
  <2>1. kv.last # None => FirstBlock(w) = kv.last
    BY <1>2 DEF FirstBlock, Or, IsTold
  <2>2. kv.last # None => kv.last \in Int
    BY <1>2, <1>3, WorkingIsCurrent
  <2>3. Due(kv, FirstBlock(w))
    <3>1. CASE kv.last = None
      BY <1>2, <1>9, <3>1 DEF Due
    <3>2. CASE kv.last # None
      BY <1>4, <2>1, <3>2 DEF Stored
    <3> QED
      BY <3>1, <3>2
  <2> QED
    BY <1>1, <1>7, <1>10, <2>1, <2>2, <2>3 DEF IsTelling
<1> QED
  BY <1>1, <1>4, <1>8, <1>11, <1>13, <1>14 DEF IsTelling

\* The alert of a block, and its entry of the store after it.
LEMMA ReportStateTold ==
  ASSUME IInv, TypeOK', Told, NEW w \in Watcher, ReportState(w)
  PROVE  Told'
<1> DEFINE isFiring == watcher[w].next \in firing
<1>1. /\ UNCHANGED <<firing, latest, processed, file, storeType, startBlock, current, forgot, overtaken>>
      /\ watcher[w].pc = "block"
      /\ kv'.last = kv.last
      /\ kv'.ongoing # None <=> isFiring
      /\ \/ shown' <=> isFiring
         \/ kv' = kv /\ shown' = shown
  <2>1. \/ isFiring /\ kv.ongoing = None /\ shown' = TRUE /\ Set("ongoing", "open")
        \/ ~isFiring /\ kv.ongoing # None /\ shown' = FALSE /\ Del("ongoing")
        \/ (isFiring <=> kv.ongoing # None) /\ UNCHANGED <<shown, kv>>
    BY DEF ReportState
  <2>2. kv \in Entries /\ None # "open"
    BY ServiceAssumption DEF IInv, TypeOK
  <2>3. /\ kv'.last = kv.last
        /\ kv'.ongoing # None <=> isFiring
        /\ \/ shown' <=> isFiring
           \/ kv' = kv /\ shown' = shown
    <3>1. CASE isFiring /\ shown' = TRUE /\ Set("ongoing", "open")
      BY <2>2, <3>1 DEF Set, Entries
    <3>2. CASE ~isFiring /\ shown' = FALSE /\ Del("ongoing")
      BY <2>2, <3>2 DEF Del, Entries
    <3>3. CASE (isFiring <=> kv.ongoing # None) /\ UNCHANGED <<shown, kv>>
      BY <3>3
    <3> QED
      BY <2>1, <3>1, <3>2, <3>3
  <2> QED
    BY <2>3 DEF ReportState, chain, history
<1> SUFFICES ASSUME IsTold
             PROVE  Stored' /\ FirstAlert' /\ (current # None => IsTelling(watcher[current]))'
  BY <1>1 DEF Told, IsTold
<1>2. Busy(watcher[w])
  BY <1>1 DEF Busy
<1>3. /\ w = current /\ current # None /\ Stored /\ FirstAlert /\ latest \in Nat
      /\ kv.last # None => kv.last \in Int
      /\ file # None /\ file.last # None => file.last \in Int
  BY <1>2, WorkingIsCurrent
<1>4. PICK v \in WatcherState :
        v = watcher[w] /\ IsPlaced(v) /\ IsTelling(v) /\ v.pc = "block" /\ v.next \in Int
  BY <1>1, <1>2, WorkingIsCurrent
<1>5. /\ v.next <= latest
      /\ kv.last # None => kv.last <= v.next
      /\ Due(kv, v.next)
  BY <1>4 DEF IsPlaced, IsTelling
<1>6. PICK c : c = [v EXCEPT !.pc = "persist"]
  OBVIOUS
<1>7. c.pc = "persist" /\ c.next = v.next /\ c.done = v.done
  BY <1>6 DEF WatcherState
<1>8. watcher'[w] = c
  BY <1>4, <1>6 DEF ReportState, Goes, IInv, TypeOK
<1>9. shown \in BOOLEAN /\ shown' \in BOOLEAN
  BY DEF IInv, TypeOK
<1>10. ASSUME NEW n \in Int, n <= v.next, Due(file, n)
       PROVE  Due(file, n)'
  <2>1. CASE shown' <=> isFiring
    <3>1. v.next \in n .. latest /\ (v.next \in firing <=> shown')
      BY <1>3, <1>4, <1>5, <1>10, <2>1
    <3> QED
      BY <1>1, <3>1 DEF Due
  <2>2. CASE shown' = shown
    BY <1>1, <1>10, <2>2 DEF Due
  <2> QED
    BY <1>1, <2>1, <2>2
<1>11. ASSUME kv.last # None
       PROVE  Due(kv, kv.last)'
  <2>1. CASE shown' <=> isFiring
    BY <1>1, <2>1 DEF Due
  <2>2. CASE kv' = kv /\ shown' = shown
    BY <1>1, <1>3, <1>11, <2>2 DEF Due, Stored
  <2> QED
    BY <1>1, <2>1, <2>2
<1>12. Stored'
  <2>1. ASSUME file # None, file.last # None
        PROVE  Due(file, file.last)' /\ kv'.last # None /\ file.last <= kv'.last
    <3>1. Due(file, file.last) /\ kv.last # None /\ file.last <= kv.last /\ file.last \in Int
      BY <1>3, <2>1 DEF Stored
    <3>2. file.last <= v.next
      BY <1>3, <1>4, <1>5, <3>1
    <3> QED
      BY <1>1, <1>10, <3>1, <3>2
  <2> QED
    BY <1>1, <1>11, <2>1 DEF Stored
<1>13. FirstAlert'
  <2> SUFFICES ASSUME processed = {}, kv'.ongoing # None \/ (file # None /\ file.ongoing # None)
               PROVE  shown' /\ watcher'[w].pc \notin {"loop", "block"}
    BY <1>1, <1>3 DEF FirstAlert
  <2>1. kv.ongoing = None /\ (file # None => file.ongoing = None)
    BY <1>1, <1>3 DEF FirstAlert
  <2>2. isFiring /\ kv' # kv
    BY <1>1, <2>1
  <2> QED
    BY <1>1, <1>7, <1>8, <2>2
<1>14. IsTelling(c)'
  <2>1. Due(kv, v.next + 1)'
    <3>1. CASE shown' <=> isFiring
      BY <1>1, <3>1 DEF Due
    <3>2. CASE kv' = kv /\ shown' = shown
      <4>1. CASE kv.ongoing # None <=> shown
        BY <3>2, <4>1 DEF Due
      <4>2. CASE ~(kv.ongoing # None <=> shown)
        <5>1. PICK b \in v.next .. latest : b \in firing <=> shown
          BY <1>5, <4>2 DEF Due
        <5>2. b # v.next
          BY <1>1, <1>4, <3>2, <4>2, <5>1
        <5>3. b \in v.next + 1 .. latest
          BY <1>3, <1>4, <5>1, <5>2
        <5> QED
          BY <1>1, <3>2, <5>1, <5>3 DEF Due
      <4> QED
        BY <4>1, <4>2
    <3> QED
      BY <1>1, <3>1, <3>2
  <2>2. kv'.ongoing # None <=> c.next \in firing'
    BY <1>1, <1>4, <1>7
  <2>3. c.done # None => c.next = c.done + 1 /\ kv'.last = c.done
    BY <1>1, <1>4, <1>7 DEF IsTelling
  <2> QED
    BY <1>1, <1>5, <1>7, <2>1, <2>2, <2>3 DEF IsTelling
<1> QED
  BY <1>1, <1>3, <1>8, <1>12, <1>13, <1>14 DEF IsTelling

\* A report that fails may have told what holds, before the entry of the store.
LEMMA BlockFailsTold ==
  ASSUME IInv, TypeOK', Told, NEW w \in Watcher, BlockFails(w)
  PROVE  Told'
<1> DEFINE isFiring == watcher[w].next \in firing
<1>1. /\ UNCHANGED <<firing, latest, processed, kv, file, storeType, startBlock, current, forgot, overtaken>>
      /\ watcher[w].pc = "block"
      /\ shown' = shown \/ (shown' <=> isFiring)
  BY DEF BlockFails, fileStore, chain, history
<1> SUFFICES ASSUME IsTold
             PROVE  Stored' /\ FirstAlert' /\ (current # None => IsTelling(watcher[current]))'
  BY <1>1 DEF Told, IsTold
<1>2. Busy(watcher[w])
  BY <1>1 DEF Busy
<1>3. /\ w = current /\ current # None /\ Stored /\ FirstAlert /\ latest \in Nat
      /\ kv.last # None => kv.last \in Int
      /\ file # None /\ file.last # None => file.last \in Int
  BY <1>2, WorkingIsCurrent
<1>4. PICK v \in WatcherState :
        v = watcher[w] /\ IsPlaced(v) /\ IsTelling(v) /\ v.pc = "block" /\ v.next \in Int
  BY <1>1, <1>2, WorkingIsCurrent
<1>5. /\ v.next <= latest
      /\ kv.last # None => kv.last <= v.next
      /\ Due(kv, v.next)
      /\ v.done # None => (kv.ongoing # None <=> v.done \in firing)
  BY <1>4 DEF IsPlaced, IsTelling
<1>6. ASSUME NEW n \in Int, n <= v.next
      PROVE  (Due(kv, n) => Due(kv, n)') /\ (Due(file, n) => Due(file, n)')
  <2>1. CASE shown' <=> isFiring
    <3>1. v.next \in n .. latest /\ (v.next \in firing <=> shown')
      BY <1>3, <1>4, <1>5, <1>6, <2>1
    <3> QED
      BY <1>1, <3>1 DEF Due
  <2>2. CASE shown' = shown
    BY <1>1, <1>6, <2>2 DEF Due
  <2> QED
    BY <1>1, <2>1, <2>2
<1>7. Stored'
  <2>1. kv.last # None => Due(kv, kv.last)'
    BY <1>1, <1>3, <1>5, <1>6 DEF Stored
  <2>2. ASSUME file # None, file.last # None
        PROVE  Due(file, file.last)' /\ kv.last # None /\ file.last <= kv.last
    <3>1. Due(file, file.last) /\ kv.last # None /\ file.last <= kv.last /\ file.last \in Int
      BY <1>3, <2>2 DEF Stored
    <3>2. file.last <= v.next
      BY <1>3, <1>4, <1>5, <3>1
    <3> QED
      BY <1>1, <1>6, <3>1, <3>2
  <2> QED
    BY <1>1, <2>1, <2>2 DEF Stored
<1>8. FirstAlert'
  BY <1>1, <1>3 DEF FirstAlert
<1>9. PICK c : c = [v EXCEPT !.pc = "loop", !.isHung = FALSE]
  OBVIOUS
<1>10. c.pc = "loop" /\ c.next = v.next /\ c.done = v.done
  BY <1>9 DEF WatcherState
<1>11. watcher'[w] = c
  BY <1>4, <1>9 DEF BlockFails, Goes, IInv, TypeOK
<1>12. Due(kv, v.next)'
  BY <1>4, <1>5, <1>6
<1>13. IsTelling(c)'
  BY <1>1, <1>4, <1>5, <1>10, <1>12 DEF IsTelling
<1> QED
  BY <1>1, <1>3, <1>7, <1>8, <1>11, <1>13 DEF IsTelling

LEMMA SetLastBlockTold ==
  ASSUME IInv, TypeOK', Told, NEW w \in Watcher, SetLastBlock(w)
  PROVE  Told'
<1>1. /\ UNCHANGED <<firing, latest, shown, file, storeType, startBlock, current, forgot, overtaken>>
      /\ watcher[w].pc = "persist"
      /\ kv'.last = watcher[w].next /\ kv'.ongoing = kv.ongoing
      /\ processed' # {}
  BY DEF SetLastBlock, Set, chain, history, IInv, TypeOK, Entries
<1> SUFFICES ASSUME IsTold
             PROVE  Stored' /\ FirstAlert' /\ (current # None => IsTelling(watcher[current]))'
  BY <1>1 DEF Told, IsTold
<1>2. Busy(watcher[w])
  BY <1>1 DEF Busy
<1>3. /\ w = current /\ current # None /\ Stored /\ latest \in Nat
      /\ kv.last # None => kv.last \in Int
      /\ file # None /\ file.last # None => file.last \in Int
  BY <1>2, WorkingIsCurrent
<1>4. PICK v \in WatcherState : v = watcher[w] /\ IsTelling(v) /\ v.pc = "persist" /\ v.next \in Int
  BY <1>1, <1>2, WorkingIsCurrent
<1>5. /\ kv.last # None => kv.last <= v.next
      /\ Due(kv, v.next + 1) /\ (kv.ongoing # None <=> v.next \in firing)
  BY <1>4 DEF IsTelling
<1>6. PICK c : c = [v EXCEPT !.pc = "loop", !.done = v.next, !.next = v.next + 1]
  OBVIOUS
<1>7. c.pc = "loop" /\ c.next = v.next + 1 /\ c.done = v.next
  BY <1>6 DEF WatcherState
<1>8. watcher'[w] = c
  BY <1>4, <1>6 DEF SetLastBlock, Goes, IInv, TypeOK
<1>9. Due(kv, v.next + 1)' /\ Due(kv, v.next)'
  BY <1>1, <1>3, <1>4, <1>5 DEF Due
<1>10. Stored'
  <2>1. ASSUME file # None, file.last # None
        PROVE  Due(file, file.last)' /\ file.last <= v.next
    <3>1. Due(file, file.last) /\ kv.last # None /\ file.last <= kv.last
      BY <2>1, <1>3 DEF Stored
    <3> QED
      BY <1>1, <1>3, <1>4, <1>5, <2>1, <3>1 DEF Due
  <2>2. kv'.last # None
    BY <1>1, <1>3, <1>4, NoneAssumption, ServiceAssumption DEF WatcherState
  <2> QED
    BY <1>1, <1>4, <1>9, <2>1, <2>2 DEF Stored
<1>11. IsTelling(c)'
  BY <1>1, <1>4, <1>5, <1>7, <1>9 DEF IsTelling
<1> QED
  BY <1>1, <1>3, <1>8, <1>10, <1>11 DEF IsTelling, FirstAlert

-----------------------------------------------------------------------------
LEMMA InitTold == Init => Told
  BY DEF Init, Told, Stored, FirstAlert, EmptyMap

LEMMA NextTold ==
  ASSUME IInv, TypeOK', Told, [Next]_vars
  PROVE  Told'
<1> USE DEF IInv
<1>1. CASE Bootstrap
  BY <1>1, BootstrapTold
<1>2. CASE Crash \/ Exit \/ Terminate \/ Stalled
  BY <1>2, CrashTold, TerminateTold, StalledTold
<1>3. CASE PersistTimer \/ SaveTimer \/ Progress \/ NewBlock \/ EditConfig \/ UNCHANGED vars
  BY <1>3, TimerTold
<1>4. ASSUME NEW w \in Watcher, Connected(w)
      PROVE  Told'
  <2>1. CASE cachedSnapshot' = None
    BY <1>4, <2>1, StartFailsTold DEF Connected
  <2>2. CASE cachedSnapshot' # None
    <3>1. watcher[w].done = None
      BY <1>4 DEF Connected, Informed, IsInformed
    <3> QED
      BY <1>4, <2>2, <3>1, ConnectedTold
  <2> QED
    BY <2>1, <2>2
<1>5. ASSUME NEW w \in Watcher, Started(w)
      PROVE  Told'
  BY <1>5, StartedTold
<1>6. ASSUME NEW w \in Watcher, BeginBlock(w)
      PROVE  Told'
  BY <1>6, BlocksHaveASnapshot, BeginBlockTold
<1>7. ASSUME NEW w \in Watcher, ReportState(w) \/ BlockFails(w) \/ SetLastBlock(w)
      PROVE  Told'
  BY <1>7, ReportStateTold, BlockFailsTold, SetLastBlockTold
<1>8. ASSUME NEW w \in Watcher, LeaveLoop(w) \/ Hang(w) \/ Reconnect(w)
      PROVE  Told'
  BY <1>8, WatcherTold
<1>9. ASSUME NEW w \in Watcher, Refused(w)
      PROVE  Told'
  <2>1. StartFails(w) /\ UNCHANGED <<chain, effects, history>>
    BY <1>9 DEF Refused
  <2> QED
    BY <2>1, StartFailsTold
<1> QED
  BY <1>1, <1>2, <1>3, <1>4, <1>5, <1>6, <1>7, <1>8, <1>9 DEF Next, WatcherStep

LEMMA Telling == Spec => []Told
<1>1. IInv /\ IInv' /\ Told /\ [Next]_vars => Told'
  BY NextTold DEF IInv
<1> QED
  BY <1>1, InitTold, Invariant, PTL DEF Spec

-----------------------------------------------------------------------------
(***************************************************************************)
(* The properties.                                                         *)
(***************************************************************************)
\* Type correctness of the process, its watchers, its stores and its guard, for
\* every number of blocks and edits: the block a watcher is at is never beyond the
\* one after the last, and the guard never counts past the checks it exits after.
THEOREM TypeCorrect == Spec => []TypeOK
<1>1. IInv => TypeOK
  BY DEF IInv
<1> QED
  BY <1>1, Invariant, PTL

\* One watcher at a time works on the chain, the one in charge, as long as no
\* rebuild has overtaken a start (WatcherService.rebuild).
THEOREM OneWatcherWorks == Spec => []OneWatcherUnlessOvertaken
<1>1. IInv => OneWatcherUnlessOvertaken
  BY DEF IInv, One, OneWatcherUnlessOvertaken, Live, Busy
<1> QED
  BY <1>1, Invariant, PTL

\* No block between two processed ones is left out, whatever fails, hangs,
\* crashes or is rebuilt (SubstrateWatcher.start and its loop, store.last).
THEOREM NoBlockIsSkipped == Spec => []NothingSkipped
<1>1. IInv => NothingSkipped
  BY DEF IInv, Whole, NothingSkipped
<1> QED
  BY <1>1, Invariant, PTL

\* A block is processed with the configuration as it is when it begins
\* (initializeMonitors in the loop, loadSnapshot of the loader).
THEOREM ConfigIsSeen == Spec => BlocksSeeTheConfig
<1>1. IInv /\ [Next]_vars =>
        [\A w \in Watcher :
           /\ watcher[w].pc = "loop" /\ watcher'[w].pc = "block"
           /\ verdict[edit].isGood /\ verdict[edit'].isGood
           => watcher'[w].groups \in {edit, edit'}]_vars
  BY NextKeeps
<1> QED
  BY <1>1, Invariant, PTL DEF Spec, BlocksSeeTheConfig

\* A watcher that is through with the last block has told what holds in it, over
\* all that was sent twice, stored too late or lost with the process
\* (handle: the report, then the entry of the store; SubstrateWatcher.processBlock).
THEOREM AlertsAreRight == Spec => []ToldRight
<1>1. IInv /\ Told => ToldRight
  <2> SUFFICES ASSUME IInv, Told, startBlock = None, ~forgot, ~overtaken, current # None,
                      watcher[current].pc = "loop", watcher[current].done = latest
               PROVE  shown <=> latest \in firing
    BY DEF ToldRight
  <2>1. PICK v \in WatcherState : v = watcher[current] /\ IsTelling(v)
    BY DEF IInv, TypeOK, Told
  <2>2. latest \in Nat /\ latest # None /\ shown \in BOOLEAN
    BY NoneAssumption DEF IInv, TypeOK, Block
  <2>3. v.next = latest + 1 /\ Due(kv, v.next) /\ (kv.ongoing # None <=> latest \in firing)
    BY <2>1, <2>2 DEF IsTelling
  <2>4. v.next .. latest = {}
    BY <2>2, <2>3
  <2> QED
    BY <2>2, <2>3, <2>4 DEF Due
<1> QED
  BY <1>1, Telling, Invariant, PTL
=============================================================================
