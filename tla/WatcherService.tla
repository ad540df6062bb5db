--------------------------- MODULE WatcherService ---------------------------
(***************************************************************************)
(* The chain service on its own: the process (service/main.ts), the        *)
(* watcher service with its stall guard and rebuild (service/watcher), the *)
(* start of a watcher and its loop (lib/watcher.ts), with the file store   *)
(* or the one in memory, the loader of the configuration, and a reporter   *)
(* that writes alerts out or posts them (service/reporter).                *)
(*                                                                         *)
(* ChainWatcher has the handlers of a block that fail or hang one by one;  *)
(* here a block has one condition, and the subject is how the process gets *)
(* on: connections that never come, rebuilds that overtake a start, exits, *)
(* restarts, a configuration that is edited, a file written late or torn.  *)
(***************************************************************************)
EXTENDS ConfigLoader, FileStore

CONSTANTS
  Slots,          \* bound: watchers of a process at a time
  MaxBlock,       \* bound: blocks
  Firings,        \* the blocks in which the condition may hold
  MaxFailures,    \* bound: failures, hangs, crashes, signals, slow checks
  StartBlocks,    \* startBlock of the configuration, or None
  RebuildAfter,   \* REBUILD_AFTER_MS, in checks of the guard
  ExitAfter       \* EXIT_AFTER_MS

ASSUME ServiceAssumption ==
  /\ Slots \in Nat \ {0} /\ MaxBlock \in Nat \ {0} /\ MaxFailures \in Nat
  /\ StartBlocks \subseteq 1 .. MaxBlock \union {None}
  /\ RebuildAfter \in Nat \ {0} /\ ExitAfter \in Nat /\ RebuildAfter < ExitAfter
  /\ None # "open"

VARIABLES
  firing,      \* the blocks in which the condition holds
  startBlock,  \* one of StartBlocks
  latest,      \* the last finalized block
  up,          \* the process: "running", "ending" after a signal, "down"
  watcher,     \* the watchers of the process, slot 1 for the first
  current,     \* this.watcher and this.client
  guard,       \* the stall guard, and whether the persistence timer is set
  shown,       \* what the alerts tell: the condition holds
  processed,   \* the blocks that have been processed, ever
  failures,    \* failures so far
  forgot,      \* history: a watcher has started without a block to resume from,
               \* though something had been done
  overtaken    \* history: a rebuild has begun before a connection came or a
               \* block that did not hang had ended

chain == <<firing, startBlock, latest>>
process == <<up, watcher, current, guard>>
effects == <<shown, processed>>
history == <<forgot, overtaken>>
vars == <<loader, fileStore, chain, process, effects, failures, history>>

Watcher == 1 .. Slots
Off == [pc |-> "off", isRunning |-> FALSE, isHung |-> FALSE, next |-> 0, done |-> None,
        fingerprint |-> None, groups |-> None]
Connecting == [Off EXCEPT !.pc = "connecting"]
NoProgress == [last |-> None, stalled |-> 0, rebuilt |-> FALSE, isPersisting |-> FALSE]

Init ==
  /\ verdict \in {Verdicts[d] : d \in Directories} /\ edit = 1 /\ cachedSnapshot = None
  /\ storeType \in {"file", "inMemory"} /\ kv = EmptyMap /\ isDirty = FALSE /\ file = None
  /\ firing \in Firings /\ startBlock \in StartBlocks /\ latest = 1
  /\ up = "down" /\ watcher = [w \in Watcher |-> Off] /\ current = None /\ guard = NoProgress
  /\ shown = FALSE /\ processed = {}
  /\ failures = 0 /\ forgot = FALSE /\ overtaken = FALSE

-----------------------------------------------------------------------------
(***************************************************************************)
(* The process.                                                            *)
(***************************************************************************)
Fail == failures < MaxFailures /\ failures' = failures + 1

Halt == up' = "down" /\ watcher' = [w \in Watcher |-> Off]

\* bootstrap: the orchestrator starts the process, which reads its store, sets
\* the guard and builds the first watcher.
Bootstrap ==
  /\ up = "down" /\ up' = "running"
  /\ kv' = Load /\ isDirty' = FALSE
  /\ cachedSnapshot' = None
  /\ watcher' = [watcher EXCEPT ![1] = Connecting] /\ current' = None /\ guard' = NoProgress
  /\ UNCHANGED <<verdict, edit, storeType, file, chain, effects, failures, history>>

\* What the watcher in charge has done, as stop writes it.
Flushed ==
  IF current # None /\ watcher[current].done # None
  THEN [kv EXCEPT !.last = watcher[current].done] ELSE kv

\* fatal: shutdown flushes and saves, and the process exits.
Fatal ==
  /\ Halt
  /\ kv' = Flushed /\ file' = Written(Flushed) /\ isDirty' = FALSE
  /\ UNCHANGED <<storeType, current, guard>>

\* The start of w fails.  In bootstrap nothing is flushed; in a rebuild nobody
\* catches it, which is fatal, unless a shutdown is on its way already.
StartFails(w) ==
  IF w = 1 \/ up = "ending" THEN Halt /\ UNCHANGED <<fileStore, current, guard>> ELSE Fatal

\* Out of memory, SIGKILL; in the middle of save the file is torn.
Crash ==
  /\ up # "down"
  /\ Fail
  /\ Halt
  /\ file' \in {file} \union (IF storeType = "file" /\ isDirty THEN {None} ELSE {})
  /\ UNCHANGED <<loader, storeType, kv, isDirty, chain, current, guard, effects, history>>

\* Mutant: the loop is not told.
StillRunning(w) == [watcher[w] EXCEPT !.isHung = FALSE]

\* The watcher is told to stop and its client destroyed: a block that hangs is
\* rejected.
Stopped(w) ==
  [watcher[w] EXCEPT !.isRunning = FALSE, !.isHung = FALSE,
                     !.pc = IF watcher[w].isHung /\ @ = "block" THEN "loop" ELSE @]

\* SIGTERM: the timers are cleared and the process is left to end by itself.
Terminate ==
  /\ up = "running"
  /\ Fail
  /\ up' = "ending"
  /\ kv' = Flushed /\ file' = Written(Flushed) /\ isDirty' = FALSE
  /\ watcher' = IF current = None THEN watcher ELSE [watcher EXCEPT ![current] = Stopped(current)]
  /\ UNCHANGED <<loader, storeType, chain, current, guard, effects, history>>

\* It is over when nothing keeps it, or when the orchestrator has waited enough.
Exit ==
  /\ up = "ending"
  /\ Halt
  /\ UNCHANGED <<loader, fileStore, chain, current, guard, effects, failures, history>>

-----------------------------------------------------------------------------
(***************************************************************************)
(* A watcher: buildAndStart, start, and the loop.                          *)
(***************************************************************************)
Goes(w, changed) == watcher' = [watcher EXCEPT ![w] = changed]

\* initializeMonitors, on the snapshot just loaded.
Configured(v) ==
  IF v.fingerprint = cachedSnapshot'.fingerprint THEN v
  ELSE [v EXCEPT !.fingerprint = cachedSnapshot'.fingerprint, !.groups = cachedSnapshot'.groups]

\* connectChain has answered; the rest does not wait until getFinalizedBlock.
Connected(w) ==
  /\ watcher[w].pc = "connecting" /\ ~watcher[w].isHung
  /\ LoadSnapshot
  /\ IF cachedSnapshot' = None THEN StartFails(w)
     ELSE /\ Goes(w, Configured([watcher[w] EXCEPT !.pc = "starting", !.isRunning = TRUE]))
          /\ current' = w
          /\ UNCHANGED <<fileStore, up, guard>>
  /\ UNCHANGED <<chain, effects, failures, history>>

\* Mutant: every watcher begins at the latest block.
LatestFirst(w) == latest

\* Priority: startBlock, in the first watcher of a process; the last block of
\* the store; the latest block of the chain.
FirstBlock(w) ==
  IF w = 1 /\ startBlock # None THEN startBlock ELSE Or(kv.last, latest)

Started(w) ==
  /\ watcher[w].pc = "starting" /\ watcher[w].isRunning /\ ~watcher[w].isHung
  /\ Goes(w, [watcher[w] EXCEPT !.pc = "loop", !.next = FirstBlock(w)])
  /\ guard' = [guard EXCEPT !.isPersisting = TRUE]
  /\ forgot' = (forgot \/ (kv.last = None /\ (processed # {} \/ shown)))
  /\ UNCHANGED <<loader, fileStore, chain, up, current, effects, failures, overtaken>>

\* A connection or a request that is refused, or destroyed while it waits.
Refused(w) ==
  /\ \/ watcher[w].pc \in {"connecting", "starting"} /\ Fail
     \/ watcher[w].pc = "starting" /\ ~watcher[w].isRunning /\ UNCHANGED failures
  /\ StartFails(w)
  /\ UNCHANGED <<loader, chain, effects, history>>

LeaveLoop(w) ==
  /\ watcher[w].pc = "loop" /\ ~watcher[w].isRunning
  /\ Goes(w, Off)
  /\ UNCHANGED <<loader, fileStore, chain, up, current, guard, effects, failures, history>>

\* Without monitors it waits for some.
BeginBlock(w) ==
  /\ watcher[w].pc = "loop" /\ watcher[w].isRunning /\ watcher[w].next <= latest
  /\ LoadSnapshot
  /\ LET v == Configured(watcher[w])
     IN Goes(w, IF verdict[v.groups].isWatching THEN [v EXCEPT !.pc = "block"] ELSE v)
  /\ UNCHANGED <<fileStore, chain, up, current, guard, effects, failures, history>>

\* The monitors' part of processBlock: handle of the condition, the report
\* before the entry of the store.
ReportState(w) ==
  LET isFiring == watcher[w].next \in firing
  IN /\ watcher[w].pc = "block" /\ ~watcher[w].isHung
     /\ Goes(w, [watcher[w] EXCEPT !.pc = "persist"])
     /\ CASE isFiring /\ kv.ongoing = None -> shown' = TRUE /\ Set("ongoing", "open")
          [] ~isFiring /\ kv.ongoing # None -> shown' = FALSE /\ Del("ongoing")
          [] OTHER -> UNCHANGED <<shown, kv, isDirty>>
     /\ UNCHANGED <<loader, storeType, file, chain, up, current, guard, processed, failures, history>>

\* The block is tried again.  A report that failed may have been delivered.
BlockFails(w) ==
  LET isFiring == watcher[w].next \in firing
  IN /\ watcher[w].pc = "block"
     /\ IF watcher[w].isRunning THEN Fail ELSE UNCHANGED failures
     /\ Goes(w, [watcher[w] EXCEPT !.pc = "loop", !.isHung = FALSE])
     /\ shown' \in {shown} \union (IF isFiring = (kv.ongoing = None) THEN {isFiring} ELSE {})
     /\ UNCHANGED <<loader, fileStore, chain, up, current, guard, processed, history>>

SetLastBlock(w) ==
  /\ watcher[w].pc = "persist"
  /\ Set("last", watcher[w].next)
  /\ processed' = processed \union {watcher[w].next}
  /\ Goes(w, [watcher[w] EXCEPT !.pc = "loop", !.done = watcher[w].next, !.next = @ + 1])
  /\ UNCHANGED <<loader, storeType, file, chain, up, current, guard, shown, failures, history>>

\* A connection that never opens, a request hung on an invalidated follow.
Hang(w) ==
  /\ watcher[w].pc \in {"connecting", "starting", "block"} /\ ~watcher[w].isHung
  /\ watcher[w].isRunning \/ watcher[w].pc = "connecting"
  /\ Fail
  /\ Goes(w, [watcher[w] EXCEPT !.isHung = TRUE])
  /\ UNCHANGED <<loader, fileStore, chain, up, current, guard, effects, history>>

\* The connection opens in the end.
Reconnect(w) ==
  /\ watcher[w].pc = "connecting" /\ watcher[w].isHung
  /\ Goes(w, [watcher[w] EXCEPT !.isHung = FALSE])
  /\ UNCHANGED <<loader, fileStore, chain, up, current, guard, effects, failures, history>>

-----------------------------------------------------------------------------
(***************************************************************************)
(* Timers.                                                                 *)
(***************************************************************************)
\* Mutant: the block that comes next.
CurrentNext == IF current = None THEN None ELSE watcher[current].next

CurrentDone == IF current = None THEN None ELSE watcher[current].done

PersistTimer ==
  /\ up = "running" /\ guard.isPersisting /\ CurrentDone \notin {None, kv.last}
  /\ Set("last", CurrentDone)
  /\ UNCHANGED <<loader, storeType, file, chain, process, effects, failures, history>>

SaveTimer == up = "running" /\ Save /\ UNCHANGED <<loader, chain, process, effects, failures, history>>

\* Mutant: a block done by a watcher is progress every time it is looked at.
AnyProgress == CurrentDone # None

\* A watcher that has been rebuilt has done nothing yet, and when it has done
\* again the block the one before it did last, that is no progress either.
IsProgress == CurrentDone \notin {None, guard.last}

Progress ==
  /\ up = "running" /\ IsProgress
  /\ guard' = [guard EXCEPT !.last = CurrentDone, !.stalled = 0, !.rebuilt = FALSE]
  /\ UNCHANGED <<loader, fileStore, chain, up, watcher, current, effects, failures, history>>

\* 30 seconds are long: a check finds nothing that could go on, and it counts
\* as a failure if it does.
IsMoving(w) ==
  LET v == watcher[w]
  IN /\ v.pc # "off" /\ ~v.isHung
     /\ v.pc = "loop" /\ v.isRunning =>
          v.next <= latest /\ (v.fingerprint = edit => verdict[v.groups].isWatching)

IsTimely == IF \E w \in Watcher : IsMoving(w) THEN Fail ELSE UNCHANGED failures

\* rebuild: the watcher is stopped, its client destroyed, another one built.
Rebuild(w) ==
  /\ watcher[w].pc = "off"
  /\ watcher' = [v \in Watcher |-> IF v = w THEN Connecting
                                ELSE IF v = current THEN Stopped(v) ELSE watcher[v]]
  /\ overtaken' = (overtaken \/ \E v \in Watcher :
                      \/ watcher[v].pc = "connecting"
                      \/ watcher[v].pc \in {"block", "persist"} /\ ~watcher[v].isHung)

Stalled ==
  LET stalled == guard.stalled + 1
      free == {w \in Watcher \ {1} : watcher[w].pc = "off"}
  IN /\ up = "running" /\ ~IsProgress
     /\ IsTimely
     /\ IF stalled > ExitAfter THEN Fatal /\ UNCHANGED overtaken
        ELSE IF stalled > RebuildAfter /\ ~guard.rebuilt /\ free # {}
        THEN /\ \E w \in free : (\A v \in free : w <= v) /\ Rebuild(w)
             /\ guard' = [guard EXCEPT !.stalled = stalled, !.rebuilt = TRUE]
             /\ UNCHANGED <<fileStore, up, current>>
        ELSE /\ guard' = [guard EXCEPT !.stalled = stalled]
             /\ UNCHANGED <<fileStore, up, watcher, current, overtaken>>
     /\ UNCHANGED <<loader, chain, effects, forgot>>

\* The chain goes on; somebody edits the configuration.
NewBlock ==
  /\ latest < MaxBlock /\ latest' = latest + 1
  /\ UNCHANGED <<loader, fileStore, firing, startBlock, process, effects, failures, history>>

EditConfig == Edit /\ UNCHANGED <<fileStore, chain, process, effects, failures, history>>

-----------------------------------------------------------------------------
WatcherStep(w) ==
  \/ Connected(w) \/ Started(w) \/ LeaveLoop(w) \/ BeginBlock(w) \/ ReportState(w) \/ SetLastBlock(w)
  \/ (watcher[w].pc = "starting" /\ ~watcher[w].isRunning /\ Refused(w))

Next ==
  \/ Bootstrap \/ Crash \/ Terminate \/ Exit
  \/ \E w \in Watcher : WatcherStep(w) \/ Refused(w) \/ BlockFails(w) \/ Hang(w) \/ Reconnect(w)
  \/ PersistTimer \/ SaveTimer \/ Progress \/ Stalled
  \/ NewBlock \/ EditConfig

\* What does not hang goes on, the guard looks, the orchestrator starts what
\* has ended and kills what does not end, the chain and the editing go on.
Fairness ==
  /\ WF_vars(\E w \in Watcher : WatcherStep(w))
  /\ WF_vars(Bootstrap) /\ WF_vars(Exit) /\ WF_vars(Progress) /\ WF_vars(Stalled)
  /\ WF_vars(NewBlock) /\ WF_vars(EditConfig)

Spec == Init /\ [][Next]_vars /\ Fairness

-----------------------------------------------------------------------------
Block == 1 .. MaxBlock
Entries == [last : Block \union {None}, ongoing : {"open", None}]
Snapshot == [fingerprint : DOMAIN verdict, groups : DOMAIN verdict]
WatcherState ==
  [pc : {"off", "connecting", "starting", "loop", "block", "persist"},
   isRunning : BOOLEAN, isHung : BOOLEAN, next : 0 .. MaxBlock + 1, done : Block \union {None},
   fingerprint : DOMAIN verdict \union {None}, groups : DOMAIN verdict \union {None}]

TypeOK ==
  /\ verdict \in {Verdicts[d] : d \in Directories} /\ edit \in DOMAIN verdict
  /\ cachedSnapshot \in Snapshot \union {None}
  /\ storeType \in {"file", "inMemory"} /\ isDirty \in BOOLEAN
  /\ kv \in Entries /\ file \in Entries \union {None}
  /\ startBlock \in StartBlocks /\ latest \in Block
  /\ up \in {"running", "ending", "down"}
  /\ watcher \in [Watcher -> WatcherState] /\ current \in Watcher \union {None}
  /\ guard \in [last : Block \union {None}, stalled : 0 .. ExitAfter, rebuilt : BOOLEAN,
                isPersisting : BOOLEAN]
  /\ shown \in BOOLEAN /\ processed \subseteq 1 .. latest
  /\ failures \in 0 .. MaxFailures /\ forgot \in BOOLEAN /\ overtaken \in BOOLEAN

Live(w) == watcher[w].pc \in {"starting", "loop", "block", "persist"} /\ watcher[w].isRunning

\* One watcher at a time works on the chain, the one that is in charge.  `overtaken`
\* leaves out what follows a rebuild that is started while the start before it
\* waits for its connection, which nobody stops (both go on when it comes), and,
\* wider than this property needs, one that is started while a block which does
\* not hang is being processed.
OneWatcherUnlessOvertaken == ~overtaken => \A w \in Watcher : Live(w) => w = current

\* No block is left out between blocks that were processed, through crashes,
\* rebuilds and restarts, as long as a process finds what the last one stored, has
\* no startBlock to begin at instead, and no rebuild is `overtaken`.
NothingSkipped ==
  startBlock = None /\ ~forgot /\ ~overtaken =>
    \A a, b \in processed : a .. b \subseteq processed

\* A watcher with nothing left to do has told what holds: the last alert is of
\* the last block, whatever was sent twice or stored too late before (with the
\* same three exceptions).
ToldRight ==
  startBlock = None /\ ~forgot /\ ~overtaken /\ current # None =>
    LET v == watcher[current]
    IN v.pc = "loop" /\ v.done = latest => (shown <=> latest \in firing)

\* A block is processed with the configuration as it is then, if it is right, and
\* if no edit that makes it wrong comes while the files are read.
\* ("editing the YAML rebuilds the monitors, no restart needed", chain/README)
BlocksSeeTheConfig ==
  [][\A w \in Watcher :
       /\ watcher[w].pc = "loop" /\ watcher'[w].pc = "block"
       /\ verdict[edit].isGood /\ verdict[edit'].isGood
       => watcher'[w].groups \in {edit, edit'}]_vars

\* The last block is processed in the end, whatever start fails or hangs, with
\* a request that hangs, a configuration that is wrong and then right, an exit.
EndIsReached == <>(MaxBlock \in processed)
=============================================================================
