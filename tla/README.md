# Verification of polguard

polguard watches accounts on Polkadot chains and tells people in chat rooms
when something happens to them. This directory holds TLA+ models of the
repository's code, the TLC runs that check them on small instances, and theorems
about them that TLAPS proves. Paths below are relative to
`packages/` of the repository.

- [The system](#the-system)
- [The modules](#the-modules)
- [The runs](#the-runs)
- [Disagreements](#disagreements)
- [The proofs](#the-proofs)
- [What is not modelled](#what-is-not-modelled)
- [Plan](#plan)
- [Running it](#running-it)

## The system

Three services and a job run as separate processes and talk HTTP.

| Part | State | Operations | Talks to |
|---|---|---|---|
| Incident service (`incident/src`) | PostgreSQL: `incidents`, `notifications`, `last_blocks`; in memory one promise chain of delivery passes and three cron jobs | create, acknowledge, resolve by chain, resolve by hand; escalate, auto-resolve, retry and repeat; get and set the last block | Matrix service (posts messages) |
| Chain service (`chain/src`), one process per chain; managed, or on its own with a file | the block loop, its monitors and their context, a KV store (in memory, or a file), two caches | load the configuration; process a block: state, events, calls; create and resolve incidents; store the block; rebuild after a stall, exit | the chain (RPC), incident service or a webhook |
| Matrix service (`matrix/src`) | its client's session and device | post a message; commands `ack`, `resolve`, `resolve ALL`, listings; render alerts | Matrix, incident service |
| Payouts job (`payouts/src`) | none between runs | claim what validators are owed, report it | the chain, Matrix service |
| Configuration (`config/src`), a library | one cached snapshot | load, validate, merge defaults and account settings, resolve payout accounts | files |
| Common (`common/src`), a library | none | formats, DTOs, `sendNotification` | |

What makes them hard:

- **The incident service has no transactions.** A handler reads a row, decides,
  and writes by id one or two awaited calls later. Handlers and jobs interleave
  at every await, and the process can end between an update and the insert of
  the notifications it calls for.
- **Delivery is shared** by passes queued in the background, passes of the cron
  job, and the repeat job, which is not in the promise chain of the passes. A
  send can be posted and reported as failed.
- **The chain service gives things up without stopping them.** `Promise.all`
  rejects at the first monitor that fails; the handlers of the other monitors
  run on into the retry of the block. A request that timed out can be served
  later. A watcher that is replaced is in the middle of its block. The KV store,
  which remembers what is open, does not survive the process, or is as old as
  the last time it was written to its file.
- **The configuration is edited while it runs**, and may be wrong for a while;
  what it means is the result of defaults, groups, accounts, chains, eras and
  decimals together, and a mistake there is silent: nothing is alerted.
- **The bot answers from what it read before**, while the chain service and
  other people act on the same incidents, and dies with the commands of others.
- **A payout run reads the finalized block and writes to the best one**, where
  others claim too, and which may be reorganised.

What each part has to guarantee, to be correct:

- *incidents*: one firing incident per key; what is resolved stays resolved; an
  incident that needs an acknowledgement is acknowledged or escalated, once; a
  firing incident ends; what the table says has been announced.
- *delivery*: every row reaches its room; first attempts follow the table; the
  two senders never hold one row; resolutions are not repeated.
- *block loop*: every block is processed; a stored block has its reports; blocks
  are not left out; one watcher works at a time.
- *incident handler*: after the last block, the incident service shows as open
  exactly what holds; one alert for each time a condition begins to hold.
- *stall guard*: replaces a watcher that is stuck, and gets further than it.
- *monitors and configuration*: what the files ask for is alerted, and nothing
  else, for every account with its own settings; a change is seen; a broken file
  does not stop what runs.
- *bot*: what it says is so, and accounts for what it does not show; it comes back.
- *payouts*: what is due is claimed in some run, by the right signer, and what
  was claimed is reported.

## The modules

| Module | Models | Code |
|---|---|---|
| `NotificationTable` | the columns of a notification that are written once, and their insert | `incident/src/database/schema.ts`, `notification.service.ts` (`createNotifications`) |
| `NotificationService` | passes, the repeat job, crashes | `notification.service.ts`, `scheduler.service.ts` |
| `IncidentService` | the four handlers that write, escalation, auto-resolve, crashes | `incident.service.ts` |
| `IncidentLifecycle` | abstract: what may happen to an incident at all | |
| `IncidentPlatform` | the two services in one process | `main.ts` |
| `ChainWatcher` | the managed chain service: block loop, handlers of monitors, incident handler, reporter, store, rebuild and restart | `chain/src/lib/watcher.ts`, `lib/incident-handler.ts`, `service/watcher`, `service/store`, `service/reporter`, `incident/src/last-block` |
| `WatcherService` | the chain service on its own: process, watcher service, stall guard, starts, signals | `chain/src/service/main.ts`, `service/watcher`, `lib/watcher.ts`, `service/papi.ts`, `service/reporter` |
| `FileStore` | its store | `chain/src/service/store/file.store.ts`, `in-memory.store.ts` |
| `ConfigLoader` | fingerprint, reload, stale snapshot | `config/src/loader.ts` |
| `MonitoringConfig` | validation, defaults, the merge of settings, groups of a chain, payout accounts (operators) | `config/src/config-validator.ts`, `config-processor.ts`, `account-settings-builder.ts`, `payout/` |
| `ChainData` | queries and their cache, XCM programs (operators) | `chain/src/lib/data-provider.ts`, `decorators.ts`, `monitors/xcm.ts` |
| `CallTree` | the call tree, addresses (operators) | `chain/src/lib/watcher.ts`, `utils.ts` |
| `MonitorRules` | every handler of the six monitors (operators) | `chain/src/lib/monitors/`, `config-registry.ts` |
| `Monitors` | the attempts at a block with these rules, from files to incidents | `chain/src/lib/watcher.ts`, `incident-handler.ts`, `monitors/abstract-monitor.ts` |
| `Payouts` | plan, run, claims, reports; the chains around them | `payouts/src` |
| `MatrixService` | the bot's commands, the start of the client, alerts | `matrix/src` |
| `Optional` | fields that may not be there: `??`, lookup, spread (operators) | |
| `MC*` | constants of the instances | |
| `*_proofs` | theorems | |

Modules that EXTEND one another: `Monitors` > `MonitorRules` > `ChainData` >
`MonitoringConfig` > `Optional`; `CallTree` > `Optional`; `WatcherService` > `ConfigLoader` >
`MonitoringConfig`, and `FileStore`; `Payouts` > `MonitoringConfig`. So one
translation of the configuration serves the loader, the monitors and the
payouts. `IncidentPlatform` instances the two incident modules, and
`IncidentService` its abstraction.

### NotificationTable, NotificationService

A step is one database call or one HTTP send, since the code awaits each of
them. `passes` is `this.delivering`: the kinds of the passes chained and not yet
settled; only the head runs, as `pass`. `pass` and the worker of `retryJob` are
the loops over the rows of a query: `todo` the rows left, `current` the row
whose send has been answered and whose update has not run. `retryJob.phase`
follows `await deliver(); await sendRepeatNotifications()`, and a tick starts
only in `idle` (`waitForCompletion`).

Abstractions. `lastSentAt` keeps what the queries compare it with: `null`,
`recent`, `past`; `Elapse` is time. `repeatFiringMs` is whether it is set. The
rows of one `createNotifications` are inserted in one step, in the order of the
serial key (the code makes one `INSERT`; that two inserts could commit in another
order than they drew their keys is left out). A send ends `ok`, `failed`
or `unconfirmed`: posted, and reported as failed. Slack and Telegram, which
`sendNotification` never delivers, are rooms whose sends always fail, and are left
out.

### IncidentService, IncidentLifecycle

A request is a state machine on `req[r].pc` with one step per database call:
`insert`, `authorize`, `update`, `notify`. The two jobs walk the rows of their
query in the same way. `RequestFails`, `EscalationJobFails` and
`AutoResolveJobFails` are a call that throws; `Crash` ends the process.

Abstractions. `isAcked`, `ackedAt` and `ackedBy` are written together and are
one field, and so are `isResolved`, `resolvedAt` and `resolutionType`. The two
thresholds of age are sets that grow (`overdue`, `stale`). Unknown ids (404) and
foreign channels (403) end the request without a change.

A request to acknowledge or to resolve by hand names a channel (`ChannelOf`), and
goes on only if that channel has a row of the incident.

`IncidentLifecycle` knows no handlers, only incidents: opened, resolved,
acknowledged by a channel it was announced on, escalated, announced on channels,
and none of it taken back, except that a later acknowledgement takes the place of an
earlier one. `ImplementsLifecycle` is the refinement; its mapping computes phase,
the channel that acknowledged (`Acker`), escalations and announcements from the
two tables. That two handlers which both read an unacknowledged row both write is
a step of the lifecycle, so the refinement does not exclude it.

### IncidentPlatform

Instances both services over one `notification` table. A step of a handler that
inserts rows is also the step that chains a pass. `DeliveryEnvironmentKept` says
that the composition implements the delivery model, whose environment may only
resolve, and insert resolutions of what is resolved: what the delivery half was
checked against is what the handlers do.

### ChainWatcher

There are two places for a block loop, that of the current watcher and that of
the one it replaced. A loop goes through `ready`, `state`, `event`, `call`,
`persist`; `next` and `done` are `nextBlockNumber` and `latestProcessedBlock`.
`attempt` counts the attempts at a block it has given up: a handler or request
carries the attempt that began it, and the loop waits only for its own. That is
`Promise.all`: at the first rejection the attempt ends (`GoOn`), and the other
handlers stay in `tasks` with nobody waiting.

A handler (`tasks`) asks the chain (`begun`; `hung` when the follow it asked on
is gone), decides on the KV store (`Handle`), has its request `sent`, served by
the incident service (`Served`), and writes the KV store when it sees the answer
(`Answered`). A handler fails at any of these (`HandlerFails`); a request it had
sent may be served later (`late`). The incident service is reduced to what the
reporter sees: `incident`, where creation deduplicates on the key in one step
(its race is `IncidentService`'s), and `reported`, the one-time incidents.

`puts` are the requests to store a block. `setLastBlock` reads and then writes,
so each is two steps; one nobody waits for stays, and may write long after.
`Rebuild` replaces a watcher that is stuck (or any, `MaxRestarts` times), `Crash`
ends the process: the KV store and the loops are lost, requests on their way are
not.

`stray` is a history variable: a handler or request that nobody waits for has
had an effect, or half of one. It separates what the retry scheme guarantees from
what it does not.

Abstractions. A monitor follows one condition and may have one event and one call
in a block. The events of a block are begun together, where the code awaits each
before the next: more interleavings than the code has. `Rebuild` is one step: a
rebuild whose connection never answers, and the guard's clock, are in
`WatcherService`. A process starts on a chain that has a stored block. The
shutdown's last `setLastBlock` is `PersistTimer` followed by `Crash`.

### MonitoringConfig, ChainData, CallTree, MonitorRules, Monitors

A configuration file is a record as the loader parses it: `accountSets`,
`groups`, `defaults`. `MonitoringConfig` has what `validateConfigs` rejects
across fields (`ConfigsAreRejected`; a monitor has handlers of its own,
`MonitorHandlers`) and what `processConfigs` makes of the rest
(`MonitoringGroups`); a decimal is `[units, places]` and `AtomizeBalance` cuts
and pads its digits as the code does. `ChainData` is the storage of a block, as a
record of functions on the keys that are there, and the queries on it; the cache
matters in one place, `IsLower`: a cached number with more than `ExactDigits`
digits (15 in the code) comes back as an object, and two of those compare as texts
(`AreObjects`). `CallTree` takes
the wrappers off an extrinsic; `Monitors` has it as its constant `Leaves`.
`MonitorRules` has one operator for each handler, each giving the conditions
it tracks or the reports it makes.

`Monitors` is the loop around them: an `Attempt` at a block either completes or
fails having done any part of it, and the next attempt may find its balances in
the cache. What it is checked against is *not* the pipeline but a second reading
of the files: a `Wish` is a handler of a monitor of a group for an account of
the group, with the account's setting or else the monitor's, and `Holds` says in
plain arithmetic when its condition holds (`IsBelowDecimal` multiplies out
instead of cutting digits). `ConditionsAreAlerted` and `OpenIncidentsAreTrue`
compare the two after every block, `HappeningsAreReported` does it for events.
`ReplaysReportTheSame` compares the attempts of a block with the one that reads no
cache. It leaves out the blocks in which two balances that are compared are both
objects (`BalancesCompareAsNumbers`), where the code does report otherwise, and the calls
whose report failed, which the code drops.

Abstractions. Addresses are in one format. Handlers of an attempt are one step
(their overlap is `ChainWatcher`'s subject). A text is a value that is compared.

### WatcherService, ConfigLoader, FileStore

A process has slots for watchers: `connecting` (`connectChain`), `starting`
(until `getFinalizedBlock` answers), `loop`, `block` (the monitors' part of
`processBlock`), `persist`. `isRunning` is the flag that `stop` clears; `isHung`
marks a call that does not settle. `current` is what the watcher service holds
as its watcher and client; a watcher that connects is not it yet, which is why a
rebuild neither stops it nor knows of it. `guard` is the stall guard's clock, in
checks of 30 seconds; `Stalled` counts, rebuilds after `RebuildAfter`, and ends
the process after `ExitAfter`. `Fatal` is `fatal` with the flush of `stop`,
`Terminate` a signal, `Exit` the end of a process that has been told to stop, or
its SIGKILL.

A block has one condition: `ReportState` reports it and then writes the entry of
the store, `BlockFails` may have delivered the report and not have written.
The entries of the store are the last block and that condition. `Save` is the
periodic write, and a `Crash` in the middle of it leaves no file that parses.

The loader never awaits, so `LoadSnapshot` is one step, in which the files may
change once between the fingerprint and the reading. Edits are numbered and no
two leave the same contents, so the number is the fingerprint and names the
groups; whether the files of an edit are good and watch anything comes from
`MonitoringConfig` (`Verdicts`).

Two history variables name what the code does not guarantee: `forgot` (a watcher
started without a block to resume from after something had been done: the
in-memory store, a torn file, a crash before the first save) and `overtaken` (a
rebuild began while a connection was waited for, or while a block was at work
that did not hang).

### Payouts

`Start` resolves files to accounts (`PayoutAccounts`, of `MonitoringConfig`) and a
plan (`BuildPlan`); the run then goes chain by chain and signer group by signer
group: `Connect` takes the finalized block, `Scan` the pages unclaimed in it,
each `Claim` is one transaction into the best block, accepted or rejected by
what is there by then. `GroupThrows` gives up the rest of a group; `Report`
sends each channel its accounts, and any of its messages may be lost. Around it
chains finalize, reorganise, change eras, and others claim. `Kill` is the end of
the pod; the schedule starts the next run. `audit` is a history of the run:
what it saw, what became of it, and whether something outside of it was a cause
to fail.

### MatrixService

Each handler in flight has a place: `calling` with the incidents it has still to
ask for, then `sending` what it has to say, in the order of the code, with
`inTry` for what a catch answers. `bot` is the process, from login over device
pruning and the first sync to listening; `Dies` is a rejection that nobody
handles. The incident service is its requests: one step reads or writes
(`FindIncidents`, `Acknowledge`, `ResolveManually`), and between any two steps
others raise, escalate and resolve. `FindIncidents` gives the newest `MaxFound`
(`limit: 1000`) of those that match, and `Listed` the newest `MaxListed` of them with
their number. `said` is the message just sent, with what there was when its command
came in. `RenderAlerts` drops alerts until the rest fits, and cuts the last one if it
still does not: the note on what is not shown, at the end, is lost then.

`NothingIsLeftOut` is about queries that were not full and messages that were not cut.
Beyond that the code leaves out in silence (see *Disagreements*), and the property
says so.

Abstractions. Texts are kinds with the incidents they name and what they say of them:
`DebugInfo` keeps whether the incident was acknowledged, resolved, escalated. Incidents
are numbered in the order of their creation. Time (the timeout of a call) is a call
that fails.

## The runs

`PROJECT.json` lists them. All bounds are named constants.

| Run | Instance | Shows |
|---|---|---|
| `delivery` | one incident, one room that repeats, two rows, one crash or failed call, sends that succeed, fail or are unconfirmed | the two senders are disjoint, first attempts are in order, no resolution is repeated, every row reaches its room |
| `incident_service` | one incident, a creation, an acknowledgement from its channel and one from the channel it is escalated to, a chain and a manual resolution, both jobs, two faults | the service implements the lifecycle; resolutions are true, escalation happens once, nothing is lost without a fault |
| `incident_service_two` | two incidents of one key, ongoing or one-time, both jobs, one fault | a job that fails in the middle of a list leaves nothing behind: acknowledged or escalated, resolved |
| `incident_platform` | one incident, both services, one fault | the composition keeps the environment of the delivery; the alert and in the end a resolution arrive |
| `chain_watcher` | two monitors, three chains of three blocks (conditions that cross, come and go), one failure, one restart or rebuild at any point | stored blocks have their event reports; chain and incident service agree unless a given-up handler took effect; one alert per episode in a process |
| `chain_watcher_live` | one monitor, two blocks, one failure, one incident closed by hand, the timer | every block is processed; what goes on after it was closed by hand is alerted again |
| `watcher_service` | three blocks with a condition that comes, goes and comes, either store, with and without a startBlock, two slots, one failure, hang, crash, signal or slow check, a directory that watches, does not, is wrong and is right again | one watcher at a time, no block left out, the last alert true, blocks processed with the configuration as it is, the last block reached |
| `monitors` | five worlds: two cohorts of a validator across an era; native and token balances around their thresholds with nested calls; an identity with a sub-identity; XCM and governance; a token nobody knows; every storage and block of the world after every other, one failure; the cache keeps one digit exactly, so that some balances come back as objects | what the files ask for is alerted, resolved and reported, and nothing else; no report takes the place of another; a replay reports the same |
| `payouts` | two chains and one without payouts, two signers and one without a secret, an account in two groups, four configurations, eras that pass the history, two faults (kill, failed call, lost message, reorganisation, rival) | exit code, claims and reports agree; every page that is due is claimed |
| `matrix` | three incidents, queries that give two of them and lists that show one, two rooms, two handlers with the commands of `MCCommands`, one fault | what the bot says is true, and complete as long as its queries are not full; devices of others stay; the bot comes back |
| `incident_duplicates`, `chain_orphan` | the smallest that shows it | disagreements, below |

Why the bounds are enough. Races of the incident service are between two
handlers, or a handler and a job, on one row; the first run has every pair of
them, and the second adds what needs two rows: a list, and a key shared. One
fault, or two, put a crash at every await; another one starts from tables that
one fault can already leave. For delivery two rows are an alert and its
resolution, and two rows give each sender something to hold while the other
runs. For the watcher three blocks are a condition that begins, ends and begins
again around a retry; one failure gives up one attempt, and what it leaves behind
meets the next two. For the service on its own two slots are a watcher and its
replacement, three blocks have one on each side of the one at which something
happens, and the guard's thresholds keep their order (rebuild before exit) with
one check between. A world of `monitors` is small in every dimension but has each
value on either side of what it is compared with, before, at and after; a block
depends on the one before it and on what is tracked, so pairs of storages are all
there is. For payouts a page before and one after the end of the history, an
account on two chains and one claimed by two groups; for the bot two incidents
make a list that is cut at one, and a loop with something left to do, and a third one
fills the query.

Every property has a mutant: a plausible bug in the code that breaks it (a query
without one of its conditions, a write left out, `Promise.allSettled` for
`Promise.all`, digits that are not padded, pages counted from 1, a fingerprint
taken after the files were read), defined in the module above the definition it
replaces.

### Fairness

- *Handlers and passes that have begun go on*: the event loop runs, and a
  database call or an HTTP request is answered or fails. A failure is bounded by
  a constant and never required.
- *Cron jobs fire again* after each run (`addCronJob`), and time passes.
- *A room that is tried again and again accepts a message in the end* (strong
  fairness of a successful send): without it no delivery can be promised.
- *The stall guard acts on a watcher that is stuck.* It runs on an interval. In
  `ChainWatcher` stuck is a loop that has ended or waits for a call that hangs; in
  `WatcherService` the guard counts its checks, and a check that finds something that
  could go on is a slow one and counts as a failure (`IsTimely`): 30 seconds are long
  against a step of the loop.
- `WatcherService` assumes in addition that the orchestrator starts a process that
  has ended and kills one that was told to stop and does not, as the deployment's
  restart policy and grace period do; that the chain goes on; and that the editing
  of the files comes to its end, at files that are right. A hung connection or
  request is *not* assumed to be answered: `Reconnect` has no fairness.
- `Payouts`: the schedule goes on (`CronJob`), calls are answered, and what is in
  the best block becomes final.
- `MatrixService`: a handler that is at work goes on, the start goes on or the
  startup probe ends it, and a process that has ended is started. Nothing makes a
  command come.
- Nothing makes a client send a request, a person act, or a request that nobody
  waits for be served.

Deadlock is not checked in the runs of `ChainWatcher`, since a chain has a last
block, and a watcher that has processed it waits.

## Disagreements

Two runs state what the documentation says as their single property, and TLC
violates it.

| Run | Documentation | Code |
|---|---|---|
| `incident_duplicates` | "incident creation deduplicates on `(idempotencyKey, isResolved)`" (`incident/README.md:12`) | two concurrent creations both find nothing and both insert; the index is not unique |
| `chain_orphan` | "Resolves an incident when a condition stops firing" (`incident-handler.ts:51`) | a handler of a given-up attempt, or a request that timed out, creates an incident after the one of the retry was resolved; when nothing is in flight any more it is open and in no KV entry, and no block resolves it |

Others were met on the way. Where a property would be false for one of them, it
leaves that case out and its comment says so.

Incident and chain service:

- An alert whose send failed waits five minutes and is overtaken by its resolution
  (`notification.service.ts:101`, against the comment at line 80).
- A second acknowledger overwrites the first (`incident.service.ts:153`; "preserves
  original acker on multiple acknowledgments", `incident.test.ts:224`). The lifecycle
  allows it.
- A call handler that fails is logged and the block stored (`watcher.ts:217`; "a
  failed report must throw so that the watcher replays the block",
  `incident-handler.test.ts:121`).
- "Handlers never run concurrently within a single monitor" (`abstract-monitor.ts:63`):
  those of a given-up attempt run into its retry (`watcher.ts:197`).
- A restart replays its last block and alerts again what was resolved since
  (`incident-handler.ts:80`; `service.store.ts:13`).
- "persisted every 5 minutes and on shutdown" (`chain/README.md:97`) is every block.

Standalone chain service:

- A rebuild while a connection is waited for leaves two watchers when both come
  (`watcher.service.ts:136`); one during the first start rejects it, and the process
  ends without its flush (`main.ts:67`).
- A signal while the first watcher connects stops nothing (`main.ts:54`): the process
  works on until it is killed.
- With no monitors the loop waits without progress, so the guard rebuilds and ends
  the process again and again (`watcher.ts:157`).
- startBlock holds at every start of a process, not only the first.
- A torn file is read as none, and the first 30 seconds are in no file
  (`file.store.ts:93`).
- An edit that makes the files wrong while they are read leaves the blocks on the
  snapshot before (`loader.ts`), although the edit it began with was right.

Monitors and configuration:

- An unknown token on an account passes validation and makes every block throw
  (`config-validator.ts:324`, `data-provider.ts:261`; `MONITORS.md:136` says tokens are
  validated): the world `typo` never gets past its first block.
- Asset transfers on Centrifuge are never reported: the handler is registered under
  `ormlTokens.Transfer` (`assets.ts:40`) and looked up with a pallet in lower case
  (`abstract-monitor.ts:197`).
- `commission: 0` is never checked (`staking.ts:115`); an account that has lost its
  value is not judged, so an open incident stays; a token back above its threshold is
  not either (`assets.ts:113`).
- `DestinationChangedState` ignores era bounds (`staking.ts:89`), and a group's
  `fromEra` with an account's `untilEra` may leave no era at all
  (`config-validator.ts:76`).
- Group ids are unique within a file only (`config-validator.ts:270`), and an
  account twice in one group has one key for both (`config-registry.ts:64`).
- Cached balances of 16 digits or more compare as texts (`decorators.ts:134`), so a
  retried block may report a decrease that was an increase, or miss one.
- Of several accounts with one identity the event is reported for the first
  (`identity.ts:125`); the transfers of one XCM message share a key (`xcm.ts:41`); a
  proxy's `real` given as `Address32` is hex (`utils.ts:70`).

Payouts and Matrix service:

- Accounts without a url for their messenger are not reported, silently
  (`reporter.ts:59`); an account's `operations.payout` without one of its group or
  file is ignored (`payout-resolver.ts:9`; `CONFIG_GUIDE.md:163`); claims of a group
  with a rejection are reported to nobody (`claim-engine.ts:112`).
- A chain without a payout descriptor or connection ends the run for the chains
  after it (`main.ts:20`); a run right after a failed one reads a finalized block that
  is behind, and is rejected.
- `!` alone is a rejection that ends the process (`matrix-bot.ts:54`), and so is an
  error message that cannot be sent. An acknowledgement that was made is answered with
  an error when its answer fails (`matrix-bot.ts:290`). "Resolved manually" is also
  said when the chain did it.
- `!debug` tells any room of any incident (`matrix-bot.ts:226`), and `!resolve` of an
  incident that is resolved already says so in a room that was never told of it
  (`incident.service.ts:215`), without a check such as `!ack` has.
- Queries end at 1000 incidents (`incident.service.ts:95`): a total counts no more than
  those, and `!resolve ALL` passes the rest over and does not say so. Of those it could
  not resolve it says how many, not which (`matrix-bot.ts:330`).
- A message of alerts that is too long with one alert left is cut at its end, where it
  says how many alerts are not shown: that number is lost (`alertmanager.ts:68`). The
  limit is in bytes and the cut in characters.
- The first sync may hang until the startup probe (`matrix-client.ts:239`); lists
  end at 50.

## The proofs

TLAPS proves, for every value of the constants that satisfies the named
assumptions (lists of channels are sequences of entries; bounds are naturals; the
monitors and the incidents are finitely many; `None` is not a value; the four kinds of
request are disjoint; chains are non-empty sequences of blocks; the edits of a
directory are a non-empty sequence; eras and numbers of pages are naturals):

| Module | Theorem | States |
|---|---|---|
| `NotificationService_proofs` | `TypeCorrect` | types |
| | `SendersAreDisjoint` | `SendersDisjoint`: a pass and the repeat job never hold one row |
| | `AttemptsAreInOrder` | `FirstAttemptsInOrder`: first attempts follow the table |
| | `ResolutionsAreNotRepeated` | `NoResolutionRepeated` |
| `IncidentService_proofs` | `ServiceTypeCorrect` | types |
| | `ResolutionsAreAlwaysTrue` | `ResolutionsAreTrue`: a resolution row is about a resolved incident |
| | `EscalationIsOnce` | `EscalatedOnce`: one insert of escalation rows for each incident |
| | `NothingIsLostWithoutFault` | `NothingLostWithoutFault`: what was written is announced, or is about to be |
| | `ServiceImplementsLifecycle` | `ImplementsLifecycle`: the refinement; who acknowledges was notified |
| `IncidentPlatform_proofs` | `DeliveryIsAsSpecified` | `DeliveryEnvironmentKept`: the whole service implements the delivery model |
| | `DeliveryHoldsInTheWhole` | the three theorems of the delivery, in the whole service |
| | `IncidentsHoldInTheWhole` | three of the theorems about incidents, in the whole service |
| `ChainWatcher_proofs` | `WatcherTypeCorrect` | types |
| | `NoReportIsLost` | `NoReportLost`: a stored block has its event reports |
| | `WatcherAndServiceAgree` | `AgreesUnlessStray`: after the last block exactly what holds is open |
| | `OneAlertAnEpisode` | `OneAlertUnlessRestarted`: no more alerts than episodes of a condition |
| `WatcherService_proofs` | `TypeCorrect` | types |
| | `OneWatcherWorks` | `OneWatcherUnlessOvertaken` |
| | `NoBlockIsSkipped` | `NothingSkipped` |
| | `ConfigIsSeen` | `BlocksSeeTheConfig` |
| | `AlertsAreRight` | `ToldRight`: what was told last is what holds in the last block |
| `MatrixService_proofs` | `AnswersAreTrue` | `RepliesAreTrue`: what is said to have happened to an incident has |
| | `AnswersAreComplete` | `NothingIsLeftOut`: nothing is passed over, unless the query was full or the message cut |
| | `DevicesStay` | `DevicesAreKept` |
| `Payouts_proofs` | `SuccessIsComplete` | `SuccessMeansClaimed`: exit code 0 means that all that was due is claimed |
| | `FailuresHaveCauses` | `FailureHasACause`: exit code 1 has a cause outside the job |
| | `ReportsAreTrueAndWhole` | `ToldWhatWasClaimed`: channels are told what was claimed for them, and all of it |
| `Monitors_proofs` | `NoReportTakesAnothersPlace` | `NoReportSwallowed`: reports of a block differ in key or place |
| | `ReplaysAreTheSame` | `ReplaysReportTheSame`: a replay makes the same reports, unless it compares balances as texts |
| | `ConditionsHaveIncidents` | `ConditionsAreAlerted`: what holds has an open incident |
| | `OpenIncidentsHold` | `OpenIncidentsAreTrue`: what is open holds |
| | `EventsAreReported` | `HappeningsAreReported`: events are reported for whom they concern, and nobody else |

**NotificationService** (`NotificationService_proofs`). `SendersDisjoint` is not
inductive. `DeliveryInv` says what a worker holds: a row in a pass is undelivered
(`PassInv`), one in the repeat job is delivered (`RetryInv`), and the pass of the cron job is
in the chain at most once and only while the job awaits it (`ChainInv`), so that
no pass that settles restarts the query of a job that is walking. It is kept because
a worker writes `isDelivered` only of a row it holds, and lets go of that row in the same
step; each action has a lemma.
`FirstAttemptsInOrder` needs in addition that a running pass has every row not yet
attempted in hand, except those inserted since, which come after all of its rows
(`InHand`). `NoResolutionRepeated` needs that a resolution row is about a resolved
incident, which here is an assumption on the environment and in
`IncidentService_proofs` a theorem; `IncidentPlatform_proofs` puts the two together.

**IncidentService** (`IncidentService_proofs`). Handlers and jobs write on what they
read before, so the invariant is what each of them still knows when it writes:
the incident exists; one that a resolver or the auto-resolve job is to
announce is resolved (`HandlersInv`, `AutoResolveInv`); an acknowledgement past
its check has a row of its incident for its channel (`HandlersInv`); the incidents the
escalation job has read are not marked by anybody else, and the one it has marked
has no escalation row yet (`EscalationInv`). With `RowsInv` (every row is about an
incident there is, and true of it) this is inductive, because no step takes
anything back (`Grows`): a lemma for each piece says that growth keeps it, and a lemma
for each action that it grows. The refinement follows with one lemma for each
kind of write, which names the step of the lifecycle it is; a resolution of what is
resolved already, and every step that writes no table, stutters.
`NothingLostWithoutFault` is inductive with that invariant: a handler that leaves
`notify` has announced, or has failed.

**IncidentPlatform** (`IncidentPlatform_proofs`). A step of the whole service is a step of
`IncidentService` or leaves its variables alone (`HalfStep`), so that its invariant `IInv`
holds in the whole. From it follows what a step looks like to the delivery
(`WorkQueuesOrResolves`, in `IncidentService_proofs`): it queues rows for one list of channels,
a resolution only of what is resolved by then, or it resolves at most one more incident.
Both are steps of the environment of `NotificationService`. The environment has a bound on the
number of rows for TLC, which the incident service does not have: the theorem is about
behaviours in which the table stays within `MaxRows`, for any `MaxRows`. What each half was
proved to keep, it then keeps in the whole. The lemmas `Same...` say that the instances
that bring in the proofs are those of `IncidentPlatform`.

**ChainWatcher** (`ChainWatcher_proofs`). `NoReportLost` speaks of the stored
block only, and the stored block is written by requests that can be older than
the loop that sent them. The invariant therefore says of every request in flight
that the blocks up to its own have their reports (`PutsReported`); of every loop that
the blocks before the one it is at do, and that block itself once the phase of the
events is over (`LoopsReported`); during that phase, that each event of the block is
reported or still has a handler of this attempt (`EventPending`); and that a handler
whose request was answered has its report (`TasksReported`). What makes it go round is
that a loop is never moved on by a handler or an answer of an attempt it has given
up: `TasksMatch` and `PutsMatch` tie the attempt numbers to the phase of the loop.
`StepGrows` gives the monotonic half once for all actions: reports are never
taken back.

`AgreesUnlessStray` compares the incident service with the last block, and in between
the two are apart in ways that depend on how far each handler is. `Known` says what a
handler knows: what it found in the KV store is still there, a request to create finds
no other open incident unless it finds that one, one that was answered has done what it
asked for (`TaskKnown`, `HandlerKnown`); an entry of the KV store names an incident of its
monitor (`EntriesKnown`), at most one is open for each monitor (`OneOpen`), and a loop is no
further than the chain (`LoopsKnown`). `AgreeInv` is the property made inductive: for each
monitor, store and service agree with the block the loop has passed, or its handler
for this block is still at work and what it is about to do will make them agree. As long as
nothing is `stray`, a monitor has one handler at a time (`OneHandler`), so that only
that handler can disturb it: every step is either `Unnoticed` by a monitor, or is its
handler's, or begins or ends a block. That no handler need be left for the property to
hold (`tasks = {}` was part of it in an earlier version, and is not needed) came out of
the proof. `OneAlertUnlessRestarted` counts. `CountInv` says that the alerts of a
monitor are at most the episodes up to the block the watcher is at, and one less while
that block has an incident still to be created (`CountedFor`); that a process which has just
begun has at most the incident of block 1 (`FreshFor`); and where entries of the KV store
and open incidents stand when a block is passed (`ClosedFor`, `PassedFor`).

**WatcherService** (`WatcherService_proofs`). `IInv` has four parts beside the types.
`Placed`: the block a watcher is at is one of the chain, and a process that is down has
no watchers. `Informed`: the fingerprint of the loader's snapshot is never newer than the
files, and of the last edit it has that edit's groups; a watcher's fingerprint is
the loader's or older, and of the same fingerprint it has the same groups, so that
`initializeMonitors`, which compares fingerprints only, leaves it right. `One`: who has
work is the watcher in charge, and nobody has while another one connects. `Whole`: the
processed blocks are without a gap; the stored block, in memory or in the file, and
the last one of each watcher are among them; and a watcher at work stands behind one of
them, so that it cannot open a gap. Most steps are `Quiet`: no watcher gets new work, and
nothing is stored but what some watcher has done; one lemma shows that quiet steps keep
the invariant, and a lemma for each such action that it is quiet. What is left are the
five steps that start a watcher, begin or end a block, or replace a watcher.
`BlocksSeeTheConfig` is an action property, and follows from `Informed` and the step
`BeginBlock`; that no other step takes a watcher from its loop into a block is part of
`Quiet` and of the other lemmas.

`ToldRight` has an invariant of its own, `Told`, because a report, its entry in the
store, the last block and the file are written in this order, and a crash, a failure or
a rebuild may come between any two. What was told last, the entry and the file's entry
may therefore differ from each other and from what holds; but then the blocks still to
be processed, from the one the store or the file would resume at, have one that tells it
again (`Due`). A watcher at work is never beyond that block (`IsTelling`), and the first
alert of all has no block behind it (`FirstAlert`).

**MatrixService** (`MatrixService_proofs`). A handler speaks of what it read before, so
the invariant says what it still knows (`Knows`): what it has found, acknowledged or
resolved was told to its room, what it counts as resolved is resolved, and of the incidents
that fired when `resolve ALL` came in each is resolved, still to be tried, or among the
failures, unless the query was full. That a query finds fewer than its limit means
that it found all (`Newest`, by the cardinality of what is newer than one that is left
out). `Replies` says it of the messages it has ready. Both are kept because
incidents only go on (`Goes`): once acknowledged, resolved or told, for good. The
devices need their own small invariant: a process has its device from the login on.

**Payouts** (`Payouts_proofs`). The invariant says what a run has behind it, group by
group. `Placed`: chains are taken one after the other, so that the block a group works
on is the one its chain was read at. `Claims`: whatever was claimed is of a group that has
begun, and the group at work has its pages either pending or submitted, unless one was
rejected. `Successes`: a group that is through has claimed all that was due when its chain
was read. Without a cause from outside (`Causeless`) nothing has failed, and what is due
and not claimed can still be (`IsOpen`): it is not in the best block and its era is
within the history. This is where it matters that no two groups of a plan share a stash
on a chain, which holds because `getPayoutAccounts` keeps an account once; with the mutant
that keeps both, the second claim would be rejected without a cause. `Reports`: every
message is true of the claims, and of a group that is through and has not failed every
claim was told to each channel that lost no message.

**Monitors** (`Monitors_proofs`). `NoReportSwallowed` holds in every state, because what
a report says is a function of its key and its place in the block: a lemma for each
handler gives that function (`StateSays`, `EventSays`; of a call, its arguments).
`ReplaysReportTheSame` needs that the cache makes no difference (`CacheIsFaithful`), which
is so in the blocks the property is about (`BalancesCompareAsNumbers`); that attempts only add to what was made, and only
what the block has, is `ReplayInv`.

The other three compare the registries, which the code builds by concatenation and
overwriting, with the wishes in the files. Their proofs go the way of the data. The
groups that the loader makes are those of the files with their defaults, chain by chain
(`MonitoringGroupsAre`; `FlattenIs` says what a concatenation holds), the registries are
theirs (`RegistryIs`), so that an account is watched by a handler exactly if a group
wishes it (`WishIsWatched`, `WatchedIsWished`), with the account's setting before the
monitor's (`SettingIs`) and amounts in plancks that are below exactly if the
decimals are (`Atomized`). Then for each handler: it judges an account exactly if its condition
is defined, and it fires exactly if that condition holds (`TracksAre`, `IsRight`); for events,
that it notices exactly those that concern the account (`Notices`). What is left for the
invariants is little: `TrackInv`, that whatever is tracked was so judged in some block,
and that once an attempt completes, the incidents of this block are as judged; and
`EventInv`, that reports at the place of an event are those of the block, and all of them once an
attempt completes. Powers of ten and first elements, which are recursive, are had by minimal
counterexample (`TenToAdds`, `HasFirst`).

These three are about worlds such as the parser and the chain deliver (`WorldsAreTyped`):
lists are lists, storage has naturals where it has balances, and no value is `None`.
`WorldsAreTyped` also has two things that the code does not check: that no group
names a monitor twice (the code would take an account's settings and handlers from the
last of the two, and a group's handlers for referenda from the first), and that an amount has no more decimal places than its
token (the code cuts the rest off, so that a balance just below may pass).
`OpenIncidentsHold` needs `WishesAreClear`: no group asks for a handler of an account in
two ways, since both would share one incident. `EventsAreReported` needs
`HappeningsAreClear`: no two watched accounts have one identity, of which the code would
report the first; an XCM origin is an `AccountId32`; and there is no event named
`ormlTokens.Transfer`, since the code compares with names in lower case. TLC evaluates all
three on the worlds of the run (`MCWorldsAreTyped`).

Only model-checked: liveness (every property with `~>` or `<>`), which needs
fairness; the call tree (`CallTree`), which is recursive over the data and which
`Monitors` has as a constant, `Leaves`; the mutants and the findings.

## What is not modelled

Components with their reasons are in `PROJECT.json`, and so are the hazards of
the code with the properties that cover them, or why none does. In short:

- *Routes, schemas and configuration of the incident service*: declarations, and
  handlers that pass on what is modelled.
- *Decoding of extrinsics and metadata*: bytes to the calls the models start from.
- *The context field of a monitor* (`abstract-monitor.ts:67`): that a handler of a
  given-up attempt may read the context of the retry. `ChainWatcher` has such handlers, and
  `Monitors` the keys they compute; the two in one state are beyond TLC's reach.
- *The first row of `last_blocks`*, which two first requests can both insert.
- *Patterns and ranges* of single values of the configuration, formats of addresses.
- *The text of messages, logging, metrics, the Matrix SDK and its crypto, charts,
  dashboards and generated chain metadata.*

Considered and dropped as properties: that an alert is repeated only while its
incident is firing (the repeat job walks a list read before, and nothing promises
it); that an incident is escalated only if unacknowledged at that moment (the same);
and that a block sees the configuration also when an edit makes it wrong while it is
read (it sees the one before, and the next block does too).

## Plan

What could come next:

1. the composition of `ChainWatcher` with `IncidentService`, in place of its reduced
   incident service, with orders that only both together show;
2. the monitor's context under given-up attempts, on one monitor with two accounts;
3. proofs: what each of several channels of an incident is told, in the whole service; the
   theorems about conditions for amounts with more places than their token has.

## Running it

    tlc -workers 2 -config IncidentService.cfg MCIncidentService
    tlapm ChainWatcher_proofs.tla

A run's module and configuration are in `PROJECT.json`. The longest runs are
`watcher_service` (1.4 million states and two liveness checks) and `matrix` (half a million
states), two minutes or more each; `chain_watcher` (2.5 million states) and `payouts`, under a
minute or about one.
