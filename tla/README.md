# A verification of ssh-tunnel-manager

TLA+ models of the tunnel manager in `src/`, model-checked with TLC and, where
stated, proved with TLAPS. All line numbers refer to the files under `src/`.

## 1. Inventory of the system

The program keeps one SSH port forward alive and shows it in a small window and
a tray icon. It is one Go process; everything interesting is goroutines meeting
at a few mutexes and channels.

| Component | State | Operations | Interacts with |
|---|---|---|---|
| SSH tunnel manager (`ssh.go`) | `conns` (id -> `SSHConn` with process, status, address, DDNS generation and mark, `StopCh`), guarded by `mu` | `Connect`, `Disconnect`, `DisconnectAll`, `GetStatus`; goroutines `monitorProcess`, the DDNS heartbeat, `autoReconnect` | starts and kills `ssh` children; called by UI, tray, `main` |
| Status notification (`ssh.go`) | `notifyCh` (64 messages), callbacks | `notifyStatus`, `notifyTerminalStatus`, the dispatcher | manager -> UI and tray |
| DNS sources (`ssh.go`, `baidu_dns.go`, `internal/bcd`) | credentials, resolver setting | `resolveConnectTarget`, `freshIPs`, `ResolveRealIP`, paged `listRecords` | `Connect`, `autoReconnect`, heartbeat |
| Application lifecycle (`main.go`) | `showCh`, `quitCh`, `showReq`, `curWin`, `winAlive` | start-up, window loop, tray callbacks, `autoConnect`, `shutdown` | everything |
| UI logic (`ui.go`, pages, dialog) | `connectBusy`, `conflictBusy`, `testing`, `uiCmds`, dialog and form state | `checkPortAndConnect`, `toggleConnection`, `handleKillProcess`, `handleChangePort`, `saveSettings`, `restartWithConfig`, `testAPI` | manager, config; results come back through `queueUIFunc` |
| Configuration store (`config.go`, `paths.go`, `crypto.go`) | the configuration, `readOnly`, the key file | `Load`, `Save`, `SetForward`, migration, encryption | UI, `main` |
| Single instance (`singleinstance_*.go`) | lock file, wake socket | lock, `notifyRunningInstance`, `listenForShowRequests` | `main` |
| Zone forwarding (`zone_forward.go`, `ui.go`) | installed stub zone, `zoneRefreshGen` | status, apply, the settings row | system resolver, UI |
| Tray, title bar, theme, logger; `cmd/querydns` | drawing, a log file | - | - |

What makes each component correct:

* manager: at most one tunnel per forward; no `ssh` child that nobody owns; a
  tunnel the user stopped stays stopped; a dead tunnel is noticed and either
  reconnected or reported; the heartbeat restarts the tunnel it judged and no
  other, and ends with it.
* notification: callbacks hear transitions in order; overflow loses old news,
  not the newest; sending never blocks the mutex; terminal failures are heard.
* DNS sources: the address compared by the heartbeat comes from the source the
  tunnel was opened with.
* lifecycle: quitting leaves no `ssh` behind; a show request shows one window.
* UI: one connection attempt at a time; saved settings reach the tunnel.
* configuration: a password that cannot be decrypted is never overwritten; a
  crash leaves a readable file.

Hard behaviours: `Connect`, `Disconnect` and `autoReconnect` run I/O of seconds
outside the mutex and act afterwards on state they read before; three kinds of
goroutines look the connection up *by id* when they first run; the exit of a
child races with the confirmation window, with `Disconnect` and with the
heartbeat's kill; `Connect` notifies outside the mutex. The full list, with
lines, is `hazards` in `PROJECT.json`.

## 2. Modules

| Module | Models | Builds on | Theorems |
|---|---|---|---|
| `TunnelManager` | the manager of `ssh.go` | - | `TunnelManagerProofs` |
| `TunnelSlot` | what `GetStatus` and the callbacks show of it: the abstract specification | - | - |
| `TunnelPaced` | the manager with an assumption about the user's pace, and the refinement mapping to `TunnelSlot` | `TunnelManager`, `TunnelSlot` | `TunnelPacedProofs` |
| `MCTunnel` | symmetry for TLC | `TunnelPaced` | - |
| `NotifyQueue` | `notifyCh`, its senders and its dispatcher | - | `NotifyQueueProofs` |
| `ConnectUI` | the UI thread, its command queue and everybody who connects | `TunnelSlot` as the manager | `ConnectUIProofs` |
| `ConfigStore` | load, save, migration and key file | - | `AppLifecycleProofs` |
| `AppLifecycle` | the processes of the program and its window | `ConfigStore` as the start of an instance | `AppLifecycleProofs` |
| `ZoneForward` | the resolver drop-in, its settings row and button | - | `DnsSourcesProofs` |
| `DnsSources` | the lookups of a connect, a reconnect and the heartbeat | `ZoneForward` as the way around the resolver's cache | `DnsSourcesProofs` |

Modules that are checked at one instance only are run directly; `MCTunnel`
exists because the manager has several.

### TunnelManager

State and code:

* `slot` is `m.conns[id]`. The application has one forward
  (`RestoreAppState`/`GetForward` know a single id), so the map has at most one
  entry, and `DisconnectAll` is one `Disconnect`.
* `conn[c]` holds the fields of an `SSHConn` the control depends on; `stopped`
  is "StopCh is closed". `Config` never changes within an `SSHConn` and is the
  constants `MaxRetries` and `AutoReconnect`.
* `proc[q]` is an `ssh` child with the address it was told to dial; "dying" is
  killed and not yet reaped. Killing a child that has already exited does
  nothing (`Process.Kill` returns an error the code ignores).
* `note` is the newest message put on `notifyCh`. `NotifyQueue` models what
  becomes of it.
* `caller`, `monitor`, `beat`, `recon` are the goroutines with a program
  counter, the connection they hold and their locals. A monitor, its heartbeat
  and its reconnect are named by the process whose publication issued the
  `go monitorProcess(id)`.

Every critical section of `m.mu` is one action; the steps between are the
places where another goroutine can get in. `Connect` is `ConnectBegin` (first
existence test), `ConnectFail`/`ConnectStart` (resolve, dial, pipe, `Start`),
`ConnectStore`/`ConnectLost` (second test), `ConnectDone` (notify and
`go`, after the unlock). `monitorProcess` is `MonitorLookup`, `MonitorWait` (the
`Wait` goroutine reads `sshConn.Process` when it first runs), then
`MonitorExit`/`MonitorStopped`/`MonitorTimer` for the select, `MonitorConfirm`/
`MonitorUnconfirmed` for the critical section that publishes "running" and
claims a heartbeat generation. `Exit*` are `handleProcessExit`, `Beat*` the
heartbeat, `Recon*` `autoReconnect`.

Abstractions: which address a resolver returns, whether a dial or a start
fails, what an exit writes to stderr and what `freshIPs` answers are free
choices. Exit statuses are two: one that allows a reconnect ("disconnected",
for disconnected, connection_refused and unreachable) and one that is final
("auth_failed", for auth_failed and port_in_use). Sleeps are steps that may
happen at any time; hence `recon.fast`, the skipped retry sleep of a DDNS
restart, is recorded and disables nothing. An `SSHConn` or a process nobody
refers to any more may be allocated again (`FreeConn`, `FreeProc`): the finite
sets bound what exists at one time, not the length of a behaviour, so deadlock
is checked in all tunnel runs. `MaxGen` bounds the confirmed windows of one
`SSHConn`; later windows end with the exit of their child.

### TunnelPaced

`Paced` restricts only the steps that change `slot`: they wait until no
goroutine is between `go` and its lookup, or between a check and the critical
section that acts on it, and `Connect` does not stop between its unlock and its
`go`. In the code these gaps are a few instructions, while replacing a
connection needs a resolver round trip, a TCP dial and a fork. The seconds-long
waits and network calls of `autoReconnect` and of the heartbeat remain free.
The model without the assumption shows what the code does not guarantee (runs
`orphan`, `exhaust`); the one with it shows that the same properties hold then.

`Slot` maps the manager to `TunnelSlot`: `status` is what `GetStatus` reports
for the id, `final` whether the newest message is a terminal one. That the
manager implements the slot is the property `SlotSpec` of the run `paced` and
the theorem `ImplementsSlot`; the initial state maps to the initial state,
every critical section to one step or a stutter. Without `Paced` it does not hold: a `Connect` that notifies late
leaves "connecting" as the last news of a removed connection.

### TunnelSlot

Six moves of one forward (`Begin`, `Up`, `Fall`, `Fail`, `Retry`, `GiveUp`,
`Remove`). It is what `ConnectUI` stands on, so that the UI is composed with
the promises of the manager and not with its goroutines. `MayLive` and `GiveUp`
are as weak as the code: an `autoReconnect` that spends its last attempt marks
whatever the map holds, so a connection called "disconnected" may come up.

### NotifyQueue

A message is the number of its transition and whether `mu` is held until it is
sent. Lockers hold `mu` from the transition to the end of `notifyStatusKind`;
Connectors, which are `Connect`, have released it. The three selects are
`Send`/`Full`, `Drop`, `Resend`. The dispatcher needs `mu` for reading
(`ReadCallbacks`) between taking a message and calling the callbacks, which is
what a blocking send would deadlock with.

### ConnectUI

`ui.pc` is where the UI thread is: between frames, in `handleEvents`, between
the two halves of `saveSettings` (`SetForward` and `Save`) or of
`handleChangePort`. `FrameStart` is `drainUICmds`, the click actions are the
handlers with every check they make. A closure on `uiCmdQ` is what it does to
the flags, to `testing` and to the dialog (`CmdRec`). `job` are the goroutines:
the ones of `checkPortAndConnect` ("connect"), `restartWithConfig` ("restart"),
`handleKillProcess` ("kill"), `handleChangePort` ("change"), `testAPI` ("test"),
`autoConnect` ("auto") and `trayConnect` ("tray"), each with the configuration
it captured and the point it has reached. `Release` is the closure with which
a section of the UI ends, `Report` one that leaves it to a later step (`Leave`):
the conflict dialog and the release are two closures in the code, and a frame
may come between. `held` is the configuration the tunnel was given.

One click is handled per frame. A status that is read and the `Disconnect` that
answers it are one step. `MaxCmds` bounds only what the environment adds to the
queue (tray clicks, failures of the tunnel); a goroutine of the UI is never
held up by it.

### ConfigStore and AppLifecycle

`ConfigStore` has one action per operation on a file: `migrateFile` is
`StatConfig`/`StatKey`, `MigrateCreate`, `MigrateCopy`, `MigrateRemove`; `Load`
is the four `Load*`; `loadOrCreateSecretKey` is `StatKey`, `ReadKey`,
`Generate`, `Fill`; `Save` up to its temporary file is `Save`, its end `Rename`
or `SaveFails`. `os.WriteFile` of the key creates and fills the file in two
steps, `SaveConfig` writes and syncs a temporary file and renames it. With
`IOErrors` every operation on a file may fail for reasons outside the program.
What a configuration says is reduced to `seal`, the key its secrets are
encrypted with, and `from`, whom its contents are from: the user, the defaults
that `main` uses when it finds no file although the user has one beside the
executable (`LoadNothing` after a `MigrateCreate` that failed), or the
half-loaded state of a `Load` that failed, which read-only protection keeps from
being saved. These are what the code could lose.

`AppLifecycle` runs that store inside the instance. A launch takes the `flock`
(`TryLock`) and listens, or pokes the socket and ends. `Crash` is possible in
every state of every launch, `Gone` clears memory, channels and lock and leaves
the files and the name of the socket. `showCh`, `consumer`, `showReq` and `win`
are the way of a show request from socket or tray to a window; the channels of
capacity one are flags. A launch that pokes an instance which is shutting down
ends without effect, as in the code.

### ZoneForward and DnsSources

`ZoneForward`: a drop-in is the zone it was generated for. `newest` is
`zoneRefreshGen`, kept as the identity of the refresh that claimed it last.
`refresh` and `action` are the goroutines of `refreshZoneForwardStatusAsync` and
of `startZoneForwardAction`; `Apply` and `Finish` are the closures they queue.

`DnsSources`: `zone` is the list of records as the API pages through it, with
other records added and removed at either end and ours paused and resumed
between any two pages. `FetchPage` is one request of `listRecords` with the
selection of `QueryBaiduDNSIPWithBase`. A failed request drops what was listed
(`ApiFails`) and leaves the system resolver, whose `cache` may be behind unless
the drop-in of the host's zone is installed. `tunnel` is the address the tunnel
is up at; while it is down, `attempts` are what is left to the `Connect` (one)
or the `autoReconnect` (`MaxRetries`) under way, and with none left nobody asks.
`ComesUp`, `Unreachable` and `NoAnswer` end an attempt, `Confirms` and
`Condemns` a beat of the heartbeat. A tunnel that breaks (`Dies`) or is condemned
`Falls`: with all attempts, or with none where the exit status is final or
AutoReconnect off. `query.sound` is a history variable for the properties.

## 3. Runs

Passing:

| Run | Instance | Shows |
|---|---|---|
| `race` | 2 connections, 2 processes, 2 callers, 2 addresses, 2 windows | for every schedule `TypeOK`, `StoppedIsDead`, `Attended`, and, with heartbeats of two generations side by side, `OneBeatActs`, `BeatKillsJudged` |
| `paced` | 2 connections, 3 processes, 2 callers, 2 addresses, 2 retries, heartbeat | `OneAttends`, `NoOrphan`, `NewsIsCurrent`, `Watched`, `RestartMarkIsFresh` and the refinement `SlotSpec` under `Paced` |
| `live` | 2 connections, 2 processes, 2 windows | `DeathIsNoticed`, `BannerEnds`, `BeatRetires` |
| `notify` | 2 lockers, 1 connector, 5 transitions | `TypeOK`, `InOrder`, `NewestSurvives`, `NeverStuck` |
| `ui` | 2 goroutines beside the UI thread, 1 closure of the environment | `TypeOK`, `BusyOwned`, `DialogExclusive`, `ButtonsRecover` |
| `app` | 2 launches, any number of relaunches, crashes, failing file operations and saves | `TypeOK`, `NothingLost`, `SealHasKey`, `Reachable`, `ShowFromTray` |
| `dns` | 2 addresses, 2 zones, up to 2 records on 2 pages of one, 2 retries | `TypeOK`, `FoundIfSteady`, `RowIsCurrent`, `CondemnsJustly`, `FollowsRecord` |

Why the bounds suffice:

* Manager: the interesting cases need one connection that goes away while a
  goroutine of it is under way and one that replaces it (2 connections), a
  process of each and the one a late reconnect starts (3 processes), a heartbeat
  of an old generation beside the current one (2 windows), an address that
  changes (2 addresses) and two racing `Connect`s (2 callers). `race` has only
  two processes, which keeps two callers, addresses and windows in one run; each
  of its properties is also a theorem for any number, and so is each of `paced`.
  `live` leaves the addresses out: a heartbeat still condemns nothing there, and
  is killed off by generation, status or `StopCh`. It is not paced: that a
  confirmation reaches a tunnel that has died or was replaced (ssh.go:766) is
  among its behaviours, and "running" and the heartbeat are taken back there.
* `notify`: a capacity of 2 for 64 reaches every branch, which depend only on
  full, not full and empty. It stops after `MaxTransitions`, hence
  `CHECK_DEADLOCK FALSE`.
* `ui`: two goroutines are the section of a button and the one that races it;
  one configuration, because which one is connected matters only to `saved`,
  which has two. `BusyOwned` and `DialogExclusive` are theorems for any number.
* `app`: two launches are the instance and the one that pokes it, or the one
  that leaves and its successor; a launch that ended starts again, so crashes
  and restarts are unbounded. Its safety properties are theorems for any number.
* `dns`: one record per page and two pages put a page boundary between our
  record and another one, and the last record at the limit of the pages; two
  retries make an attempt that is not the last one and one that is; the
  theorems are for any page size and zone. The run has one refresh at a time,
  which overlaps with saves and with the button's action; that refreshes
  overlapping *each other* do no harm is `RowTrue`, for any number of them.

Violations, each a finding in `PROJECT.json`:

| Run | Property | What happens |
|---|---|---|
| `orphan` | `NoOrphan` | the exit of a removed connection starts an `autoReconnect` that adopts its successor and publishes a second process over a healthy one |
| `exhaust` | `ExhaustsOwn` | an `autoReconnect` whose last attempt fails marks the connection that replaced its own while that attempt resolved, made its pipe or started `ssh` (a replacement during the sleep before is noticed, ssh.go:1049); found even under `Paced` |
| `givesup` | `GivesUp` | a tunnel that never gets through is reconnected for ever: `ssh` starts, which ends the `autoReconnect`, and exits within the confirmation window, which starts the next one with all its retries |
| `saved` | `RunsWhatIsSaved` | a connect beside a save runs settings that were never saved, or the ones before |
| `secret` | `SecretIsRead` | the key of an early build is not migrated on the first start, its password is lost; without `IOErrors`, so that the missing directory is the only cause |

`givesup` lets a window be confirmed (`MaxGen` = 1), and none is in its
counterexample: the living child, the timer and the user do nothing there that
the bound forbids.

What the statements of the passing runs leave open on purpose:

* `NewsIsCurrent` needs `Paced`. `Connect` queues "connecting" after it released
  the mutex (ssh.go:709), so a `Disconnect` in between has the last word
  "connecting". The application's callback repaints from `GetStatus` and does
  not use the argument, which limits the effect.
* `InOrder` and `NewestSurvives` except the message of `Connect`, for the same
  reason: it can be late, and on a full channel it can take the room a locked
  sender has just made, so that the newest message is lost.
* A terminal failure is dropped like any other message when it is the oldest of
  a full channel (ssh.go:176); nothing is claimed about it.
* `CondemnsJustly` is about an answer of the API. With the API down the
  heartbeat believes the resolver, and takes down a healthy tunnel when that
  one is behind. `FollowsRecord` does not promise that it comes back: it says
  that no tunnel stays up at an address the record has left. A reconnect may
  spend its attempts, or not be started, and then the tunnel is down until the
  user connects; a tunnel that keeps breaking, or that the user keeps
  connecting, is exempt.
* `NothingLost` says that the user's configuration still exists, not that the
  program uses it. When `migrateFile` cannot create the file, the program goes
  on with the defaults, without read-only protection because no file is what a
  new user has, too (main.go:110-119); once these are saved, `configFile` never
  looks at the old file again (paths.go:63). It stays beside the executable,
  complete and out of use. The same holds for a file torn by a failed copy.
* `SealHasKey` says that the key exists in one of its two places, not that the
  program looks there: a key file torn by a crash is never repaired
  (crypto.go:46), and a fresh key hides a legacy one (run `secret`).
* `ShowFromTray` is about a request made with no window. While a window is up,
  the consumer raises it; a request that was passed on for a window that is
  just opening stays in `showReq` and reopens the window once after it is
  closed (main.go:332). A request while the window is closing is taken by the
  consumer, which still believes the window alive, and lost (main.go:150).
* `Reachable` begins when the instance loads. Between taking the lock and
  opening the listener (main.go:63-104) a second launch finds nobody and ends.
* A crash between the copy and the removal of a migration leaves the old file
  beside the executable for good; `NothingLost` allows it.

### Fairness

`TunnelManager!FairSpec` assumes what the Go scheduler and the operating system
give: a goroutine that can take a step takes one (weak fairness per goroutine;
the timers it waits for fire), a killed child is reaped, and a `select` with
several ready cases, choosing at random, does not pass over a closed `StopCh`
for ever (strong fairness of `BeatStop`). Nothing is assumed of the user, nor
of a living child, nor that resolving ever succeeds. `ConnectStart` is not fair:
`WF` on the failing alternatives says that a `Connect` ends one way or the
other. In `NotifyQueue` senders and the dispatcher are weakly fair; the
callbacks return.

`ConnectUI!FairSpec`: frames come while the window is open (`queueUIFunc`
invalidates it), a frame and a write to the disk end, a goroutine goes on and
its timeouts expire. No click is fair. One step of a goroutine has no timeout of
its own, the kill, when it ends in `pkexec` (ssh.go:366): that it goes on is up
to the user, who answers or dismisses the prompt, and `ButtonsRecover` says
nothing of one that is left open. `AppLifecycle!FairSpec`: the consumer and
the window loop go on; nobody has to click, quit or crash. `DnsSources!FairSpec`:
a heartbeat ticks while its tunnel is up (ssh.go:858), a lookup and an attempt
end one way or the other, a cached record expires, and a resolver that is asked
again and again answers now and then (strong fairness of `Resolve`, which only
the heartbeat of a tunnel that stays up asks without end). That an attempt
succeeds is never assumed, nor that anybody connects; the API may fail for ever
and the tunnel may break.

## 4. Proofs

Every theorem holds for any sets and bounds its module's assumptions admit. TLC
evaluates these assumptions in the run of the module.

`TunnelManagerProofs`:

* `TypeCorrect`: `Spec => []TypeOK`. `TypeOK` says more than types: a goroutine
  past its lookup holds a connection and a process where it dereferences one.
  Not inductive alone: that a monitor reads a process from the connection it
  holds needs `Allocated`, that a connection anybody refers to has a process.
* `StopSafe`: `Spec => []StoppedIsDead`. Strengthened by `SlotLive` (the slot's
  connection is not stopped), which makes `ReconPublish`, guarded by the
  identity check, unable to put a living process into a stopped connection, and
  by `StartedFresh` (a `Connect` that has not stored yet holds a connection
  that is neither stopped nor in the map).
* `OneBeat`: `Spec => []OneBeatActs`, from `BeatGens`: of two heartbeats of one
  connection the generations differ, and none is ahead of the connection's.
* `KillsJudged`: `Spec => []BeatKillsJudged`, from `ConnDials`: an `SSHConn`'s
  address is the one its process was told to dial, published in one critical
  section.
* `ManualNoOrphan`: `~AutoReconnect => (Spec => []NoOrphan)`. With
  auto-reconnect the conclusion is false (run `orphan`) and needs `Paced`
  (`PacedNoOrphan`). The argument: no `autoReconnect` is ever started
  (`NoRecons`), and the process a `Connect` holds is that of the connection it
  made (`StartedOwn`), so that storing hands it over and losing kills it.
* `SomebodyAttends`: `Spec => []Attended`, inductive next to `SlotLive`, which
  says that a goroutine that ends on a closed `StopCh` does not leave the
  connection in the map.

`TunnelPacedProofs` proves what the run `paced` checks, for any number of
connections, processes and callers and any `MaxRetries`, with and without
auto-reconnect. All of it rests on one inductive invariant, `PInv`, whose parts
TLC confirmed on the instance of `paced` first:

* `HoldInv`, true of every schedule: the name of a process is free until the
  goroutine that started it publishes it. Goroutines are named by that process,
  so no monitor or reconnect is ever written over by another one.
* `Bridged`: whoever is in one of the gaps `Paced` closes is there because of
  the connection in the map, and every other monitor finds its `StopCh` closed.
  This is what `Paced` is good for, and where the proof uses it.
* `OneAttends`, itself the property of the run: the `Connect` that stored the
  connection, a monitor or a reconnect, one at a time. Not inductive alone:
  `ReconPublish` issues a second `go monitorProcess(id)` unless the monitor
  before it has ended.
* `Tended`, `Retried`: the monitor watches the connection's current process,
  which is dead by the time the exit is handled and therefore when a reconnect
  replaces it; only a confirmed monitor meets "running" or a DDNS mark.
* `Begun`: nobody else knows the connection of a `Connect` under way.

The theorems:

* `OneGoroutine`: `PacedSpec => []OneAttends`.
* `PacedNoOrphan`: `PacedSpec => []NoOrphan`. A publication replaces a dead
  process only (`Retried`), a store hands over the process of its own
  connection (`Begun`), and no holder is written over (`HoldInv`).
* `ImplementsSlot`: `PacedSpec => SlotSpec`, one lemma per goroutine (`Sim*`),
  one case per action: it is a move of the slot or unseen. It needs `Told`, that
  the newest message and the status agree except between a `Connect`'s store and
  its report; `final` could not be followed otherwise. `PacedNews`, for
  `NewsIsCurrent`, is a corollary.
* `PacedWatched`: `PacedSpec => []Watched`, from `Cared`: the goroutine that
  looks after the connection stays, hands over, or reports a terminal failure.
* `PacedMark`: `PacedSpec => []RestartMarkIsFresh`. A mark is set on a running
  connection only, with the kill of its process still to come; `Tended` and
  `Retried` say that neither a confirmation nor a publication, the two ways back
  to a living "running" process, meets one.

`NotifyQueueProofs` (`ReportsInOrder`, `NewestStays`, `QueueTypes`): the
invariant `Ordered` states the order of `seen`, the dispatcher's message and
the queue without concatenating them; `Holder` says that whoever sends under
the mutex reports the last transition and everything else sent so is older,
which makes appending keep the order; `Distinct` and `RoomMade` say that the
room a sender makes for the newest transition is only taken by a `Connect`.

`ConnectUIProofs` (`FlagsOwed`, `OneSection`, `UITypes`): a step is reduced to
what it does to the releases. Either the goroutines owe what they owed and at
most a closure without a release is queued (`QuietKeeps`), or one ends and
queues what it owed (`EndsKeeps`), or a click starts one. The invariants are
inductive next to `JobsOK`, that only a job without a release tests.

`AppLifecycleProofs` (`ConfigSurvives`, `KeySurvives`, `InstanceReachable`,
`LifecycleTypes`): `StoreInv` holds of the store under its own steps and under
the end of the process at any of them. It carries what `migrateFile` and
`loadOrCreateSecretKey` rely on from one operation to the next (`Migrating`,
`KeyMade`) and that what may be saved is the user's, or the defaults while the
user's own file is complete beside the executable (`Descends`, `Whole`), which is
where the read-only protection of a failed load comes in and where the order of
copying and removing does. It holds with and without `IOErrors`. `Reachable` needs
only `LockHeld`.

`DnsSourcesProofs`: `RowTrue` from `NewestKnows`, what the refresh that claimed
the generation last knows of domain and drop-in; `Composition`, that
`DnsSources` implements `ZoneSpec`, carries it over as `RowTrueBesideLookups`.
`DnsTypes` is the type invariant, `PagingSound` follows from
`Scanned`: a lookup nothing disturbed knows what the pages before its own say;
at the last page these are all records, because the assumption on `MaxRecords`
keeps the zone within the limit of pages. `CondemnsSound` follows.

Only model-checked: the liveness properties `DeathIsNoticed`, `BannerEnds`,
`BeatRetires`, `NeverStuck`, `ButtonsRecover`, `ShowFromTray` and
`FollowsRecord`, because fairness and ENABLED are out of the prover's reach.
Every other property of a passing run is a theorem.

## 5. Not modelled

* Building of command lines and parsing of tool output, request signing, the
  split of a host name, the generated resolver text, forms and their validation,
  drawing, logging, `cmd/querydns`, the vendored toolkit: sequential code with
  nothing to interleave. Their outcomes are free choices where they matter.
* `Stderr` as shared memory: a monitor of an old process may read what a new one
  wrote, and the exit status is a free choice anyway.
* Real time. That ssh may outlive the confirmation window without a session (the
  reason for `Connect`'s dial) is not visible: every window may be confirmed.
* The end of the program in the middle of a `Connect`. `AppLifecycle` has
  `DisconnectAll` as one step; a child between `cmd.Start` and its entry into
  the map is out of its reach in the code as well (hazard at main.go:166).
* `GetStatus` and `GetConnection` aside, readers of the manager's fields outside
  its mutex; `SetOnStatusChange` and `SetOnTerminalFailure`, called once.
* Two clicks in one frame, and settings other than the forward (they are saved
  and rolled back with it).
* A lock or a listener that fails for reasons of its own, and Windows' mutex and
  event in place of lock and socket.
* Several addresses per host, changes of a zone's name servers, and a drop-in
  edited by somebody else.

Where work would go on: the manager itself, in place of `TunnelSlot`, under the
shutdown of `AppLifecycle`.
