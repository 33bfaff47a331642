# A verification development for Rirei (Relay)

Rirei runs coding agents ("providers") for a task in a Git repository, in the
user's terminal or in terminals of a background daemon, and keeps what happened
in `.relay/state.json`. These modules model the parts of it whose correctness is
about interleavings, crashes and stale knowledge: the lock around the repository
state, the leases that give a worktree to one writing run, everything that can
start, end, orphan or recover such a run, the messages that runs leave for each
other, the daemon's terminals with their clients, and the activity feed that all
repositories share.

The modules are TLA+; TLC checks small instances, TLAPS proves the main
theorems for every value of the constants. File and line references are to this
repository (`src/...` below is the program's own `src` directory, `desktop/...`
its directory of that name).

## 1. Inventory

| Part | State it keeps | Operations | Modules |
| --- | --- | --- | --- |
| Directory lock, `src/state/lock.ts` | the directories `<name>.lock` and `<name>.lock.gate`, each with an `owner.json` | `withDirectoryLock`: acquire, reclaim, release | `DirLock`, `Mutex` |
| State store, `src/state/store.ts` | `state.json`: revision, task session, leases, run history, bounded ledger of operation ids; archives | `updateState`, `replaceState`, `archiveState` | `Runs` (atomic), `ActivityFeed` (its writes) |
| Leases, `src/state/leases.ts` | `state.runs` | acquire, release, orphan, touch | `Runs` |
| Session manager, `src/application/sessions.ts`, `src/lifecycle.ts` | `state.agentHistory`, a provider process per run | `startRun`, `finalize`, `finalizeTerminalRun`, `recoverOrphanedRun`, `submitOrphanBid` | `Runs`, `OrphanBids`, `Threads` |
| Controller identity, `src/application/controller.ts` | none; computed from clock and uptime | `currentBootId` | `BootId` |
| Heartbeat, `src/application/heartbeat.ts` | `lastSeenAt` of leases | `beat`, `orphanOwned` | `Runs` (`Leave`) |
| Reconciliation, `src/application/reconciliation.ts` | none; an inventory, candidates | `reconcileProjectRuns` | `Runs` |
| Bridge, `src/cli/bridge.ts`, `desktop/daemon-bridge-worker.mjs` | one worker process per daemon, killed on timeout | observe, register | `Runs`, `StateSync`, `DirLock` (`CrashInGate`) |
| Terminal daemon, `desktop/terminal-daemon-server.mjs` | terminals with status and sequence, connections, control, sync queues, output rings | start, stop, input, transition, attach, control, finalize, sync, forget, close | `TerminalDaemon`, `StateSync`, `OutputRing` |
| Finding the daemon, `src/platform/daemon-manager.ts`, `terminal-endpoint.ts`, `desktop/terminal-daemon-client.mjs` | the descriptor file, the endpoint (a socket file or a named pipe) | `ensureDaemon`, `connectOrStart`, the daemon's start and close | `DaemonStart` |
| Command line attach, `src/tui/attach.ts` | a cursor, a target, what is pending | replay, follow, control, detach | `AttachSession` |
| Desktop windows, `desktop/main.mjs`, `desktop/terminal-daemon-client.mjs`, `desktop/renderer/` | an inventory, one delivery per window and terminal, a tab's cursor | inventory, deliver, acknowledge, exit, reconnect, reload | `DesktopTerminal` |
| Task lifecycle, `src/cli/finish.ts`, `recover.ts`, `project-setup.ts` | `state.task`, the session id | start, finish, recover | `Runs`, `Threads` |
| Relay Threads, `src/messages/*` | a journal per task with messages and a ledger, capability descriptors | send, reply, read, acknowledge, inbox, expire | `Threads` |
| Activity feed, `src/state/activity.ts` | a source file per repository, a registry, `activity.json` | publish after updates and from timers, prune | `ActivityFeed` |
| Terminal journal, handoff, checkpoints, adapters, token usage, worktrees, platform services, user interfaces | files, provider logs, Git | parsing, formatting, calls of other programs | not modelled |

How they interact. Every process that changes the repository state does it in
`updateState`, under the repository lock. A *launcher* (`relay run`, `resume`,
`switch`) reads the state, inserts a run and its lease, spawns the provider,
waits for it, and finalizes the run. When the launcher was itself started in a
terminal of the daemon, the daemon sends that terminal's status through the
bridge worker, adopting the lease, and finalizes the run when the terminal's
process tree is gone. A client of the daemon fetches its inventory and
reconciles the leases with it. A user recovers orphaned runs, finishes tasks and
starts new ones. So up to five kinds of process decide about one lease, each on
knowledge that may be out of date when its update is applied. Messages live
beside the state in a journal with a lock of its own: sending takes both locks,
expiring only the journal's. The daemon's clients read a terminal's output by
cursor from a ring that goes on dropping its oldest bytes. After each update,
and from a timer while there are runs, a process publishes its repository's state
in the feed, under a third lock.

What is hard, and therefore modelled:

* the steps between two file system calls of the lock, and deaths there;
* the steps between reading the state, inserting, spawning and finalizing;
* late, repeated and reordered observations of a terminal;
* an inventory that is older than the launch it is compared with;
* a launcher, a daemon, or the whole machine going down at any point;
* updates that fail for good, and operations repeated after a bounded ledger has
  forgotten them;
* commands on messages that go on with the task and the run they resolved when
  they began;
* starts that are pending while the daemon counts its terminals, or closes;
* clients that find no daemon, clean up and start one, at the same time, while
  daemons die or close;
* calls that time out although they were applied, and queues that are dropped
  with a call under way;
* output, exits, responses and acknowledgements that cross, with connections
  lost and windows reloaded in between;
* states that are published in another order than they were written in.

The list of hazards, each at its line, with the properties that cover it or the
reason why none does, is in `PROJECT.json`.

## 2. The modules

### `DirLock`: the lock, one file system call at a time

`at[p]` is a process's next call; `exists` and `meta` are the directories and
the owners their `owner.json` names. `CreateGate`, `ReadGate` and `CheckGate`
are `acquireGate` with its `removeIfOwned`; `CreateLock`, `ReadLock` and
`RecreateLock` are the body of `acquire` under the gate; `CheckLock` is
`release`; `CheckOwnGate` is the `finally` that leaves the gate. `StatGate` and
`StatLock` are the `lstat` that follows an EPERM of Windows: where the directory is
gone by then the error is thrown. Every removal
is an `Unlink` and an `Rmdir`, because Node's recursive `rm` is: a file is
deleted, then the directory, and on `ENOTEMPTY` it starts again (`RmRetries`).
`AfterRm` is how each caller of the removal goes on.

Two constants are facts about the platform. `RenameOverEmpty` is TRUE on POSIX,
where `rename(2)` replaces an empty directory, and FALSE on Windows.
`CrashInGate` says whether a process may die while it works under the gate; the
bridge worker may, because the daemon kills it with SIGKILL after five seconds.

A random token is represented by the process that wrote it. A process does not
write with a token of another process's, and tokens of one process's successive
acquisitions need no distinction, since only a dead owner's token is ever
remembered by another process.

`Mutex` is the abstract specification: acquire, begin, finish, release, die.
`DirLock` implements it with `owner <- meta["lock"]` and
`working <- Working`, as long as the gate is respected.

The gate is a directory like the lock, but nothing serializes *its* removal. The
history variable `robbed` becomes TRUE when a process empties a gate that by then is
another living process's (`Robs`). `GateRespected` says that this never happens; it
fails in two ways (section 3, items 1 and 3). The properties of the lock
(`MutualExclusion`, `LockKept`, `ImplementsMutex`) are claimed up to that moment, on
every platform and wherever processes die; `GateSafe` says where it cannot come.

### `Runs`: runs, leases and everybody who decides about them

A launcher goes through `pc`: idle, prepared (`taskContext` has read the state),
inserted (history entry and lease are written), started, and, its provider gone,
orphaning or leaving, then gone. A run id is a pair of session and operation
(`runIdFor` hashes them), so a repeated operation has the same run.

One action is one `updateState`: the lock (module `DirLock`) makes the
read-modify-write atomic. `Insert`, `AlreadyStarted` and `Reject` are
the outcomes of `prepareRun`; `Finalize` is the launcher's end of the run,
`UpdateFails` an update whose retries are used up, `OrphanFinalize` and `Leave`
what remains to do then. An update may also be applied and fail all the same, when
the release of the lock throws after the rename (`Applied`, and the second outcome
of `ObserveExit`). `Observe`, `ObserveExit` and `Register` are the
bridge's three updates; `Transition`, `TerminalExit`, `Sync` and `SyncFails`
the daemon's side. `FetchInventory`, `Reconcile` and `ReconcileFinalize` are one
reconciliation; `ReconcileLocally` is the one without a daemon.
`RecoverOrphanedRun`, `BeginFinish`, `Finish` and `StartTask` are the user's.
`Crash`, `DaemonCrash` and `Reboot` are the environment's.

Abstractions. A status is `running` (starting, working), `waiting` (permission
or input), `stopping`, `orphaned`, or `closed` for the three finished states;
exit codes, classifications, runtimes, time stamps, events and journals
are left out, since no decision about a lease reads them. A controller is
the launcher itself (`owner = 0`) or a daemon instance, and the boot it is of.
`endedBy`, `pc`, `provider` and `boot` are facts of the world that the code
cannot see; guards use them only where the code asks the operating system (is
this pid alive?) or the user (is no provider running?).

Two constants are assumptions about the environment. `CarefulUser`: a forced
recovery is confirmed only when the launcher is gone as well as the provider.
`ClockSkew`: a reconciliation computes another boot id than the lease's, though
the boot is the same; `BootId` shows how far that can go.

### `BootId`: who computes which boot id

`currentBootId` reads the wall clock, then the uptime, and rounds the difference
to minutes. Processes read at different times, with a delay between the two
readings, before and after reboots.

### `OrphanBids`: taking over one orphaned run

`submitOrphanBid` stamps a bid (`Stamp`), records it under the lock, keeps the
newest ones and decides (`Submit`); a winner goes on to `Recover`; a lease that
is gone refuses both; a controller may die in between.

### `Threads`: the messages of runs and operator

`journal[s]` holds the messages of task `s` in the order of their sequence
numbers, `recent[s]` its ledger. A command first resolves the actor and the task
(`Resolve`: `token` and `session` are read without a lock, `service.ts` 116), and
then reads, writes or gives up (`OnMessage`, `GetInbox`, `Send`, `Abort`) on that knowledge.
`Send` is under the repository lock, so recipient and task are the current ones;
the others take the journal's lock only.

A launcher inserts its run (`Launch`), issues the capability and spawns
(`Spawn`), and at the end revokes the capability (`Revoke`), ends the run
(`EndRun`, or `EndRunFails`, which orphans it) and expires its messages
(`ExpireFor`): three separate steps, between any two of which it may die or be
overtaken. A terminal of the daemon has the same three steps (`DaemonEnd`,
`DaemonRevoke`, `DaemonExpire`). `RecoverOrphanedRun` neither revokes nor expires.
`BeginFinish`, `CloseTask` and `ExpireTask` are `relay finish`, which expires the
messages of the task that it had read, and `StartTask` is the next task.

The runs of this module are those of `Runs`, whose launch, end, orphaning and
recovery appear here as one action each, with the messages around them in full.

### `TerminalDaemon`: terminals and their clients

The daemon is one event loop: an action is what runs between two awaits.
`Start` checks the limits and claims the place while the host is created
(`HostCreated`, `HostFails`); `SetLifecycle` and `OutputAsks` are the two ways to
learn that a provider works or waits; `BeginWrite` and `EndWrite` are an input
before and after the host has taken it; `StopSome`, `StopAll` and `KillTimer` stop,
`BeginFinalize` and `Finalize` are the exit before and after the provider's result;
`BeginClose` to `CloseSevers` are the shutdown, and with `Exit` the daemon's process
ends, whatever is still under way (`Up`). Control is
kept twice, as the terminal's `controller` and the connection's `controlled`,
as in the code.

### `StateSync`: from a terminal to the repository state

The daemon's queue for one terminal: one call of the bridge under way, at most
one task that waits, joined by callers and raised in priority (`Queued`), begun
with a snapshot of the terminal as it is then (`Begun`). A call may be applied
and fail (`Apply`, `Return(FALSE)`). `finalize` sends the end up to three times
(`FinalizeSyncs`, `Retry`); afterwards the heartbeat does. Forgetting a terminal and
closing the daemon drop the queue (`Drop`), whose call goes on in `detached`,
beside a new queue's. A shutdown goes on to `Sever` the connections and to
`DaemonExits`: it waits for active terminals, not for one that is final and awaits its
synchronization. The bridge refuses a snapshot that is older than what it
has, and takes the end whatever its number, once (`Received`). `Touch` stands for what raises the sequence number and does not send it:
resizing, interrupting, hiding.

### `OutputRing`, `AttachSession`, `DesktopTerminal`: output

`OutputRing` is `appendOutput` and `outputSlice` as operators on a ring of
chunks; a byte is represented by its cursor, so what a reader shows says which
bytes it got. `AttachSession` composes it with the client of the command line:
replay, control, resize, then slices as long as it is behind, and the exit when
it has caught up. `DesktopTerminal` composes it with the desktop application:
the daemon, a connection that may be lost (`Drop`, `Reconnect`), the main
process that fetches output, hands it to the window in batches, each
acknowledged before the next, and holds the exit back until then, and a window
that may be reloaded. Frames that arrive together are handled one after the
other before anything that awaited them goes on (`resolved`), as Node does. The
handler of a page's inventory may await control of terminals (`handler`, `OnControl`);
when the page is reloaded meanwhile it goes on (`older`, `OldAnswer`) and replaces
the entry of the page that is there by then (`overwritten`). A terminal that has ended
may still change, when it is hidden, say (`Touch`, `OnTouched`): a page that has seen the newer
sequence drops an older exit (`GetExit`).

### `DaemonStart`: finding and starting the daemon

Two names are shared by everybody: the descriptor and the endpoint. A command
(`ensureDaemon`) reads the one, probes the other, removes both and spawns a
daemon, in steps of their own; the desktop (`connectOrStart`) only connects or
spawns. A daemon prepares the endpoint, binds it, writes the descriptor, and on
closing removes both again. `Answers` is what a probe finds: the daemon that
bound the name, if it still listens; with `SlowProbe` a probe may time out. With
`NamedPipe` an endpoint goes with its owner and cannot be removed by others.

### `ActivityFeed`: the state's files and the feed

`Begin` and `Commit` are an update: what is archived before, the temporary file,
the rename into place. `Publish` is `publishLocked` in its writes: source file,
registry, removal of the sources that have dropped out of it, `activity.json`;
`sync` is the publication after an update, with the state as it was when the
lock was released, `beat` the timer's, which reads the state first. `GiveUp` is a
publication that does not get the lock and is dropped. `Die` may happen between
any two writes; locks of a dead process are taken over (module `DirLock`).

### Proof and model modules

The proofs are in `ExclusionProofs` (lock and bids, and the boots as its instance
`Boot`), `RunsProofs`, `ThreadsProofs`, `DaemonProofs` (the daemon's terminals and their
status synchronization), `RingProofs` (the output ring), `AttachProofs` and
`WindowProofs`, which both extend it, and `ActivityFeedProofs`. The specifications of
`OrphanBids` and `StateSync` are called `BidsSpec` and `SyncSpec`, so that one module can
extend them beside `DirLock` and `TerminalDaemon`.
The modules whose names begin with `MC` give TLC the values of function constants and the symmetry sets.
Definitions whose comment begins with "Fault:" are variants of the definition
they precede, as a plausible mistake in the code would have it; no specification
uses them. Each property of a passing run is violated when the fault that
`PROJECT.json` names with it replaces the definition.

## 3. What the runs check

| Run | Instance | Result |
| --- | --- | --- |
| `dirlock_windows` | 3 callers, one death anywhere, 2 attempts, 1 retry of `rm`; rename never replaces a directory | `MutualExclusion`, `LockKept`, `ImplementsMutex` hold while the gate is respected, `NoOrphanDirectory`, `NeverStuck`, `CallAdvances` without that condition |
| `runs_terminal` | a daemon terminal and a user terminal, one worktree, 2 tasks; 1 crash, 2 daemons, 2 boots, 1 finish, 1 status change before the end | `OneWriter`, `WriterHoldsLease`, `LeasesMatchHistory`, `EndsOnce`, `NoRevival` hold |
| `runs_repeat` | 2 launches of one operation, ledger of 1, a crash, 2 updates that fail, applied or not, a finish, no status change before the stop, any user | `SpawnedOnce`, `ExitSettles` hold |
| `bids_contend` | 3 controllers, one bids higher, room for 2 bids, one death | `RecoveredOnce`, `BidsLeadToRelease` hold |
| `threads` | the operator, a run in a terminal of the daemon, a run in the user's; 2 tasks, 3 messages, 1 thread, 1 command under way, 1 death or failed update, 1 finish | `SentOnce`, `Readable`, `QueuedIsCared`, `ClosedTaskIsQuiet`, `ForwardOnly` hold |
| `daemon_terminals` | 2 clients, 2 terminals of which one may be active, up to the exit of the process | `WithinCapacity`, `ControlAgrees`, `NothingLeftRunning`, `NoWayBack`, `StopEnds` hold |
| `daemon_sync` | one terminal, 3 attempts as in the code, 5 sequence numbers, a shutdown | `ClearedMeansReceived`, `NeverBack`, `EndDelivered`, `ExitPublished` hold |
| `attach_output` | up to 6 bytes, written 1 to 3 at a time, through a ring of 3 in chunks and slices of 2 | `RingHoldsNewest`, `ShownInOrder`, `EndsWithLastByte`, `SessionEnds` hold |
| `desktop_window` | up to 5 bytes through the same ring, 1 lost connection, 1 reload, 1 change after the end | `ShownInOrder`, `ExitBelowOutput`, `ReloadPresentsExit` hold, with the exceptions that they name |
| `activity_feed` | 2 processes in one repository, 1 in another, room for one source, one death | `TasksArchived`, `SourcesHaveFiles`, `FeedCatchesUp` hold |
| `daemon_cleanup` | 2 commands, 3 daemons, socket files | `CleanupSparesLive` fails |
| `dirlock_posix` | 2 callers, no death, POSIX rename | `GateSerializes` fails |

Bounds. Three callers of the lock are a dead one and two that reclaim what it left:
its lock, its gate, or both. Two attempts and one retry exercise the retry and its
end. The claim for any number of callers, deaths, attempts and retries, and for POSIX, is proved. Two launches are the least that conflict over a worktree. A ledger
of one entry forgets an operation as soon as another is recorded, which a real
ledger (100 entries) does after a long time. One status change before a stop is
enough for an observation to be overtaken by a newer one; `runs_repeat` leaves
even that out, as it asks about launches and their ends. Two daemons, boots and
tasks are one restart each. Room for two bids (eight in the code) lets three
bidders displace a bid. Three messages are a message, a reply and an answer to
the reply; two threads in one task, and two
commands at once when nobody dies, were also checked, without finding more, and are
left out for the size. One active terminal of two lets a start wait for the
other's end; it makes the rule of one terminal for a working tree follow from the
limit, so that rule rests on the proof. Five sequence numbers are a status
change, a touch, the end and two heartbeats. One change after the end outdates a
pending exit, and one old handler beside the present page's is enough to replace its
entry. Six bytes overrun a ring of three by
whole chunks and by parts of one. One source makes two repositories displace each
other from the registry.
Deadlock is not checked where the bounded system stops: everything has ended and
nothing is left to do; in the runs of `DirLock` a caller may always call again, so
`NeverStuck` says instead that no caller is stuck.

Fairness. That calls of the lock end is checked without any: each file system call
brings its caller nearer to the end (`CallAdvances`, proved as well) and one is always
possible (`NeverStuck`), so a process that goes on comes to the end.
`dirlock_ends.cfg`, for two callers, checks the same as `CallEnds` under
`DirLock!FairSpec`: a process that is inside `lock.ts` goes on to its
next call; it need never call, and its function may never end. `Runs!FairSpec`:
a launcher goes on, and the daemon sees the end of a process tree and goes on
reporting (its timer fires every five seconds; strong fairness for the
observation itself, because a worker may be killed, but not for ever). A
provider need never exit, and no user need do anything. `BidsFairSpec`:
a recovery that has been started goes on unless its process dies.
`TerminalDaemon!FairSpec`: timers fire, a process that got SIGKILL is gone, its
end is seen, a host is created or fails; no client need do anything, and a process
need not exit on an interrupt; a shutdown that has begun goes on, and when the process exits
nothing else is promised (`StopEnds` ends there). `SyncFairSpec`: timers fire, a call
returns (the worker is killed after five seconds), and calls that are made again and
again are applied and succeed now and then, all as long as the daemon's process is
there; a shutdown may come at any time, or never. `AttachSession!FairSpec` and
`DesktopTerminal!FairSpec`: the daemon answers, frames and messages arrive, a
page that is loading asks, a lost connection is made again; the process need not
exit. `ActivityFeed!FairSpec`: a living process goes on and its timer fires; one
that tries for the activity lock again and again gets it in the end (strong
fairness: each attempt lasts five seconds, at random intervals).

### Where the code differs from what is said of it

1. *POSIX rename* (`dirlock_posix`). The removal of a gate is two calls. Between
   them the gate is an empty directory, and `rename` puts another caller's claim
   in its place. The remover's `rm` then finds a non-empty directory, retries, and
   deletes the other caller's `owner.json`: two processes are under the gate, or in
   the lock. The comment in `lock.ts` that the gate serializes does not hold
   there. The abstract mutex is claimed (and proved) on POSIX, too, but only until
   this happens (`robbed`).

2. *A live daemon is cleaned up* (`daemon_cleanup`). Two commands find no daemon.
   One of them cleans up and starts one; the other one then removes what it had
   found dead: the new daemon's descriptor and socket. That daemon keeps its
   sessions, a second one is started beside it, and no client finds the first. The
   comment in `daemon-manager.ts` (249) says "only when daemon is not live". With
   named pipes (`daemon_pipe_lost.cfg`) the descriptor alone is lost, and every
   later command fails with "its descriptor is invalid". `prepareSocket` and
   `close` of the daemon have the same gap between their look and their removal.

Others are shown by configurations that are kept beside the runs, or by a
change of one constant:

3. *Death under the gate* (`dirlock_gate_death.cfg`). `removeIfOwned` compares the
   token and removes the directory afterwards. Two callers that find a dead process's
   gate both remove it: the second one empties what the first one, or a third, has put
   there by then, and two processes are under the gate. `GateRespected` fails on the
   instance of `dirlock_windows`, on every platform: a death under the gate is enough,
   and the daemon causes one when it kills its worker. Beyond
   that point the instance violates `LockKept` as well, if `robbed` is taken out of it. A death in
   the middle of a removal leaves a directory without metadata, which is never stale: on
   Windows every later caller gives up (`NoOrphanDirectory` names exactly this exception).
4. *Boot ids* (`runs_skewed_boot.cfg`). Two processes of one boot may compute ids
   that differ by one. With `ClockSkew`, an inventory fetched before a launch and
   a reconciliation after it finalize a live run: `OneWriter` fails.
5. *A late stop* (`runs_late_observation.cfg`). `stopping` is accepted for a
   finished run, and stays: `FinalizedStaysClosed` fails (docs/changelog.md 197).
6. *Two winners, or none* (`bids_two_winners.cfg`, `bids_dead_winner.cfg`). Bids are
   stamped before the lock, and the newest eight are kept, so two controllers may be
   told that they won; `RecoveredOnce` says what is true instead. A controller that wins
   and then dies, or fails, before it recovers the run blocks every later one: among
   equal priorities the earlier bid is the better one, and each `relay recover` is a
   new controller that bids the same priority, one, later than all the bids recorded.
   When eight newer bids have displaced the dead one's, the earliest of those is the
   bid of a command that was refused and is gone, and the next one loses to that.
   `RefusedForTheLiving` fails, against
   `docs/state-and-events.md` (157-160), where a controller that wins takes the run over.
7. *Two finishes.* With a second finisher the instance of `threads` violates
   `ClosedTaskIsQuiet`: the closing mutation of `finish.ts` (67) does not compare
   the session, so a finish that outlasts its task closes the next one and then
   expires the messages of the previous one, against `docs/relay-threads.md` (34).
8. *A missed exit.* `WindowPresentsExit` of `DesktopTerminal` fails: an exit
   published after the answer to the window's inventory and before the page says
   that it is ready finds no ready renderer, and the inventory item that the page
   got does not have it (`main.mjs` 901-944, 1928-1966; `docs/desktop.md` 345
   promises it). A reload presents it (`ReloadPresentsExit`), but not always:
   `EveryReloadPresentsExit` fails in two ways. An inventory handler of the page before
   the reload still awaits control of another terminal, and when it goes on it replaces
   the entry that holds the new page's exit by one without it (`main.mjs` 1935-1959,
   `desktop_overlap.cfg`); the output from there on is also sent twice. Or the terminal is
   hidden after its end while the exit waits for an acknowledgement: the page sees the
   newer sequence first and drops the exit as old (`renderer.js` 404-408,
   `desktop_hidden.cfg`).
9. *An end that nobody learns of.* A daemon that shuts down waits six seconds, and
   only for active terminals. A provider's result that takes longer to be read, or the
   synchronization of a terminal that is final already, is cut off by `process.exit`:
   its exit is not published and its end not synchronized. `StopEnds` and
   `ExitPublished` except this; reconciliation settles such a run later.

Seen with the same modules, too:

* With `CarefulUser = FALSE` the instance of `runs_terminal` violates `OneWriter`,
  a run being recovered between its insertion and its spawn. An inventory older
  than the launch makes a reconciliation orphan the lease of a live terminal.
* With two tasks and one failing update the instance of `runs_repeat` violates
  `ExitSettles`: a late finalization of an earlier task's run is recorded in the
  new task's ledger, the repeated operation's own finalization is taken for done, and
  when `orphanOwned` fails as well the lease looks alive.
* A release that cannot enter the gate leaves the lock behind although
  its process lives on; the update before it was applied all the same, and its caller
  gets an error.
* A recovery by hand neither revokes the run's capability nor expires its
  messages; `QueuedIsCared` exempts it (`abandoned`).
* A client of the command line that gets control of a terminal which ends before
  its first resize fails with `not_controller`, without having shown the replay
  (`AttachSession`, end `error`).
* A page that is reloaded while the daemon cannot be reached never becomes ready;
  the answer of a start overwrites the main process's inventory with an older snapshot
  (`main.mjs` 1132-1175).
* A timer's publication that read a state without sessions stops the timer of a
  run that began meanwhile, until the next update; a death between registry and
  removal leaves the file of a source that nobody removes.

## 4. What is proved

Every theorem holds for any values of the constants that meet the modules'
assumptions.

`ExclusionProofs`, of the lock, on every platform, for any number of callers, deaths,
attempts and retries:

* `TypeCorrect`, `NoOrphanHolds`, and `CallAdvancesHolds`;
* `LockInvariant`, and from it `Exclusion`, `AtLockExclusion`, `LockIsKept`, whose
  statements hold until a living process's gate is emptied by another (`~robbed`);
* `RefinesMutex`: until then `DirLock` implements `Mutex`. Every step is the mutex's
  acquire, begin, finish, release or death, or a stutter;
* `GateRespectedHolds`: under `GateSafe` that never happens. `GateSafe` is that no process
  dies under the gate, and that either rename refuses an emptied directory or `rm` does
  not come back to a directory that it has emptied.

The condition is a state, not an assumption on the platform: with `CrashInGate` and on
POSIX the theorems say what is true up to the first robbery, and that
nothing else can break the lock. It is tight: in `dirlock_gate_death.cfg` and
`dirlock_posix.cfg`, each without one half of `GateSafe`, the gate is robbed.

`LockInv` is stronger than mutual exclusion because exclusion follows only from who
holds the gate: a process at work on the lock owns the gate (`HoldsGate`), a removal of
the lock under way was justified when it began and still is (`RmJustified`), a process
whose function runs, or is about to, is the one the lock names (`Owns`). Nobody need
be alone in *leaving* the gate, which a death may leave to several. `GateInv` adds, under
`GateSafe`, that the gate names a living process that has not emptied it (`GateOwner`),
so that nobody finds it stale. `NoOrphanDirectory` is inductive with the types alone: a
directory without an owner is written by the step that creates it or left by a death
inside `rm`. `CallAdvances` needs that no counter passes its limit (`CountInv`); the
rest is arithmetic on what is left of a call (`Remaining`).

`RunsProofs`, assuming `Trusted` (a careful user, no clock skew):

* `WriterInvariant`: `Spec => []WriterInv`;
* `OneWriterHolds`, `WriterHoldsLeaseHolds`, `SpawnedOnceHolds`,
  `LeasesMatchHistoryHolds`.

The argument. From its insertion until its provider is gone, a launch *claims*
its worktree: its session is current and active and its lease stands
(`Placed`). Leases of one worktree are unique (`LeasesMatchHistory`), so two
claims on it are one. What has to be shown is that nobody ends a claimed run
from outside: a recovery requires an orphaned lease whose launcher is gone; the
daemon and the reconciliation finalize only what is gone (`TreeGone`), or what
is of an earlier boot, whose processes are gone (`EarlierBootGone`); finishing
and starting tasks need an empty lease table. A history entry's launcher is
settled for good (`HistoryOwned`), which rules out a repeated launch. All of
it is inductive together. The lemma `OutsideStep` carries the common argument:
an update of the records that ends a set `E` of runs none of which is claimed,
and otherwise at most changes statuses, sequences and owners, preserves the
invariant; each action's lemma names its `E`.

Of the history, under the same `Trusted`:

* `EndsOnceHolds`, `NoRevivalHolds`.

They say what one step may do to the history and the leases, so each mutation is
looked at by itself: it ends a run (`EndRunStep`), orphans leases
(`MarkOrphanedStep`), moves a lease with its terminal (`ObserveStep`,
`RegisterStep`), gives it to a new daemon (`ReconcileStep`), or inserts one
(`InsertStep`). `WriterInv` gives the two facts that a mutation does not show by
itself: a run that is given a lease had no history, and a run whose
lease ends has one.

`ThreadsProofs`:

* `ThreadsInvariant`, and from it `SentOnceHolds`, `QueuedIsCaredHolds` and
  `ForwardOnlyHolds`;
* `ReadableHolds`, and `ClosedTaskIsQuietHolds` under `OneFinish`.

A step either rewrites a journal message by message (`RewriteStep`: reads,
acknowledgements, expiries) or appends one (`AppendStep`); the lemmas about
journals say what either does. `SentOnce` needs that the ledger, although it is
bounded, still has an entry for each message that carries an operation id: it
keeps as many entries as a journal may hold messages. `QueuedIsCared` needs where
launcher and daemon are: whoever takes a run's lease away is the one that
expires its messages next, or is gone (`abandoned`), and a message is queued
under the repository lock only for a run that has its lease.

`Readable` is proved beside it (`ReadableMessages`): a rewriting changes how a message
was delivered, and no acknowledged one back; a message that is appended begins a
thread within the limit, or answers one as the schema asks (`Fits`), because the
command checks it under the lock against the journal that it appends to.
`ClosedTaskIsQuiet` needs where the finish command is (`FinishInv`: the session it
has read is the one it closes and then expires), which holds only if one command
finishes tasks at a time (`OneFinish`). The run `threads` has one as well; what two
do is item 7 of section 3.

`DaemonProofs`, of the terminals:

* `DaemonInvariant`, and from it `CapacityHolds`, `ControlAgreesHolds`,
  `NothingIsLeftRunning` and `NoWayBackHolds`.

A terminal counts from its claim until it has ended (`RoomInv`), and a process is
alive only in a terminal that counts (`ProcessInv`), so the limits on terminals
bound the processes. When the starts have settled no claim is left, and
when the daemon has killed, every process that lives was killed (`ClosingInv`).

`DaemonProofs`, of the synchronization:

* `SyncInvariant`, and from it `ClearedHolds` and `NeverBackHolds`.

That the newest received snapshot never loses the end does not follow from the
comparison of sequence numbers alone: the bridge accepts a snapshot whose number
equals the one it has. The
invariant says that every snapshot with the end, received or under way, is younger
than every one without it (`Before`), and that whoever awaits a task awaits one
that carries the end (`Carries`, `Waits`); so a success that clears
`stateSyncPending` is that of a call that has been applied with the end.
Calls begin younger than all that were there (`StepTaken`), and one that is
applied late is refused or changes nothing for the others (`ReceiveTaken`).

`ExclusionProofs`, of the bids:

* `BidsInvariant`, and from it `RecoveredOnceHolds`.

The invariant says where a bid and a win can be: who has not
bid has neither (`NotYet`), and a run that is still orphaned has been recovered by
nobody, so that one recovers it (`OneRecovered`). `NewestAre` says which bids are
left when the oldest are dropped, for any number that is kept.

`RingProofs` and `AttachProofs`, assuming that ring, chunks and slices may hold a byte
at least (`RingAssumption`), that chunks have bytes and `None` is no request
(`SessionAssumption`):

* `RingHoldsNewestHolds`, `ShownInOrderHolds`, `EndsWithLastByteHolds`.

The ring trims itself with a fold over its chunks. What that computes is proved by
induction over a range of numbers, which rests on the well-foundedness of the strict
subset relation on finite sets (`RangeInduction`): until the loop has dropped enough it
has dropped one chunk a round (`Trimming`), what is left follows one another without
a gap (`Linked`), and in the end it is the newest bytes, as many as fit (`Newest`). A slice then begins where the
client's cursor is, or where the ring does (`Continues`), and showing it keeps what
is shown up to the new cursor (`SliceContinues`, `ShowMore`). The session's
invariant is in parts: output events arrive in order (`InOrder`), one request at
most is unanswered (`OneAnswer`), of the kind the phase waits for (`ByPhase`), what
is on its way tells the truth of the terminal (`OnItsWay`), and a client that has
heard of the end knows how far to read, or will with the slice it awaits
(`KnowsEnd`), for which the daemon's frames must keep their order.

`WindowProofs`, over the same lemmas of the ring, assuming `WindowAssumption`:

* `WindowInvariant`, and from it `ShownInOrderHolds` and `ExitBelowOutputHolds`, all of them
  until an old page's handler replaces the present page's entry (`overwritten`).

The window's output passes three buffers (`requests`, `channel`, `resolved`) and the
main process's entry before it is shown, and each can belong to an old page or to
a lost connection. `FetchInv` says that in all three together at most one batch, or
one step of `terminal-inventory`, is awaited for the present page, and that it
continues where the entry stands; answers for older pages name an older generation and
are dropped. `PresentInv` says where entry and page are: until the page is ready
nothing but its inventory is on its way (`Loading`), and then everything has been
acknowledged, or one batch is on its way to the page, or one acknowledgement on its
way back (`Idle`, `Sending`, `Acknowledging`), and an exit is on its way only when the
page shows everything (`ExitLast`). `Honest` and `FinalLast` say what daemon and main
process may believe of the end. A change after the end (`TouchKeeps`, `TouchedKeeps`)
carries no byte, and an old page's handler that finds the present one still under way
leaves everything to it (`OldAnswerKeeps`). Without the condition `ShownInOrder` fails: the
replaced entry begins again at the oldest byte and sends what was shown.

`ActivityFeedProofs`:

* `TasksArchivedHolds`, from `ArchiveInv`; `SourcesHaveFilesHolds` and
  `RegistryHolds`, from `FeedInv`.

`ArchiveInv` says that a process with a temporary file has the repository lock and
writes the same task, or the next one after it has archived the current one as it
is (`AtWork`). `FeedInv` says that a publisher holds the activity lock from its first
write to its last (`UnderLock`), and that a registered source is registered once,
has a file, and is not among those still to be removed (`Registered`). That
nobody is registered twice is what makes it sound to take a source out of the
registry at its first place; `RegistryHolds` proves it, for any limit.

*Boot ids* (`ExclusionProofs`, `Boot`). The identity a process computes is the rounded time
of its boot, or of up to `MaxDelay` before it (`IdentityNearBoot`), because the
reading of the clock it starts from is at most that old (`ReadingsInTime`).
Rounding moves a time by at most half a minute (`RoundedBounds`), so boots two
minutes apart stay apart if `MaxDelay` is a minute at most (`Prompt`). The proof
takes the place of a run; `bootid_apart.cfg` checks a small instance.

Only model-checked: `NeverStuck`, and the liveness properties `CallEnds`, `ExitSettles`,
`BidsLeadToRelease`, `StopEnds`, `EndDelivered`, `ExitPublished`, `SessionEnds`,
`ReloadPresentsExit` and `FeedCatchesUp`, which are out of TLAPS's reach
(fairness and ENABLED); and `DaemonStart`, of which a run shows that a
promise fails (`daemon_cleanup`) and no theorem is stated. The model has no `RECURSIVE` operator
where something is proved: the loops of the code are folds and functions on the
natural numbers, and each induction about them is over a set, as the installed
provers cannot use the library's induction theorems, which take an operator.

## 5. What is not modelled

* Leases of another host, which reconciliation leaves alone; pid reuse: a dead
  pid is taken for dead, as the code does; a reused one would make a lease look
  alive, which is the safe side.
* The state store's migrations; handoff documents, checkpoints, exit
  classification, limit detection, token usage: data and text.
* Worktrees and Git: calls of another program; a worktree is a value. That a
  process may die between the creation of a worktree and its registration is not
  covered by any property.
* The state journal, which no decision reads, and the terminal journal, whose
  lock is taken over by age without a promise of exclusion.
* The user's promise in `relay recover --force` beyond `CarefulUser`.
* Of the daemon: the handshake, resizing and hiding except as `Touch`,
  approvals, and the bridge that runs in the daemon's own process
  (`forcePythonBridge`). Of the desktop: more than one window or terminal,
  whose deliveries are independent but for control, which is granted or refused
  at will; a second old handler beside the first one; a change of the project while answers for another one
  are awaited (`renderer.js`); menus, preferences,
  updates and the screen.
* Of the activity feed: staleness by age, updates that change nothing, and its own copy
  of the lock's protocol, which is taken as atomic. Registry entries are ordered by
  time stamps: a common clock is assumed.
* The lifecycle wrappers of providers, which translate events into attention
  states, and the user interfaces.

## 6. Plan

In order: what holds of `DaemonStart` when clients do not overlap, as a theorem; the
worktree registry with deaths between Git's calls and its own; the terminal
journal; two windows that contend for control.
