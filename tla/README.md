# A TLA+ verification of OpenVHost

OpenVHost is a local development environment: a desktop app (Rust, Tauri,
Svelte) that supervises nginx, php-fpm, MySQL and MariaDB, renders their
configuration from a small store of sites and settings, installs packages, and
can be driven from its window, a tray menu and a control socket with a CLI.
Most of it is sequential. What is hard is the place where these parts meet:
asynchronous service tasks, several callers without a common lock, a process
that can die at any moment while its children live on, and files that are live
as soon as they are written. That is what these modules are about.

Paths below are relative to the repository. `proc` stands for
`crates/openvhost-proc/src`, `core` for `crates/openvhost-core/src`, `pkg` for
`crates/openvhost-pkg/src`, `desktop` for `apps/desktop/src-tauri/src`.

## 1. The system

### Components

| component | state it keeps | operations | talks to |
|---|---|---|---|
| **Supervisor** `proc/supervisor.rs`, `service_task.rs`, `state.rs`, `events.rs` | `entries` (state, pid, stop sender, stop flag, logs) under one mutex; per run a task with a child, a capacity-1 stop channel and reader tasks | `register`, `unregister`, `start`, `stop`, `snapshot`; the task's spawn, readiness, teardown, classification | broadcasts events; writes orphan records |
| **Orphan cleanup** `proc/orphan/*` | `run/supervised.json` (pid and start time per service, boot id), `run/lock` | acquire the lock, reap, record, forget | the supervisor and the launch |
| **Control verbs** `desktop/control.rs` | per call: its receiver, target and phase | start, stop, restart, stop_all, status | supervisor, quit |
| **Control socket** `proc/control/*` | the socket's path, connection slots | bind, accept, read a request, answer, unlink | control verbs, CLI |
| **Quit** `desktop/quit.rs` | `Quitting`, `UiReady`, the loop of `stop_all_with` | close handshake, `perform_quit`, `abort_pending_install` | supervisor, socket, install lock |
| **Site apply** `desktop/commands.rs`, `core/site/apply/*` | `ApplyLock`, the generated tree | `plan_config_apply`, `apply_config`: plan, commit, validate, rollback, restart | store, nginx -t, supervisor |
| **Store** `core/db`, `core/site/repo.rs`, `core/settings_repo.rs` | `state.db` | create, update, delete a site, save settings | site apply |
| **Tray** `desktop/tray/*` | `TrayInitiated` marks, the bulk lock, the last menu | start all, stop all, a row's click, refresh | supervisor, apply lock |
| **Packages** `desktop/commands.rs`, `desktop/*_pkg.rs`, `desktop/uninstall/*`, `proc/task.rs`, `pkg/*`, `core/*/package` | install lock with a running slot, staging directories, `current` link, ledger, managed lists | install, cancel, uninstall, rescan | supervisor (register, unregister), quit |
| **Database instances** `core/mysql`, `core/mariadb`, `desktop/mysql_admin.rs` | data directories, stored credentials | initialise, adopt, reset a password | supervisor, store |
| **Boot** `desktop/boot.rs`, `lib.rs`, `stack.rs` | what is managed by the app | lock, reap, open the store, discover, register, pump events | all of the above |
| **Discovery, config rendering** `core/discovery.rs`, `core/*/discover.rs`, `crates/openvhost-conf` | none | pure functions of the file system or of the store | boot, rescan, apply |
| **Logs** `core/logs`, `proc/log.rs` | ring buffers, the stderr tail | append, tail | supervisor, UI |
| **CLI, CLI installer, UI, build scripts** | none, or that of a page | one request and its answer; presentation | control socket, commands |

### How they interact

Every caller (a Tauri command, a tray click, a control request, an Apply, the
quit) calls the supervisor directly; only its own mutex orders them. A service
task announces what it did on a broadcast channel *after* it has released that
mutex, so an event can be late; a slow receiver loses events. Long operations
have locks of their own (`ApplyLock`, the install lock, the bulk lock), and none
of them is taken by start and stop of a single service. The only state that
survives a crash is on disk: the orphan records, the generated configuration,
`state.db`, the package tree and the data directories.

### What makes it hard

* *Interleaving*: two starts of a service; a start while it is unregistered; a
  stop during start-up; a late task against the next run of the same service.
* *Ordering*: events behind the state they announce, lagging receivers, a start
  that overtakes the stop it was meant to follow.
* *Crashes*: children that outlive the app, reused pids, reboots, a commit
  interrupted between two files.
* *Time*: a probe deadline before a grace period before a kill, a drain after
  it, and callers with deadlines of their own around all of that.
* *Partial failure*: a write that fails half-way, and a rollback that fails too.
* *Stale reads*: a snapshot or a gate read once and used much later.

`PROJECT.json` lists each hazard at its line with the property that covers it,
or why none does yet.

### What makes each component correct

* Supervisor: one run per service; no live child without a row that shows it; a
  stop is never lost; a run's verdict is about that run; stops complete.
* Orphan cleanup: kill only what is ours and unsupervised; never lose the record
  of something that should still be killed.
* Control verbs: no call waits for what has already happened; a restart that
  reports success restarted something.
* Quit: ends; leaves nothing running that it could have stopped.
* Apply: a failed Apply leaves the tree as it was, or says what it could not
  restore; services are restarted only on what was validated.
* Packages: what is selected and listed is a complete installation; only an
  uninstall takes a version away; a removal that reports Done has removed; an
  operation ends and gives the install lock back, however its run ends.
* Database instances: a datadir is put in place once, whole and with its root
  password set; the user's files are never replaced; the password the server
  asks for is the one that is stored, or about to be.
* Tray: a failure dialog belongs to a start of the tray; the menu ends up showing
  what is; bulk actions and Apply never work on the services at the same time;
  one service per endpoint.

## 2. The modules

| module | stands for | role |
|---|---|---|
| `ServiceLifecycle` | what a service promises to its callers | abstract specification |
| `Supervisor` | `proc/supervisor.rs`, `service_task.rs`, `state.rs` | component |
| `LifecycleRefinement` | — | `Supervisor` implements `ServiceLifecycle` |
| `SupervisorProofs` | — | theorems about `Supervisor`, its refinement and `ControlVerbs` |
| `ControlVerbs` | `desktop/control.rs`, on top of `Supervisor` | composition |
| `OrphanReap` | `proc/orphan/*` and the launch that uses it | component |
| `OrphanReapProofs` | — | theorems about `OrphanReap` |
| `StopSweep` | `quit::stop_all_with` over a timed, reduced supervisor | component |
| `AppQuit` | `perform_quit`, the control gate, the user; extends `StopSweep` | composition |
| `StopSweepProofs` | — | lemmas about `StopSweep`, for the two modules that use it |
| `AppQuitProofs` | — | theorems about `AppQuit` |
| `ConfigCommit` | `apply_config` up to the restart, `core/site/apply` | component |
| `SiteApply` | `apply_config` as a whole: `ConfigCommit` and `StopSweep` | composition |
| `SiteApplyProofs` | — | theorems about `SiteApply` and the `ConfigCommit` in it |
| `Packages` | install, uninstall and rescan of one package family: `desktop/commands.rs`, `uninstall/run.rs`, `proc/task.rs`, `pkg/*` | component with its memory and its disk |
| `PackagesProofs` | — | theorems about `Packages` |
| `InstanceInit` | initialising a database and its root password: `core/mysql/init.rs`, `core/mariadb/init.rs`, `desktop/commands.rs` | component |
| `InstanceInitProofs` | — | theorems about `InstanceInit` |
| `Tray` | `desktop/tray/*`, the bulk locks, the control socket's stop-all | composition over a reduced supervisor |
| `TrayProofs` | — | theorems about `Tray` |
| `MC*` | — | constants, symmetry and constraints for TLC |

Definitions named "mutated form of ..." state a plausible mistake next to the
definition they would replace; no specification uses them. They show for each
property a change of the code that would break it.

### Supervisor

A step is one critical section of the entry mutex, one system call, or one point
at which a task resumes; whatever the runtime may interleave is interleaved. A
*run* is one execution of `service_task::run` with its child and its stop
channel; a *flag* is the `stop_requested` cell of a registration. Both are
identities that may be used again once nothing refers to them, which keeps the
state finite without bounding the number of starts.

`Start` is the locked block of `Supervisor::start` (guard, reset of the flag,
fresh channel, write of Starting) and `AnnounceStart` the broadcast after it.
`Stop` sets the flag under the mutex and takes a clone of the sender, `TrySend`
sends later and may find the channel full. A task goes through `pc`: spawning,
pid, recording, readiness, ready, announcingRunning, running, terminating,
killed, draining, removing, settling, announcingTerminal. With a Command probe
the stop channel is not read until the probe has decided, as in
`run_command_probe`. `child` is the process: it may exit at any time, ignores
SIGTERM if it likes, and is killed by `GraceElapsed` and `KillLands`.
`Justified` is what `classify_exit` and `classify_exit_during_probe` may answer.
`registry` is the crash-orphan record.

Abstracted: the text of logs and of the stderr tail, the readers themselves
(draining is one point), exit codes (clean or not), spec contents.

`ServiceLifecycle` says the same in terms of three functions of the service: the
state a snapshot shows, the process of the current run, and whether a stop has
been accepted. The refinement mapping finds the current run through the sender
that the entry holds.

### ControlVerbs

Extends `Supervisor` by calls in the phases admitting (subscribe, snapshot),
kicking, waiting, answered. `inbox` is the call's broadcast receiver, reduced to
the events that would end its wait; all others only take room, so a receiver may
lag at any moment (`LogOverflow`), after which the call reads a snapshot, as
`await_settled` does. An Unregistered event is sent after the removal, from
outside the mutex (`unannounced`). `TimesOut` may happen at any time. The
subscription of a restart's second half is merged with the answer of its first.
`past` keeps three history facts used by properties only.

### OrphanReap

Two instances of the app, a registry file, the lock, and the system's table of
processes. An instance is launched, retries the lock once, is refused or reaps
record by record, and only then registers and starts services. It may crash or
quit between any two steps; processes exit, leave group workers behind, and their
pids are given to others; a reboot or a step of the clock makes the boot id of
the file stale. `Reap` is one record of `reap_orphans` with all its outcomes: the
start time cannot be read (`Leave`); it is another process's, or nobody's, and
the record is dropped; it matches, and the kill takes the group or, when the
process does not lead one, that process alone (`Kill`), or is refused
(`KillFails`), and the record is dropped all the same. The removal of a record
may itself fail (`Forget`). `spared` and `left` are history: a process whose kill
was refused, and services whose record the last launch had to leave behind,
because nothing could be read or because neither kill nor removal succeeded. The
check of a process's start time and the kill are one step: the code keeps them
adjacent and no portable call joins them, so the model assumes that the pid is
not reused in that instant, and that a SIGKILL the system accepts takes effect
at once.

### StopSweep and AppQuit

`StopSweep` is the loop: snapshot, done if nothing is pending, give up at the
timeout, otherwise ask every pending service to stop and sleep. The supervisor
is reduced to stages with timers (readiness, grace, drain). Time advances in
ticks of a poll interval; whatever needs no timer happens within the tick in
which it becomes possible (`Urgent`), so a tick may not pass while the loop has
to look or a run has a stop to read. `kept`, `settled` and `early` are history:
which services were pending, or past their readiness, when the loop first or
last looked and have not been started since.

`AppQuit` runs it as `perform_quit` does: mark, unlink the socket, abort an
install, stop everything, destroy the window, which may fail and be tried again.
A control call passes the `Quitting` gate once and then takes its time; the user
clicks start and stop without any gate.

### ConfigCommit and SiteApply

A call of `apply_config` waits for `ApplyLock`, reads the store file by file (the
sites, the settings and the default PHP are separate queries, and edits go on),
diffs the result against disk, writes or removes one file per step, runs
`nginx -t` on what is on disk, and on any failure restores what the plan found,
going on past files it cannot restore (`stranded`). A text is good or bad; that
`nginx -t` rejects a set with a bad text is the operator `Accepts`, and it may
also fail to run at all. The code writes in the order of the paths; the model
takes any order. Temporary files are invisible to the plan and left out. The
symlink refusals of the scan are an error of the plan. A crash may come between
any two steps and leaves the disk as it is.

`SiteApply` adds the restart: the snapshot of what is Running, the stop loop of
`StopSweep` with its 10 s, the start of what has stopped, and everything else in
needs_attention. A child reads its files once, while it comes up: `loaded` is
the set it has read. The user starts and stops services throughout.

### Packages

One family: PHP 8.4, MySQL 8.4 or MariaDB. Families share the install lock and
nothing else, so another family's command only makes this one wait.

`op` is the command that holds `InstallLock.guard`, with its program counter;
`task` the run it has spawned; `slot` is `InstallLock.running`, filled by
`SetRunning` one step *after* the spawn, as in the code, so that a cancel or a
quit may find it empty. An install is `StartInstall`, `SetRunning`, the run, and
`Wake`, then the discovery behind it. The run is `Fetch` (checking, downloading, extracting,
warming), `Promote` (the one rename), `Link` (the swing of `current`), `Record`
(the ledger's row), or `BrewSpawn` to `Drained` for a Homebrew formula, where
`run_task` waits for the child and then for its pipes. A cancel or a quit marks
the run as aborted and `TakeAbort` drops its future at whichever await it is in;
there is none between rename and swing. An uninstall is `StartUninstall`,
`Decide` (the blockers, read again under the lock), brew or `RemoveSome` and
`Removed`, then link, generated file, row. A rescan discovers (`probing`),
merges into the managed list and registers rows, in that order and with other
events in between. `tree`, `cur`, `keg` and `ledger` survive `Crash`; `Launch`
discovers again. `past.excused` and `past.maimed` are history: that brew, a
failed swing or an abort has changed the disk without a rescan, and that a
removal has begun on it.

Abstracted: downloading and verifying are one stage each, a directory is absent,
whole, damaged (the server binary is still there) or gutted, brew does its work
at some point before it exits, path confinement is a failure of the removal.

### InstanceInit

An attempt goes through rendering, initializing, polling, setting, stopping,
waiting, finalizing; each can fail, and every failure kills the temporary
server and removes the staging directory if it can (`Fails`). `staged` is the
staging directory: partial, or what the root password in it is. `server` is
the attempt's temporary server; `stray` one that outlived its app and still
answers at the socket of the same name; `loose` an installer that did, because
MariaDB's has no guard at an abort. `Answering` says whom a client reaches.
`Finalize` is the rename, and the only step that makes `data` ready. The command
then stores the password (`Store`) and registers the row; a rescan sweeps the
staging directories (MySQL's only) and gives a row to a datadir that has none.
`Sweep` takes every directory of that name's shape, as in the code, also one an
attempt is filling; only the install lock, and that a launch comes before
everything else, keep the two apart, which is what `StagingIsKept` says.
A reset of the password reads, connects, alters and stores, *outside* the
install lock, so two of them may overlap. `past` records a crash that left a
server behind, a password lost by a failed write, and overlapping resets.

### Tray

Extends nothing: a service is what `ServiceLifecycle` promises, with the origin
of its run. `unsent` holds what has been written under the supervisor's mutex
and not yet broadcast; `channel` is the tray's receiver, which log lines can
overrun (`Overrun`, then `HearLag`). `marked` is `TrayInitiated`. A click is
`ClickStarts`, `MarkClicked` and, on a task of its own, `RunTask`. The
subscriber loop is `Hear`, `Refresh`; a refresh is a snapshot posted to the main
thread, where `RunRefresh` applies it and probes `BulkLock`. A bulk action is
`TryBulk`, `Admitted` or `TurnedAway`, `Looks` and `Posts` (its own refresh),
then `Marks` and `Starts` for each service it selected, or `Sweeps`, then
`Releases` and its last refresh. The control socket's stop-all takes the same
two locks and posts nothing. `Apply` is one service that is stopped and started
again under `ApplyLock`. `stray`, `overtaken` and `silent` are history: marks
that wait for the wrong outcome, refreshes older than what they replace, and
releases of the bulk lock that nobody follows with a refresh.

Left out: the demo-ticker, labels, icon and layout, Open and Quit. In the loop's
own refresh, snapshot and post are one step: a change between them is followed by
an event and so by another refresh of the same loop.

## 3. The runs

| run | instance | distinct states | shows |
|---|---|---|---|
| `supervisor_safety` | 2 services (one with a Command probe), 2 runs, 2 flags | 0.7 million | six safety properties of the supervisor |
| `supervisor_promise` | 1 probed service, 2 runs, 1 flag | 51 thousand | stops complete, starts resolve, and the refinement of `ServiceLifecycle` with its fairness |
| `control_safety` | 1 restart call, 1 service, 2 runs, receiver of 2 | 2.2 million | no call waits in vain; a restart restarts |
| `orphan_safety` | 2 instances, services, pids, start times | 92 thousand | reaping, refused kills and records |
| `quit_safety` | nginx and mysql, 1 loop, 1 control call, clicks | 1.1 million | the loop's invariant, what it stops, and that a quit returns |
| `apply_safety` | 2 calls, nginx, 2 files, 2 texts, clicks | 1.6 million (with symmetry) | rollback, validation and restart |
| `apply_unvalidated_claim` | 1 call | violated | a claim of the comment on `apply` |
| `packages_safety` | each family, 2 versions, 3 builds of the app | 0.9 million | list, selection and removal are true; operations end |
| `instances_safety` | each engine, 4 passwords, 2 resets | 0.9 million | locked datadirs, kept credentials; sweeps and attempts apart; initialisations end or stay where nothing bounds them |
| `instances_locked_claim` | each engine, 2 passwords, 1 reset | violated | a claim of the docs of `MysqlInitOutcome` and `MariadbInitOutcome` |
| `tray_safety` | 2 services on one endpoint, 2 bulk actions, 1 Apply | 1.3 million (with symmetry) | dialogs, menu, locks, endpoints |
| `tray_wedged_claim` | 2 services, the control socket's stop-all | violated | a claim of the comment on the tray's refresh |

### Bounds, and why they are enough

* *Two runs, two flags* of the supervisor: every property relates at most a run
  and its successor, or two concurrent starts; a run is reused as soon as nothing
  refers to it. `MaxSends = 1`: one stop that is past the mutex and not yet in the
  channel per run; two would find the channel full, which one such stop and a
  full `mailbox` show already.
* *Control*: `Capacity = 2` (256 in the code) is enough for an event of an
  earlier run in front of the awaited one, and overflow is modelled apart. Three
  constraints bound the run: no orphan record is ever written (no verb reads
  one), behaviours stop at the first answer, since the next call would only
  forget it, and one stop at a time is between the mutex and the channel (the
  supervisor's own runs have one per run). The verb is restart, whose halves are a stop and a start.
* *Orphans*: two of everything gives a predecessor and a successor, a pid that is
  reused by a stranger, and two services whose records differ.
* *Quit*: a tick is 3 s, so MySQL's probe deadline and grace are 5 ticks each,
  the timeout 6. `MaxClicks` bounds the clicks of one tick (2 here); without such
  a bound the clicks of one instant could stop time.
* *Apply*: a tick is 5 s (grace 1, timeout 2). Two files, one of which is always
  rendered, give Added, Modified and Removed; two texts, one of which nginx
  rejects; two calls for the lock.
* *Packages*: three builds give an app without a PHP package (the Homebrew
  route), one that pins a first version and one that pins the next, hence the
  first install, the update over an installed version, and the same version
  again after a failure. Two versions are what a link can be wrong about.
* *Instances*: four passwords are the one the datadir has, the one that is
  stored, and one for each of two resets, which is the first number that can
  overlap. Nothing else is bounded: crashes, launches, attempts and sweeps
  repeat without limit.
* *Tray*: two services on one endpoint, since endpoints and bulk actions only
  matter for a pair; two bulk actions and an Apply for two locks. `MaxActs = 3`
  bounds what is set going (clicks, calls of others, bulk actions, Applies,
  overruns); what follows from it is not bounded. The constraint `FewInFlight` keeps at most two things on
  their way at a time: unsent news, unread events, clicked calls, snapshots in
  hand and refreshes posted. Two are enough for one to overtake the other, and
  every history flag of the module is raised within that bound. In
  `tray_wedged_claim` nothing but the acts and two posted refreshes is bounded.

Deadlock is not checked where the system may really stop: a quit that has ended,
an Apply or a tray whose bounded acts are used up. The other runs check it.

### Fairness

* Supervisor: weak fairness of every task's own steps and timers (the runtime
  schedules ready tasks, timers fire), of a `try_send` that is under way, and of
  SIGKILL's effect. Nothing is assumed of callers, of the child's own exit or of
  its reaction to SIGTERM. One part of a probe is outside its deadline: its
  readers are awaited after it has ended (`service_task.rs:305-308`). `StartResolves`
  and `StopCompletes` count them with the task's own steps, that is, they assume
  that no grandchild of a probe keeps its pipe open for ever.
* Quit: weak fairness of the steps of `perform_quit`, of each loop and each
  service, and of time. Nobody clicks fairly, no socket is served fairly.
* Packages: weak fairness of the run's and of the command's own steps, which the
  runtime polls. Nothing is assumed of brew: `run_task` has no bound for its exit
  or for its pipes, so `OperationEnds` is about the operations that wait for no
  brew and those whose run was aborted. A cancel is nobody's duty.
* Instances: weak fairness of the command, and of the attempt except at
  `NoDeadline`, its three waits that nothing in the code bounds: MySQL's
  `--validate-config` (`openvhost-conf/src/mysql.rs:191`), MySQL's installer, which
  runs through `run_task` (`commands.rs:5848`), and MariaDB's wait for its server to exit
  (`mariadb/init.rs:897`). Nothing is assumed of the programs they wait for, so
  `InitEnds` says that an attempt ends or stays at one of them for ever. An
  abort ends these too. Every other wait has a deadline or is for a child that
  has been sent SIGKILL: clients are given 5 s by `run_bounded` (it writes their
  short statement before that time begins; it fits the pipe), the poll for the
  server has its own deadline, MariaDB's installer two minutes, MySQL's exit ten
  seconds.
* Control verbs have no liveness property: a flood of events can make a receiver
  lag until the deadline, and the code does not prevent that. Every wait is
  bounded by `TRANSITION_TIMEOUT`, so it ends all the same. The tray has none
  either: that its menu settles is stated of quiet states.

### Where code and comments disagree

1. `apply_unvalidated_claim`. Between commit and the verdict of `nginx -t`, and
   after a crash in that window, a start reads files nobody has validated.
2. `instances_locked_claim`. After a crash a temporary server may still listen at
   the init socket. The next attempt's ping is answered by it, the password is set
   and the shutdown sent there, and the attempt's own datadir is renamed into
   place with an empty root password, under the outcome Initialized.
3. `tray_wedged_claim`. The refresh probes `BulkLock` so that the bulk rows come
   back whatever order events and locks come in; the control socket's stop-all
   takes the same lock and posts no refresh when it releases it. If the last event
   is handled before the release, Start all stays disabled until something else
   changes a service.

Met while modelling, and part of the models, but in no run of their own:

* A restart can answer Changed although nothing was restarted: after the call has
  subscribed, the late Stopped event of an earlier run reaches its receiver;
  somebody else starts the service; the call stops that run, takes the old event
  for the answer, and its start half finds the service still running.
  `RestartRestarts` excludes exactly this case by name. In the same way an
  Unregistered event that is sent after the service was registered again makes a
  call answer Removed.
* The quit's 18 s do not cover a service that is being probed when the quit
  begins (up to 15 s until its stop is read, then 15 s of grace);
  `SettledServicesStop` is about the others. The control gate is read once, so a
  restart that passed it before the mark may start its service after the stop.
* The reap drops the record of an orphan whose kill the system has refused
  (`reap.rs:138-153`: "never retry"): the orphan lives on and no later launch
  knows of it. `OrphanKeepsRecord` names this as the one way, besides its death,
  in which a reap lets an orphan's record go.
* A service that is still Starting when Apply takes its snapshot has perhaps read
  the old files, is not restarted, and is listed under "was not running".
* After an uninstall of PHP that removed the row, a major that discovery still
  finds (a keg behind the removed package) stays in the managed list without a
  row until the next launch: rows are registered only for majors that are new in
  the list (`commands.rs:2448`).
* MariaDB's staging directories are never swept, and an abort of its attempt
  leaves `mariadb-install-db` running.
* A start of the tray that is a no-op leaves its mark to the next outcome of the
  service, whoever caused it, and an outcome the lagging receiver has lost leaves
  the mark too (`stray`). A bulk action's snapshot may be posted after a
  newer one of the loop (`overtaken`).
* `try_acquire_bulk` turns a caller away holding neither lock, but takes the first for a
  moment: a refresh that runs just then sees a bulk action and nobody posts
  another. `AdmittedFreesTheRows` leaves that case aside too (`"refused"`).

## 4. What is proved

TLAPS proves the following for every value of the constants that satisfies the
named assumptions (`SupervisorAssumption`, `OrphanAssumption`,
`SweepAssumption`, `BudgetAssumption`, `QuitAssumption`, `CommitAssumption`,
`ApplyAssumption`, `PackagesAssumption`, `InstanceAssumption`,
`TrayAssumption`). `BudgetAssumption` is the one with content: the timeout of a
stop loop exceeds every grace plus the drain, which a test of `quit.rs` pins for
its constants; the others type the constants and keep special values apart.
Proofs are by one inductive invariant per module. Those of OrphanReap, AppQuit,
Packages, InstanceInit and Tray are also checked by their runs; those of the
supervisor and of the control verbs are stated with their proofs, that of
SiteApply with its module.

**Supervisor** (`SupervisorProofs`). The properties are not inductive: that two
runs of a service cannot overlap depends on the entry being Starting or Running
throughout a run, which depends on only that run writing the terminal state,
which depends on the entry holding *its* sender. `IInv` ties these together: a
run that is under way is the one whose sender its entry holds, the entry is not
terminal, its flag is the run's flag, shared with no other service and set
exactly if a stop was accepted, a living child has a task that knows of it, a
record names a run of its own service, and a stop that was accepted is somewhere
on its way. From it follow `TypeCorrect`, `NoDoubleRun`,
`NoForgottenChild`, `ChannelStaysOpen`, `StopIsKept`, and the action properties
`VerdictIsHonest` and `RecordIsKept`.

*The refinement.* `StepsOfLifecycle` proves that every behaviour of `Supervisor`
is one of `ServiceLifecycle` under the mapping of `LifecycleRefinement`, up to
fairness: each action is the promised one or a stutter. The mapping looks a run
up by the sender its entry holds, so the proof needs to know which run that is at
every point of a task, and `IInv` has three parts for it: no run is under way
when the entry is terminal (`NoRunWhenTerminal`), what the entry shows fits the
run's program counter (`StateOfRun`), and a child exists from the spawn on
(`ChildOfRun`).

**ControlVerbs** (also `SupervisorProofs`). `VerbsAreCallers` shows that the
verbs with their receivers are callers like any other, so all theorems of the
supervisor hold below them. `CInv` adds what ties one call to the supervisor. A
call whose service is already where the call wants it (`IsOver`) still has
something to read: an event, a lag notice, or a broadcast that is to come
(`WillHear`); hence `NobodyWaitsInVain`. A restart knows the run its stop half
has stopped, a terminal event in a receiver is of a run whose task has returned
(`TerminalNewsIsOld`), and the start half begins with the service down unless
somebody has begun a run since: `RestartIsHonest`. `NoVainWait` alone is not
inductive, because what a call will read depends on the events in front.

**OrphanReap** (`OrphanReapProofs`). `IInv` says that past the lock there is one
instance, that only a ready one has children, and that any process which still
matches a record, in the file or in a list read from it, is one of ours. The
last part needs start times never to repeat for a reused pid, which is the guard
of the model's environment. `OnlyOrphansAreReaped` follows. The third part,
`Accounts`, says who answers for a record that still describes a live process
and was not left behind: the reap that has yet to come to it, or the task of its
child, which has not been waited for. A reap that could neither kill the process
nor remove the record has left it behind (`left`, which each launch that can read
the file begins anew). From it follow `ReadyHasReaped` and the action property
`OrphansStayRecorded`: whoever drops such a record is the reap, past its signal.
Two lemmas split a reaped record into what it does to processes (`ReapProc`) and
to the file (`ReapFile`).

**AppQuit** (`StopSweepProofs`, `AppQuitProofs`). `SweepIInv` compares two clocks: while the loop
has slept `elapsed` ticks, a settled service has read its stop in the first one,
so its grace timer is at least `elapsed` (`OnTime`); a service seen pending has
been asked before the loop sleeps (`WillBeAsked`). With the budget assumption the
service is down before the loop may give up: `SettledAreStopped`,
`NoForgottenStraggler`. `SweepKeepsDeadline` and `SweepIsNotProlonged` prove what
`QuitReturns` rests on: no loop's clock runs past its timeout, a loop that goes on
to ask and sleep has time left, the quit's loop watches every service for as long
as `perform_quit` awaits it, and nothing anybody starts or stops meanwhile sets
that clock back or revives a loop that is over.

**SiteApply** (`SiteApplyProofs`). `CommitIInv` says that a call past the lock
holds it, and for each file and phase what is on disk: the old or the new text,
and which of the two for all but the files left to do (`Standing`). Only the
holder moves files, so one lemma (`HolderStep`) reduces every step to the
holder. `RollbackIsComplete` and `RestartsOnAccepted` follow. `IInv` adds the
sweep's invariant, that a service which is down serves nothing, and
`RestartIsSound`: the loop is over the services of the snapshot, nothing is
restarted before it has returned, and then whatever it does not report has been
down since the files were written, so it serves what is on disk, which nobody
else writes meanwhile. `RestartedServes` follows.

**Packages** (`PackagesProofs`). `IInv` is `RunsAreSound` and `RemovalIsTrue`.
The first is the typing, `RunIsOurs` (a run, its
target and the slot belong to the command at its program counter), `ListIsKept` (what
the list still owes to the disk is owed by a command on its way to a rescan, or
excused), `SelectedIsWhole` and `EndedRunIsAlone` (a run that has ended has no
child left). The second follows an uninstall: what its program counter has
passed is gone, unless it has met a problem; `DoneIsGone` is its last step.
`ListTrue`, `SelectionWhole` and `EndedAlone` are parts of the first, and
`OthersLeaveVersions` proves from it that a version that is there is taken away
by an uninstall only.

**InstanceInit** (`InstanceInitProofs`). That a ready datadir has a password
depends on what a client reached at the socket, so `OwnWork` says: without a
crash that left a server behind, whatever an attempt did there it did to its own
server, hence to `staged`. With `RunIsOurs`, `RowMeansReady`, `EndedRunIsAlone`,
`ReadyIsLocked` and `CredentialHeld` it is inductive. `ReadyLocked`,
`CredentialKept`, `AttemptEndsAlone` and `RowNeedsDatadir` are its parts; from it
follow the action properties `NothingAdopted` and `StagingKept`. The latter rests
on `SweepFindsLitter`: where a sweep may run there is no staging directory of an
attempt, because `staged` is an attempt's, an attempt is a command's, and the
command holds the lock.

**Tray** (`TrayProofs`). `IInv` says who holds which lock at which stage
(`LocksAreHeld`), that what Start all has selected stays clear of what it has
brought up before because nobody else can add to that while it holds `BulkLock`
(`SelectionIsClear`), and that the last posted snapshot is true or news of the
difference is under way (`MenuFollows`). `BulkActionsApart`, `OneOfAnEndpoint`,
`RowsAreTrue` and `BulkRowsAreTrue` follow, for any number of services,
endpoints and bulk actions and any length of the queues.

`DialogsAreForTheTray` needs `AttemptsAreTracked`, which follows an attempt from
its mark to the dialog. Of a service that is not `stray` it says: while a start
is due or under way the mark is there and no outcome is on its way
(`MarkAwaitsOutcome`); at most one outcome is unsent (`OneOutcomeUnsent`); a
failure a dialog is owed for is the first outcome the loop will hear of the
service, and the mark is still there (`OwedFindsMark`); and a mark is waiting for
nothing else (`MarkFindsOwed`). A broadcast moves an outcome from unsent to the
end of the channel, hearing or an overrun takes it off the front, and these four
survive both. That the tray starts a service once per mark rests on `BulkLock`.

### Liveness

Four theorems say what must happen: `AcceptedStopEnds` (`StopCompletes`)
and `StartingResolves` (`StartResolves`) of the supervisor, `AttemptEnds`
(`InitEnds`) of an instance's initialization, `OperationsEnd` (`OperationEnds`)
of a package operation; `RunsGoForward` is the action property behind the first
two. The argument is the same in each module. A *rank* numbers the points a run,
an attempt or an operation goes through. No step takes it back (`RunsGoForward`,
`AttemptGoesForward`, `CommandGoesForward`, `RemovalGoesForward`), nobody else
moves it except by ending the process (`WaitingStep`, `OthersWait`), and at each
point one step of the specification's fairness is due, so each point is passed
(`Passes(k)`); the chain of points ends where the property wants it. Of an
initialization each point is passed or is a `NoDeadline` that lasts for ever. In the
supervisor a second invariant is needed on the way: whoever has decided to kill a
child has sent the signal or holds it (`KillIsSent`), so that a child that ignores
SIGTERM is gone nevertheless.

Each is a theorem of `Scheduled`, which is the specification with its fairness and
`[]GuardsSuffice`. That last part is what the provers cannot do: it says that the
fair steps are ENABLED where their explicit guards (`TaskIsDue`, `AttemptIsDue`,
`WakeIsDue`, `RunIsDue`, `CommandIsDue`) hold, and it is a fact of the actions, no
assumption about the program. With `GuardsSuffice` added to the INVARIANTS of
`Supervisor_safety.cfg`, `InstanceInit_safety.cfg` and `Packages_safety.cfg`, TLC
finds it true in every reachable state of those instances. `OperationsEnd` has one more hypothesis,
`RemovalReturns`: that `remove_dir_all` over MariaDB's whole directory, of any
number of versions, returns, which would take an induction over that number. For PHP, whose removal takes one
version, the proof counts what is left of it (`LeftShrinks`).

Only model-checked: `QuitReturns`, whose proof is an induction over the ticks of
the timeout and the number of services, both beyond a temporal proof here; and of
`ImplementsLifecycle` the promise's fairness, which is ENABLED under a refinement
mapping (its initial states and steps are `StepsOfLifecycle`). Every other
property that a passing run checks is a theorem.
No module declares a RECURSIVE operator.

## 5. What is not modelled

Not modelled at all: rendering of templates, value checks, log rings and files,
the CLI and its installer, the Svelte pages, build scripts. They are sequential
and have no state that another part could see half-done; their correctness is in
texts and values, which the suites of the repository compare directly.

Partly modelled, and what is missing there:

* *Supervisor*: the reader tasks and the stderr tail. A reader that is detached
  after the drain may write a line of an old run into the tail of the next; it
  affects the wording of a failure and no state.
* *Control socket*: connection slots, read deadlines, framing, the takeover of a
  stale path. A connection is one request on a task of its own, and a refused one
  changes nothing.
* *Quit*: the close dialog's handshake with the page (`UiReady`).
* *Boot*: the degraded mode without a store, the registration of the discovered
  runtimes and the event pump, which run once, before anything acts with them. The order
  lock, reap, register is `OrphanReap`'s.
* *Site apply*: the uninstall of a PHP deletes its generated `php-fpm.conf`
  without `ApplyLock` (`uninstall/run.rs:223-235`). `SiteApply` has no such writer,
  so what it shows of an Apply is shown for one that meets no uninstall.
* *Orphan cleanup*: the file's format, and with it the malformed records that
  `reject_reason` (`reap.rs`) refuses; the CLI's read-only look at the lock.
* *Store*: single statements on SQLite, seen as the rows they leave. That
  `update_site` reads and writes without a transaction is listed as a hazard; its
  outcome is one of the two edits, which no other part tells apart.
* *Packages*: verification of archives, version probes, the nginx package
  (installed with the app), path confinement.
* *Instances*: `my.cnf`'s text, file permissions, the read-only connection check.
* *Tray*: icon, labels, layout.
