# Verification of smstatus

smstatus is a status bar daemon. It runs WebAssembly modules, sets the root
window name to what they print, talks to native extension processes over Unix
sockets, and is edited and controlled while it runs by command line tools and a
terminal interface. This directory holds TLA+ models of the parts where
processes, threads and files meet, TLC configurations that check them on small
instances, and TLAPS proofs of their main properties for every instance.
Source paths below are relative to the repository root.

## 1. Inventory

| Component | State | Operations | Modelled in |
|---|---|---|---|
| Extension registry and client (`src/extension/registry.rs`, `client.rs`) | `children`, `connections`, `failures`; per connection `pending` and a reader thread | `call`, `drop_running`, `live_state`, `Drop` | `ExtensionRegistry` |
| Extension protocol library (`packages/extension-protocol`) | one socket, one accepted connection | bind, handshake, `drive_loop`, checks | `ExtensionRegistry`, `HostCalls` |
| Event bus and hub (`src/extension/bus.rs`, `event_hub.rs`) | `interests`, `queues` (64 per instance), two channels | publish, `deliver`, `take`, `subscribe`, `retain_instances`, `clear_all` | `EventHub` |
| Bar main loop (`src/bar.rs`) | Running or Idle, the runtime, the deadline of each instance | tick, wake-ups, `apply_reload_batch`, enter and leave idle mode | `EventHub`, `ControlPlane`, `ModuleRuntime` |
| Module runtime (`src/module.rs`) | instances, validated kinds | `start`, `update`, `reload`, `reload_wasm`, restart after a trap | `ModuleRuntime` |
| Host functions, audit, status snapshot (`src/host.rs`, `extension/audit.rs`, `status.rs`) | permissions, a ring of 64 audit records | call, subscribe, take, snapshot | `HostCalls` |
| Daemon lock and commands (`src/lock.rs`, `daemon.rs`) | flock on the lock file, the pid in it | `run`, `start`, `stop`, `status` | `DaemonLock`, `SingleInstance` |
| Control socket and reload batches (`src/control.rs`, `reload.rs`) | listener, batch, channel to the loop | accept, serve, coalesce, `notify_running` | `ControlPlane`, `ReloadRequests` |
| Package installation (`src/install.rs`, `manifest.rs`, `version.rs`, `pin.rs`, `catalog.rs`) | package directories, pins | resolve, check, install, replace, remove | `Packages`, `Install`, `Versions` |
| Configuration and presets (`src/config/`, `preset.rs`) | `config.toml`, `presets/*.toml` | edit, use, save, remove, init, `atomic_write` | `Presets`, `PresetStore`, `ConfigFiles` |
| Logging (`src/logging.rs`) | the log file, the retention | append, prune, read a tail or a range | `LogFile`, `LogView`, `LogLines` |
| Terminal interface (`src/tui/`) | a copy of the preset, selections, an overlay, the log panel | keys, confirmations, edits by index | `Tui`, `LogView`, `Screen` |
| Modules and extensions (`modules/`, `extensions/`) | the process extension tracks pids and counts names | kernel events, flips, formatting | `ProcessWatch`, `HostCalls`, `Formats` |
| Command line, doctor, probes; packages, tools, templates | none that outlives a call | checks, versions, formats | in part: `ModuleRuntime`, `Versions`, `Formats` |
| X11 output | none | sets the root window name | not modelled |

What is hard in each, and what makes it correct:

* **Registry.** A spawn is six steps that may each fail, while a process may
  exit, hang or answer late. Correct: no process is left behind, calls go to
  the process that will be killed, an answer belongs to its call, a reload ends
  the old binary, and a call that spawns returns.
* **Hub.** Three threads, two locks and two channels, with instances that
  trap, restart and disappear. Correct: bounded queues that keep the newest,
  order, at most once, and no event that lies there while the loop sleeps.
* **Lock.** Every process may be delayed between two system calls, and pids
  are reused. Correct: one daemon; a pid that is read is the daemon's.
* **Control plane.** A client's edit, its request, the batch it is merged into,
  and the modes in which batches are applied are far apart. Correct: what was
  acknowledged takes effect.
* **Runtime.** A start reads the manifest and the wasm one after the other,
  while installers replace both. Correct: the bar ends up with what is on disk,
  and a reload costs it nothing that ran.
* **Installation.** Two renames with a backup in between, a fallback that
  copies file by file, failures and kills at every call, and clean-ups whose
  errors are ignored. Correct: the old package or the new one, and a report
  that is true.
* **Presets.** Operations read, check and write without a lock, through one
  temporary name per file. Correct: each takes effect as a whole or not at all
  as long as they do not meet.
* **Logging.** The log is emptied and rewritten while others append and read.
  Correct: no line is lost but to the retention, and the view stays on its line.
* **Terminal interface.** It edits by index into a list it loaded earlier.
  Correct: a key changes the preset that is active then and no other, and in it
  only what the overlay is about: a module is removed from the list that was on
  the screen and from no other list, a value is replaced where it still is the
  one on the screen, a parameter is removed or renamed by its key.
* **Process watch.** /proc is read while the kernel already reports changes,
  and the socket may overrun. Correct: in the end the bar shows the truth.

## 2. Modules

| Module | Models | Checked by |
|---|---|---|
| `ExtensionRegistry` | registry, reader threads, extension process | run `registry`, `ExtensionRegistry_proofs` |
| `EventHub` | bus, hub, pump, the loop as far as events depend on it | `hub`, `hub_live`, `EventHub_proofs` |
| `SingleInstance` | what the lock promises (abstract) | refined by `DaemonLock` |
| `DaemonLock` | lock file protocol | `lock`, `SharedFiles_proofs` |
| `ControlPlane` | clients, control thread, start-up, batches, idle mode | `control`, `control_live`, `ControlPlane_proofs` |
| `ModuleRuntime` (extends `Versions`) | instances, reloads, installers, doctor | `runtime`, `ModuleRuntime_proofs` |
| `Install` (extends `Packages`) | placing, restoring and removing one package | `install`, `Install_proofs` |
| `PresetStore` (extends `Presets`) | what operations on presets promise (abstract) | refined by `ConfigFiles` |
| `ConfigFiles` (extends `Presets`) | those operations, call by call | `presets`, `ConfigFiles_proofs` |
| `Tui` (extends `Presets`) | keys and overlays of the terminal interface | `tui`, `SharedFiles_proofs` |
| `LogFile`, `LogView` | the shared log file; the log panel over it | `log`, `SharedFiles_proofs` |
| `Filter` | what is left of a sequence, for the log and for the lists of the interface | `log`, `tui`, `SharedFiles_proofs` |
| `ProcessWatch` | kernel events to what the bar shows | `process`, `ProcessWatch_proofs` |
| `HostCalls`, `Versions`, `ReloadRequests`, `LogLines`, `Screen`, `Formats` | functions without state, as operators | assumptions of the runs |

`MC<Module>` gives constants to TLC. Operators commented "Mutant of X" are
deliberately wrong variants of X; each property is known to fail when X is
replaced by one of them. The modules of the last row are checked by the
`ASSUME`s of their `MC` modules, which TLC evaluates over all inputs up to a
bound when it starts the run that extends them (section 3).

### ExtensionRegistry

One extension name. The main thread's program counter (`host.pc`) walks
`call`: backoff check (`BeginCall`), lookup (`Lookup`), rpc (`WriteRequest`,
`ReceiveAnswer`, `RpcTimeout`, `WriteFails`), removal after an error
(`Unroute`), respawn (`Spawn` ... `Attach`); and `drop_running` (`BeginReload`,
`Unroute`, `ReloadKills`). `connHeld` is the guard of the `connections` mutex
that the `if let` at `registry.rs:349` keeps alive. An extension accepts one
connection in its life, so a connection is named by the process at its other
end: `pending[p]`, `reader[p]`, `inbox[p]`, `outbox[p]`. Processes exit at any
moment. `disk`, `version` and `floor` number the packages. The control thread
appears as `live_state` (`StatusFailures` and following). The registry's own
`Drop` runs when the daemon ends and only kills the child.

Abstractions: timers are nondeterministic, each may fire whenever what it waits
for has not happened; the payload of a frame is the number of its request;
reasons to refuse a spawn before the old process is touched are one step.

### EventHub

One pair of extension and event name; an event is the number of its
publication; an absent queue is an empty one. `deliver` is two steps
(`PumpReceive`, `PumpPush`), because it takes the two locks one after the
other, and the names are sent in a third (`PumpWake`). `retain_instances` and
`clear_all` are two steps for the same reason (`ForgetInterests`,
`ForgetQueues`). The main loop ticks what is due, drains the wake-ups (`WakeUp`)
and blocks for slices of 50 ms. `due` and `retry` stand for `next_due`: passed,
or one second away after a trap; an interval may end at any moment
(`TimesUp`). Reloads keep any set of instances and start any set: that covers
every list a preset may hold, also together with `reload_wasm` (`host.wasm`).
The instances that a batch entering idle mode starts, and drops in the same
batch, are left out here and are in `ControlPlane`.

### DaemonLock and SingleInstance

Each action is one system call: `TryLock`, `Truncate`, `WritePid` for a
daemon; `CheckChild`, `ReadPidFile`, `StartTimesOut` for the `start` command
that waits for it; `ProbeLock`, `ProbeUnlock`, `ProbeRead`, `Signal` for a
status probe or `stop`. A pid is in use while its process lives, or is a zombie
whose parent still looks; otherwise any process may get it, strangers included.
`witness[c]` is history: the daemon that has been running since probe c began.

`SingleInstance` says that one owner at a time drives the bar and an owner that
has let go never returns. The refinement maps `owner` to the daemon inside the
lock and `finished` to the daemons that were refused or died.

### ControlPlane

Presets, one module kind and one extension are version numbers on disk; a
preset is a list of instances. A client
edits once (`Edit`), connects (`Connect`) and waits; a request for nothing is a
status query. `Serve` is one accepted client, in or out of the coalescing
window; `Send` is the end of the window. The bar loads the preset before it
binds the socket (`LoadInitial`, `StartInstance`, `Unlink`, `Bind`); its loop is
`Ticked`, `Slice`, `TickAgain`, `Receive`, where `bar.spare` says that the wait
has time left and has seen no event: the deadlines count from before the
updates, so any interval may leave time or none. `apply_reload_batch` is `ApplyConfig`,
`StartInstance`, `ApplyWasm`, `ApplyRest` in that order, and `ApplyIdle` in idle
mode. `Crash` may come at any step and leaves the socket file.

Abstractions: `StartInstance` may fail, or find no wasm, at any restart, so the
gap while a package is replaced is over-approximated; the extension process
does not die by itself here (it does in `ExtensionRegistry`); a client is
served whole, as `notify_running` has written its request and closed its half
before it reads.

### Packages and Install

`Packages` holds what is decided before the package directory is touched: how a
source is resolved and its redirects are followed (`ResolveSource`), the hash
from the option, the sidecar or the pin, what the entries of an archive may be,
what a manifest must say, and whether the request installs, replaces or skips.
Hashes are names, an archive a sequence of entries, a path a sequence of
components; download and archive limits are constants.

`Install` places the package: one step is one system call (`rename`, creating
a directory, copying one file, `chmod`, removing one file). `sameFs` says
whether the staging directory is on the file system of the packages; if not, no
rename into place succeeds and the files are copied. Each call that changes the
disk may fail (`Refuse`, up to `MaxFailures`), also those whose error the code
ignores (removing the backup, removing a half-made copy, copying the old package
back) and those that come when the package is in place already (`Finish`). What
goes before staging (downloads, unpacking) fails as one. Any process may be
killed (`MaxCrashes`). `before` and `alone`
are history: the package an installer has found, and whether anybody else has
changed the directory since.

### Presets, PresetStore and ConfigFiles

`Presets` has each edit of a document (`src/config/write.rs`, `params.rs`) as an
operator from a document to a document or to `Refused`. `PresetStore` is the
abstract specification: each operation takes effect at once. `ConfigFiles` is
the code: what it reads, what it checks, then `OpenTmp`, `Write` and `Rename`
of `atomic_write`, with a kill at any point. `spoiled` becomes true when an
operation changes what another has looked at, or two write one file at a time,
and with it the promise ends; up to there the refinement shows every operation
to be atomic. Init writes two files and is two operations of the abstract
specification, since it may be killed in between.

### Tui

One key is one step, and reads the files it reads. `app` is the App: the copy
of the preset, the selections, the overlay with what it remembers (index, name,
expected value). `Others` is anything another process does to the files
between two keys. `Fresh` is what `ensure_preset_pointer_current` leaves.
Typing is not modelled; a text is chosen when Enter is pressed. `Install` is the
dialogue that installs a package from within the interface; what it does to the
package directory is in the module of that name.

### LogFile, LogView and LogLines

`LogFile` has append and prune under the flock on the file, one system call a
step: pruning locks and reads the file, empties it, and writes back what it
keeps; an append is the text and then its newline. A process may be killed
anywhere, and `hurt` notes if that was between two of its writes. Days are
numbers, and so are lines, with the day and level they were written with.
`LogView` is the panel: it counts and then reads the visible lines in windows of
`Chunk`, follows the end or keeps its selection by content, and scrolls.
`LogLines` has the same reads character by character: the end of the file by
blocks from behind, any other range by counting from the front, possibly in
another state of the file.

### ModuleRuntime

`ReadManifest` and `ReadWasm` are separate steps, because installers move the
package aside, place the new one and notify the daemon in between (`MoveAside`,
`Place`, `Notify`). The daemon starts with `Boot`, works off its first list, and
binds the control socket after that (`Bind`): until then it cannot be told
anything. Extensions come, change and go (`ChangeExtensions`). `excused` notes
the kinds that were placed while nobody listened, or that have lacked an extension
since. A batch is taken in `TakeActive` or `TakeIdle` and worked
off by `ReloadInstance`, `ReloadEntry`, `CreateEntry` and `ActivateEntry`; `job`
is what the loops of `reload`, `reload_wasm` and the activation hold. A guest
may fail in its init or trap in a tick (`MaxFailures`). What a version of a
package says is given by `Version`: its API, its schema, what it requires.
`Doctor` is `smstatus doctor module`, and `DoctorIsRight` compares it with the
steps of a start. The name of an instance determines its
kind (`split_module_entry`) and its config (`module_config_json`); a list may
have the same entry twice.

### ProcessWatch

Processes fork, exec, change their name and exit at will; each change is a
record in the netlink buffer, or lost when that is full (`overrun`). One that has
exited stays in /proc with its name, a zombie, until it is reaped, of which there
is no event. The watcher listens, seeds from /proc pid by pid, then receives; a
flip goes into the queue of the module, which drops the oldest when full, as long
as the daemon's connection is up. The module drains the queue or asks, when it has
no flip. `link` is what the registry makes of the connection: a question without
one starts the extension anew, or fails; one on a connection in use that fails
hangs the main loop, and so does any once the reader thread has ended (gaps 1 and
2). A reload of the extension is in `ExtensionRegistry`, a subscription that is
refused in `HostCalls`.

### Operators

* `Versions`: parsing and comparing versions, the host's API against a package's,
  and which releases the release tool permits.
* `ReloadRequests`: the lines of a request, what a client with a bad line is
  answered, how two requests merge.
* `HostCalls`: the permissions of a manifest, the checks of the fs, power and
  http extensions, the order of check and call, the audit ring and what it
  shows, the status.
* `Screen`: areas, windows of lists, text fields. Only rows are counted.
* `Formats`: templates, the processor's load, keyboard layouts, durations.

## 3. Runs

Deadlock checking is off in every run: calls, events, daemons, clients,
installers and crashes are bounded by constants, so a behaviour may come to its
end.

| Run | Checks | Bounds |
|---|---|---|
| `registry` | `TypeOK`, `NoStrayProcess`, `AnswerBelongsToCall`, `ReloadServesNewBinary`, `SpawnedCallReturns` | 2 processes, 2 calls, 1 new package, 1 unread event |
| `hub` | `TypeOK`, `DeliveredInOrder`, `NoLostWake` | 2 instances, queues of 2, 3 events, 1 trap |
| `hub_live` | `EventsAreTaken` | 1 instance, queue of 2, 4 events, 2 traps |
| `lock` | `TypeOK`, `OneDaemon`, `ProbeIsRight`, `ImplementsSingleInstance` | 3 daemons, 2 probes, 2 pids |
| `control` | `TypeOK`, `AckedPresetIsRead`, `AckedWasmRuns`, `AckedExtensionRuns`, `LoadedIsConfigured` | 2 clients, 2 instances, presets of 0, 1 and 2, 1 restart |
| `control_live` | `PresetGetsRead` | 2 clients, 1 instance, time left or none at each wait, edits of preset and module |
| `install` | `TypeOK`, `NothingLost`, `FreshInstallsAgree`, `ReportIsTrue` | 2 installers, 5 requests applied in 4 ways, 1 removal, 4 failures (1 once both have begun), 1 kill |
| `presets` | `TypeOK`, `ActiveExists`, `ImplementsPresetStore` | 2 processes, 3 names, 2 entries, 5 operations, 1 kill |
| `tui` | `TuiTypeOK`, `ParamsAreLoaded`, `DoesWhatWasShown` | 2 presets, 1 kind with 2 instances, 2 extensions, 1 change by others, 1 write |
| `log` | `LogTypeOK`, `LinesKept`, `DrawsTheFile` | 2 processes, 3 lines, 2 days, 2 prunes, windows of 2 lines, panels of 0 and 2 rows |
| `runtime` | `TypeOK`, `SettlesOnDisk`, `DoctorIsRight`, `KeepsRunning`, `ReloadRevalidates` | 2 kinds, 3 package versions, 4 lists, 3 sets of extensions, 2 edits, 1 install or change of extensions, 1 failure |
| `process` | `TypeOK`, `TracksTheLiving`, `ShowsTheTruth` | 2 pids, 2 names, netlink buffer 2, queue 1, 4 changes (3 once the daemon has been connected) |

Why these bounds show what they should:

* Registry: two processes are one that is replaced and its replacement; the
  second call meets the late answer of the first, or the process of a reload.
* Hub: three events overflow a queue of two; a second instance is needed for a
  wake-up that names one instance and must not lose the other. Liveness takes
  one instance: instances share nothing but the loop, and a pass of the loop
  visits every instance that is due.
* Lock: fewer pids than processes, so pids are reused, also by strangers
  between the read and the kill of a `stop`.
* Control: two requests are enough for a batch to be merged, or to be queued
  behind another; one restart leaves a stale socket, a client without an answer
  and a second boot. The order of the clients does not matter (symmetry; used
  in the safety run only). An extension has no part in `PresetGetsRead`, so the
  live run leaves its edits out.
* Install: the five requests are a local file, a catalog entry, a pin, an archive
  with two manifests and one without a manifest; two installers and a removal
  are every pair of operations, and one failure and one kill meet any call. While
  one installer has not begun, four calls of the other may fail: the copy, its
  clean-up, the rename back and the copy back can fail in one install.
* Presets: five operations let one be killed, one run into what it left and
  another one pass between the reads of a third; three names are the active
  preset, another one and one that is free.
* Tui: the copy gets stale by one change of others; the two entries of the list
  are of one kind and differ in their instance.
* Log: two days are lines to keep and lines to drop; with three lines a window
  of two leaves one out, at either end. A panel without rows reads as one of one
  row does, and has to keep its selection all the same.
* Runtime: the three versions are one that always starts, one that needs a newer
  extension and one whose schema is refused; going from one of the four lists to
  another adds, drops, reorders and re-configures instances; one list has two
  instances of a kind, one two kinds, and one the same entry twice. One install
  meets every step of the first start, of a reload and of leaving idle mode; more
  of them are left to the proofs.
* Process: a buffer of two overruns with three changes, and a fourth may
  come while the watcher starts again; two names let a process be renamed to and
  from the one that is watched. A queue of one drops a flip with the second one. More
  processes are left to the proof.

Symmetry sets are used in safety runs and in the refinements of `lock` and
`presets`, which have no liveness part, and never under fairness.

The operators without state are checked on all inputs up to a bound:

| Module, with run | Checks |
|---|---|
| `Versions`, `runtime` | `ReadsWhatItWrites`, `OrderedByDate`, `UpgradesKeepPackages`, `ReleasesAreSteps` |
| `ReloadRequests`, `control` | `RequestsArrive`, `CliAsks`, `MergeIsUnion`, `AllOrNothing` |
| `HostCalls`, `registry` | `FsReadsBelow`, `NormalForm`, `OrderMatters`, `PowerReadsSupplies`, `BelowPath`, `BelowAddress`, `AskedFirst`, `LatestCalls`, `RedactsOnce`, `LittleIsShown`, `SecretsDoNotShow`, `StatusIsComplete` |
| `LogLines`, `log` | `TailIsEnd`, `RangeIsRange`, `RangeMovesWithTheEnd` |
| `Screen`, `tui` | `AreasFit`, `ViewportsAreDrawn`, `OverlaysAreInside`, `SelectionIsDrawn`, `ParamIsDrawn`, `LogLineIsDrawn`, `EditsStayInside` |
| `Formats`, `process` | `PieceByPiece`, `OthersStay`, `PadsFill`, `LoadIsPercentage`, `LoadCoversAll`, `GroupIsLayout`, `DurationIsClose` |

## 4. Fairness

* Registry: weak fairness of the main thread's steps inside a call, of the
  control thread inside `live_state` and of each reader thread: they are
  threads of the daemon, and every wait of theirs has a timeout, except the one
  on the mutex. None on the extension process, which may hang, nor on new
  calls, installs or backoff.
* Hub: weak fairness of the pump and of the main loop's own steps; strong
  fairness of the one-second retry, whose deadline passes although wake-ups may
  postpone the look at it. None on events, intervals, traps and reloads.
* Control plane: weak fairness of the control thread and the main loop. None of
  `Receive`: the loop looks at the channel when it waits with time left and no
  event there, and nothing in the code sees to it that it ever does. That it does
  so again and again is the condition of `PresetGetsRead` (`TimeIsLeft`).
* Process: weak fairness of the watcher thread and of the module's update, which
  the main loop, unless it hangs, calls at the latest when the module's interval
  of 300 s ends. None on the processes that start, rename themselves, end and are
  reaped, nor on an answer: nothing in the code sees to it that the connection
  stays up and the questions are answered, so that is the condition of
  `ShowsTheTruth`.

The other runs check safety only: they have no fairness.

## 5. Known gaps

Behaviours of the code that the models show and the properties are worded
around. No run asserts them; the definitions named in the first list are kept
in the modules and fail when they are checked.

Against what the code, its comments or its tests say:

1. `src/extension/registry.rs:349` (`CallReturns` of `ExtensionRegistry`): the
   guard of `connections` lives through the body of the `if let`; an rpc that
   fails on a reused connection removes it from the same mutex and waits for
   itself. `live_state` then blocks the control thread as well. This is why
   `SpawnedCallReturns` is about calls that spawn.
2. `src/extension/client.rs:10` (`LiveConnectionIsRead`): the handshake's read
   timeout of two seconds stays on the socket; the reader thread of a
   connection that is silent for that long ends, and the connection stays in
   the map.
3. `src/daemon.rs:203` (`AlreadyRunningIsTrue` of `DaemonLock`): the status probe
   takes the exclusive flock; a daemon that starts meanwhile is told that one
   already runs.
4. `src/control.rs:101` (`ReloadIsApplied` of `ControlPlane`): with no time left
   until the next deadline the reload channel is not looked at. The deadlines
   count from before the updates (`src/module.rs:251`), so an instance whose
   interval is not longer than a pass of the updates starves every reload.
5. `src/bar.rs:193` (`ExtensionIsRespawned`): in idle mode only the configuration
   part of a batch is applied; an acknowledged extension reload leaves the old
   process, which is used again when the bar leaves idle mode.

Without a text that contradicts them:

* Control plane and hub. An edit between `load_bar_config` (`src/bar.rs:126`) and
  the bind of the socket (`src/bar.rs:156`) is neither read nor announced, its
  client being told that no daemon runs (`AckedPresetIsRead` is therefore about
  acknowledged changes). An event whose subscribers were copied before
  `clear_all` is queued after it; this leaks one event and no more. A client
  that does not close its half of the connection holds up the control thread
  (`src/control.rs:181`).
* Installation. A fresh copy that fails or is killed leaves a part of a package,
  and the next install of that version says it is already installed. So it does
  when an extension was put in place and could not be made executable
  (`src/install.rs:750`): the first install reports an error, the package stays,
  and the next one skips it. When undoing an install fails as well, the old
  package may be left in its backup only. Two
  installers that both replace a package may leave a mixture, and so may three
  that all start without one; `FreshInstallsAgree` is about two that do.
  Extensions are judged by the first `manifest.toml` in the archive, and the one
  at the root is placed. A backup that was left behind is listed as a module and
  never recovered. `find_entry` does not look at the architecture.
* Presets. Overlapping operations lose updates, tear files through the shared
  temporary name, and leave `config.toml` pointing to a preset that was removed
  meanwhile: `spoiled` marks exactly these. An init that was killed between its
  two writes makes every later one fail with "already exists".
* Terminal interface. The active preset is not loaded again when others edit it,
  only when another one becomes active. What was on the screen is compared with the preset that is active
  at the write: if another one has become active since the confirmation, a
  module is removed from it when it has the same list, a value replaced when it
  is the same, a parameter removed or renamed when it has the key, and the
  separator written in any case. `DoesWhatWasShown` is about the list and the
  row, not about which preset they came from. When
  the daemon cannot be notified a switch is reported as failed though
  `config.toml` is written. Defaults of an old schema stay shown until
  `poll_schema`. A module that requires more extensions than there are rows
  shows no parameters, and a selection may be out of view after a resize until
  it moves.
* Logging. Pruning happens only at a start or when the retention changes. A
  process killed during the rewrite loses the lines it has not written back, and
  a reader may find the file empty meanwhile and lose its selection.
  `lines_in_range` counts and reads at different times. A huge `log_days` panics.
* Runtime. A kind is marked validated before its schema is checked,
  and a package upgraded before a configuration reload is not validated again.
  A batch without configuration part is dropped in idle mode.
  `reload_wasm` appends the instances it creates again to the end of the list.
  Installing a missing extension does not start the modules that wanted it. A
  package placed between the first start (`src/bar.rs:126`) and the bind of the
  socket (`src/bar.rs:156`) is taken for one placed while no daemon runs: the bar
  stays on the old version, or on the old manifest with the new wasm, until the
  next reload of that kind. `SettlesOnDisk` exempts these (`excused`). It takes a
  running daemon to be reached: a notification that fails is a warning and no more
  (`src/install.rs:76`).
* Host. A malformed permission entry refuses what a later one allows. Truncating
  an audit record cuts bytes, not characters. The status takes extensions from
  the list of complete packages and calls them installed by their binary.
* Process. A child is tracked under the name its parent has when the fork is
  handled, which may be a later one, until it sets its own. For the flips a
  process is gone with its exit; for a question it runs until it is reaped,
  although the comment at `extensions/process/src/main.rs:267` has both see the
  same set. A zombie from before the watcher listened is seeded, and tracked for
  ever. A question that fails shows an error for
  300 s; on a connection in use it hangs the bar (1), and the silence of two
  seconds that ends the reader (2) is common here. A change between the module's first question and the
  seed, or one that was lost to an overrun, gives no flip; the next look is the
  fallback after 300 s, and flips of other processes postpone it.

## 6. What is proved

All proofs are for any values of the constants that satisfy the named
assumptions, which TLC evaluates in the runs:

* bounds are naturals and a queue holds at least one event; values such as
  `Nobody`, `NoPid`, `NoInstance`, `Absent`, `Missing`, `Torn` or `Dead` are none
  of the things they stand beside (`BoundsAssumption`, `HubAssumption`,
  `LockAssumption`, `NamesAssumption`, `InstallAssumption`,
  `RuntimeAssumption`, `LogAssumption`, `ViewAssumption`, `NothingAssumption`);
* presets list instances (`ControlAssumption`), and an entry of a module list
  has the config of its name (`ListsAssumption`);
* a request is for at least one package, and an archive that `RequireFiles` accepts
  makes one whole package (`RequestsAssumption`);
* what others make of a preset file is missing, damaged, or a document, and the
  keys of a schema and its default are texts (`TuiAssumption`);
* there are finitely many pids (`WatchAssumption`).

Each component has its typing theorem, `TypeCorrect`: it holds what the other
proofs need of the data, which is more than the `TypeOK` of some modules says
(`Types` there). `SharedFiles_proofs` holds the theorems about three kinds of
files that processes share: `TypeCorrect` there is about the lock file,
`PanelTypes` about the log file and its panel, `TuiTypes` about the presets as
the terminal interface knows them. The others:

| Theorem | States | Inductive invariant, and why it is needed |
|---|---|---|
| `ExtensionRegistry_proofs!ProcessOwnership` | `NoStrayProcess`, `RoutedIsChild` | `Ownership`: `Spawn` and `ReloadKills` change the child without touching the connection; `UnroutedWhileReplacing` says that nothing is routed at those places. |
| `...!ReloadTakesEffect` | `ReloadServesNewBinary` | `Routing`: what is spawned, polled or attached is at least as new as the last reload, and a call goes out over the map only. |
| `...!AnswersMatch` | `AnswerBelongsToCall` | `Matching`: which request may be in which buffer of a connection. A slot is pending only while its call waits, and that request is all there is on the connection (`OneInFlight`); an answer in the channel is that of the call that waits (`AnswerInFlight`); a connection that is routed between calls carries nothing, since one that failed a call was given up (`QuietBetweenCalls`). |
| `EventHub_proofs!QueuesSafe` | `QueueBounded`, `NewestKept` | `Queues`: an overflow keeps the end of the queue, so the newest event stays. |
| `...!EventsInOrder` | `DeliveredInOrder` | `Upcoming`: what waits on the bus is increasing and newer than what the pump has in hand; `Delivered`: what is queued or taken is not newer than that, and older while the pump has yet to push it. |
| `...!WakesArrive` | `NoLostWake` | The property itself with the types: whatever takes a wake-up away either empties the queue or puts the instance in `due` or `retry`. |
| `SharedFiles_proofs!MutualExclusion`, `PidFileIsTrusted`, `Refinement` | `OneDaemon`, `ProbeIsRight`, `ImplementsSingleInstance` | `LockInv`: who is inside holds the flock, living daemons have different pids, the daemon a probe has met still runs and the pid in its hand is that daemon's. |
| `...!LinesAreKept` | `LinesKept` | `LogInv`: ids grow with the number of logged lines; unless a write was cut off, the last line lacks its newline only while its writer holds the flock (else an append would go to the wrong line), and what no pruning may drop is in the file, or, once a pruning has read it, in what that one writes back (`Whole`). The flock keeps everybody else out in between. |
| `...!PanelTypes`, `DrawsWhatIsThere` | `LogTypeOK`, `DrawsTheFile` | `ViewInv`: what the panel remembers are places among the lines it counted (`Placed`), whatever the file has become since. A refresh makes the window right again (`Exact`, which `LoadIsFresh` gives and `CoverAdds` keeps), and `RestoredTo` finds the selected line where it is now. |
| `...!TuiTypes`, `ParamsShown` | `TuiTypeOK`, `ParamsAreLoaded` | `Sound`: the copy of the preset, the list, the selection and the rows of parameters belong together (`Copied`), and an overlay is about what is selected (`ModeFits`). No key restores these one by one: a refresh gives all of them (`RefreshedApp`), a write gives them from the document it has written (`RebuiltSound`, `ReloadedSound`), and what leaves the copy alone keeps them (`StaysSound`). |
| `...!ShownIsDone` | `DoesWhatWasShown` | `Sound` again, with `AsShown` for each key that writes: what `Ensure` leaves has the active preset, and one lemma per change of a document (`ModuleRemoved`, `ModuleAdded`, `OrderWritten`, `ParamWritten`, `ParamRemoved`, `ParamRenamed`, `SeparatorWritten`) says what a change that was not refused has compared with the screen and what it leaves as it was (`OneSection`). It does not say that the preset is the one whose copy was on the screen. |
| `ControlPlane_proofs!PresetNotLost`, `WasmNotLost`, `ExtensionNotLost`, `OnlyConfigured` | `AckedPresetIsRead`, `AckedWasmRuns`, `AckedExtensionRuns`, `LoadedIsConfigured` | `Ready` is shared: promises are on disk, a batch is in hand only where it is applied, nothing runs in idle mode. `Carried` is the lemma that a part stays on its way until the step that applies it. `Preset`, `Wasm`, `Extension` and `Configured` add one property each. |
| `ConfigFiles_proofs!ActiveNamesAPreset` | `ActiveExists` | `Whole`: until something is spoiled, no file is cut (`Clean`), what an operation has read and checked still holds (`Knows`), and the temporary file it writes is its own (`OwnsTmp`). |
| `...!Refinement` | `ImplementsPresetStore` | From `Whole`: a rename or unlink is the abstract operation, every other step a stutter. |
| `ProcessWatch_proofs!WatchesTheLiving` | `TracksTheLiving` | `InStep`: unless the buffer overran, each pid without an event in the netlink buffer is tracked (or still to be read from /proc) as it should, and for the others the last event says what has become of it (`Tells`): that it lives, and under which name. |
| `Install_proofs!NothingIsLost`, `ReportsAreTrue` | `NothingLost`, `ReportIsTrue` | `Safe`: an installer that is alone is undisturbed, and `Journal` says at each place of `place_package_dir` where the old package is, which files of the new one are there, which of the old one have been copied back, and how many calls have failed by then: the two exceptions of `ErrorIsTrue` are counted. |
| `...!TwoInstallersAgree` | `FreshInstallsAgree`, for two installers of which neither is asked for the package twice (`Pair`, `AskedOnce`) | `OneAfterTheOther`: whoever copies over a package is the second one, and the first will not touch it again. With a third request it is false: that may move the copy aside half-way. |
| `ModuleRuntime_proofs!DoctorJudgesRight` | `DoctorIsRight` | `StartIs`: a start that was begun goes on with `ReadManifest` and `ReadWasm` only. `DoctorOfManifest` and `DoctorOfWasm` say what doctor reports of each. |
| `...!ReloadKeeps` | `KeepsRunning` | `Keeping`: an instance that ran and is still listed is among the kept, among what the loop has yet to look at, or its wasm was not there. |
| `...!ReloadChecksSchema` | `ReloadRevalidates` | `Revalidating`: between the two reads of a reload the kind is not validated. |
| `...!Settles` | `SettlesOnDisk` | `Settling`: for a package nobody is at work on, whose kind is in no batch and which is not excused (`Quiet`), the manifest in hand is the one on disk, every instance is current or of a kind that is still to be reloaded (`AllCurrent`), and every entry has an instance or will be looked at (`Covered`). `Noted`: what was placed and lacks an extension is excused, so a package that becomes startable by an extension is. |

Only model-checked:

* everything under fairness, since the prover has no rule for `ENABLED`:
  `SpawnedCallReturns`, `EventsAreTaken`, `PresetGetsRead`, `ShowsTheTruth`;
* what the operators without state compute. Some of them are recursive, and the
  prover has no induction over data. Where a proof needs a first element or the
  last event about a pid, it takes the least number of a set, which the
  well-foundedness of the naturals gives (`Least` in `SharedFiles_proofs`,
  `ProcessWatch_proofs` and `ModuleRuntime_proofs`). What the filter `Only` of
  the log returns is proved that way too (`OnlyKeeps`): a least length at which
  it would fail does not exist.

## 7. Not modelled, and why

* X11 output, argument parsing, printing, colours, wording and the columns of
  the screen: pure output or pure input, without state.
* The bytes of frames, of TOML and of JSON: what they carry is modelled.
* In the terminal interface: the daemon it starts and stops and polls for
  (`src/tui/app/daemon.rs`; the lock it polls is in `DaemonLock`), the lines of
  metadata and of requirements.
* Modules and extensions that read a value and print it; of the others
  keyboard and battery keep a watcher thread as the process extension does, of
  which one is modelled.
* Scaffolding, templates, the release workflow: for developers, and run by hand.
* The wait loop of `stop`, which only reads.

## 8. Plan

Done, in this order: `ExtensionRegistry`, `EventHub`, `DaemonLock` with
`SingleInstance`, `ControlPlane`; then `Install` with `Packages`, `ConfigFiles`
with `PresetStore`, `Tui`, `LogFile` with `LogView`, `ModuleRuntime`,
`ProcessWatch` and the operators without state.

Proved, in this order: the same four; then `ConfigFiles`, `ProcessWatch`,
`Install`, `ModuleRuntime`, `LogFile` with `LogView`, and `Tui`. Every safety
property of the runs is stated by a theorem.

Left: lemmas about `Versions`, on which hosts run which packages after an
upgrade.

Runs stay few. Two pairs are separate because they do not fit together: the
liveness of `hub` and of `control` needs smaller instances than their safety.
