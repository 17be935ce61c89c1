---------------------------- MODULE ModuleRuntime ----------------------------
(***************************************************************************)
(* The module runtime (src/module.rs) and the main loop that drives it     *)
(* (src/bar.rs), step by step against a package directory that installers  *)
(* change meanwhile (src/install.rs). Starting a module reads its manifest *)
(* and its wasm one after the other. ControlPlane has the same reloads as  *)
(* single steps, with the sockets and the clients; here the interleaving   *)
(* with the installers is what counts. Also the checks of `smstatus doctor *)
(* module` (src/doctor.rs), which read the same package.                   *)
(*                                                                         *)
(* An entry of the module list is [name, conf]; a list may have it twice.  *)
(* An instance is [name, conf, manifest, wasm, guest]: the versions it was *)
(* started from, the config the host has for it, and the one its guest was *)
(* initialised with, or Dead after a trap.                                 *)
(***************************************************************************)
EXTENDS Versions

CONSTANTS
    Kinds,          \* module kinds
    Names,          \* names of instances
    KindOf,         \* split_module_entry: the part of a name before the #
    Configs,        \* the sections of the preset
    Lists,          \* the module lists a preset may have
    Version,        \* a function from versions to what is in the package
    Host,           \* HOST_MODULES_API
    Extensions,     \* the possible sets of installed extensions, functions
                    \* from names to versions
    Dead,
    Missing, Torn,  \* a file that is not there, or not all of it
    MaxEdits,       \* bound on edits of the preset
    MaxInstalls,    \* bound on packages placed and changes of the extensions
    MaxFailures     \* bound on calls of a guest that fail

Versions == DOMAIN Version

ASSUME RuntimeAssumption ==
    /\ {Missing, Torn} \cap Versions = {}
    /\ KindOf \in [Names -> Kinds]
    /\ Dead \notin Configs
    /\ MaxEdits \in Nat /\ MaxInstalls \in Nat /\ MaxFailures \in Nat

\* The config of an entry is looked up by its name (module_config_json).
ASSUME ListsAssumption ==
    /\ <<>> \in Lists
    /\ Lists \subseteq Seq([name : Names, conf : Configs])
    /\ \A l \in Lists : \A i, j \in DOMAIN l : l[i].name = l[j].name => l[i] = l[j]

VARIABLES
    disk,       \* disk[k]: the files of the package
    arriving,   \* arriving[k]: the version that is being placed, or Missing
    extensions, \* the installed extensions
    configured, \* the module list of the active preset
    loaded,     \* the list the daemon has
    modules,    \* the instances
    validated,  \* validated_kinds
    idle,
    bound,      \* the control socket is bound
    batch,      \* reloads that were not taken yet
    pc, job,    \* what the main loop does, and with what
    edits, installs, failures,
    excused     \* history: kinds that were placed when the daemon could not be
                \* told, or that have lacked an extension since it was

files == <<disk, arriving, extensions, installs, excused>>
daemon == <<loaded, modules, validated, idle, bound, pc, job, failures>>
vars == <<files, configured, daemon, batch, edits>>

NoBatch == [config |-> FALSE, kinds |-> {}]
NoJob   == [todo |-> <<>>, pool |-> <<>>, kept |-> <<>>, kinds |-> {},
            step |-> "next", manifest |-> Missing, leave |-> FALSE,
            live |-> {}, was |-> {}, gone |-> {}]

NamesOf(s) == {s[i].name : i \in DOMAIN s}

-----------------------------------------------------------------------------
(* Versions and manifests. *)

\* unmet_extensions.
UnmetExtensions(requires) ==
    {r \in requires : \/ r.name \notin DOMAIN extensions
                      \/ ~MeetsFloor(extensions[r.name], r.floor)}

Parses(file) == file \in Versions /\ Version[file].parses

\* What start asks of the manifest.
Accepted(file) ==
    /\ Parses(file)
    /\ MeetsFloor(Host, Version[file].api)
    /\ UnmetExtensions(Version[file].requires) = {}

\* validate_schema.
ValidSchema(file) == file \in Versions /\ Version[file].schema

\* Mutant of CheckRequiredExtensions: one that is too old is taken for
\* installed.
CheckInstalledOnly(m) == {r.name : r \in {q \in m.requires : q.name \notin DOMAIN extensions}}

\* check_required_extensions.
CheckRequiredExtensions(m) == {r.name : r \in UnmetExtensions(m.requires)}

\* check_module_kind with a probe: the labels of the checks that fail.
Doctor(k) ==
    LET d == disk[k]
        manifestFails == IF Parses(d.manifest) THEN {} ELSE {<<"manifest.toml">>}
        apiFails == IF Parses(d.manifest) /\ ~MeetsFloor(Host, Version[d.manifest].api)
                    THEN {<<"modules-api">>} ELSE {}
        wasmFails == IF d.wasm = Missing THEN {<<"module.wasm">>} ELSE {}
        extFails == IF Parses(d.manifest)
                    THEN {<<"extension", n>> : n \in CheckRequiredExtensions(Version[d.manifest])}
                    ELSE {}
        schemaFails == IF d.wasm # Missing /\ ~ValidSchema(d.wasm)
                       THEN {<<"config-schema">>} ELSE {}
    IN  manifestFails \cup apiFails \cup wasmFails \cup extFails \cup schemaFails

-----------------------------------------------------------------------------
Lacking == {k \in Kinds : /\ Parses(disk[k].manifest)
                          /\ UnmetExtensions(Version[disk[k].manifest].requires) # {}}

Init ==
    /\ disk \in [Kinds -> {[manifest |-> v, wasm |-> v] : v \in Versions \cup {Missing}}]
    /\ arriving = [k \in Kinds |-> Missing]
    /\ extensions \in Extensions
    /\ configured \in Lists /\ loaded = <<>>
    /\ modules = <<>> /\ validated = {} /\ idle = TRUE
    /\ bound = FALSE /\ batch = NoBatch
    /\ pc = "boot" /\ job = NoJob
    /\ edits = 0 /\ installs = 0 /\ failures = 0
    /\ excused = Lacking

-----------------------------------------------------------------------------
(* Others: presets are edited, packages placed, extensions installed and   *)
(* removed, and the daemon is told, if its control socket is bound.        *)

Edit ==
    /\ edits < MaxEdits /\ edits' = edits + 1
    /\ configured' \in Lists \ {configured}
    /\ batch' = IF bound THEN [batch EXCEPT !.config = TRUE] ELSE batch
    /\ UNCHANGED <<files, daemon>>

\* place_package_dir: the old package is renamed aside.
MoveAside(k) ==
    /\ arriving[k] = Missing /\ installs < MaxInstalls
    /\ installs' = installs + 1
    /\ \E v \in Versions : arriving' = [arriving EXCEPT ![k] = v]
    /\ disk' = [disk EXCEPT ![k] = [manifest |-> Missing, wasm |-> Missing]]
    /\ UNCHANGED <<extensions, excused, configured, daemon, batch, edits>>

\* The new one is renamed into place, or copied file by file.
Place(k) ==
    /\ arriving[k] # Missing /\ disk[k] # [manifest |-> arriving[k], wasm |-> arriving[k]]
    /\ \/ disk' = [disk EXCEPT ![k] = [manifest |-> arriving[k], wasm |-> arriving[k]]]
       \/ \E f \in {"manifest", "wasm"} :
            /\ disk[k][f] # arriving[k]
            /\ disk' = [disk EXCEPT ![k][f] = IF @ = Missing THEN Torn ELSE arriving[k]]
    /\ UNCHANGED <<arriving, extensions, installs, excused, configured, daemon, batch, edits>>

\* notify_module_reload; NotRunning is no error. Before the daemon has read
\* anything it need not be told.
Notify(k) ==
    /\ arriving[k] # Missing /\ disk[k] = [manifest |-> arriving[k], wasm |-> arriving[k]]
    /\ arriving' = [arriving EXCEPT ![k] = Missing]
    /\ batch' = IF bound THEN [batch EXCEPT !.kinds = @ \cup {k}] ELSE batch
    /\ excused' = IF (bound \/ pc = "boot") /\ k \notin Lacking
                  THEN excused \ {k} ELSE excused \cup {k}
    /\ UNCHANGED <<disk, extensions, installs, configured, daemon, edits>>

\* extension install, upgrade and remove: the modules that require it are not
\* started again.
ChangeExtensions ==
    /\ installs < MaxInstalls /\ installs' = installs + 1
    /\ extensions' \in Extensions \ {extensions}
    /\ UNCHANGED <<disk, arriving, configured, daemon, batch, edits>>
    /\ excused' = excused \cup Lacking'

-----------------------------------------------------------------------------
(* The main loop starts, and takes batches. *)

Do(what, j) ==
    /\ pc' = what
    /\ job' = [j EXCEPT !.was = NamesOf(modules), !.kinds = batch.kinds]
    /\ batch' = NoBatch
    /\ UNCHANGED <<disk, arriving, extensions, installs, configured, validated, idle,
                   bound, edits, failures>>

\* The modules of the list are started, of whatever is on disk.
Activate ==
    /\ Do("activate", [NoJob EXCEPT !.todo = configured])
    /\ loaded' = configured /\ excused' = Lacking /\ UNCHANGED modules

\* resolve_initial_bar_mode.
Boot ==
    /\ pc = "boot"
    /\ IF configured # <<>> THEN Activate
       ELSE /\ pc' = "bind"
            /\ UNCHANGED <<files, configured, loaded, modules, validated, idle, bound,
                           batch, job, edits, failures>>

\* ControlListener::new, after the first start.
Bind ==
    /\ pc = "bind" /\ pc' = "wait" /\ bound' = TRUE
    /\ UNCHANGED <<files, configured, loaded, modules, validated, idle, batch, job,
                   edits, failures>>

\* try_leave_idle; in idle mode nothing else of a batch is looked at.
TakeIdle ==
    /\ pc = "wait" /\ idle /\ batch # NoBatch
    /\ IF batch.config /\ configured # <<>> THEN Activate
       ELSE batch' = NoBatch /\ UNCHANGED <<files, configured, daemon, edits>>

\* apply_reload_batch. An empty list makes the bar idle, after the rest of
\* the batch was served with the list it had.
TakeActive ==
    /\ pc = "wait" /\ ~idle /\ batch # NoBatch
    /\ UNCHANGED excused
    /\ IF ~batch.config
       THEN Do("wasm", [NoJob EXCEPT !.todo = modules]) /\ UNCHANGED <<loaded, modules>>
       ELSE IF configured = <<>>
       THEN Do("wasm", [NoJob EXCEPT !.leave = TRUE]) /\ modules' = <<>> /\ UNCHANGED loaded
       ELSE /\ Do("reload", [NoJob EXCEPT !.todo = configured, !.pool = modules])
            /\ loaded' = configured /\ UNCHANGED modules

-----------------------------------------------------------------------------
(* start. The task is the head of job.todo: an entry, or an instance whose *)
(* kind is reloaded.                                                       *)

Task == Head(job.todo)
TaskKind == KindOf[Task.name]

\* The task is done and leaves some instances behind.
Done(kept) ==
    job' = [job EXCEPT !.todo = Tail(@), !.kept = @ \o kept, !.step = "next",
                       !.manifest = Missing]

\* Mutant of Failed: the instance that could not be reloaded is gone.
FailedForGood == Done(<<>>)

\* A module that could not be started is left out; one that could not be
\* reloaded stays as it is.
Failed == Done(IF pc = "wasm" THEN <<Task>> ELSE <<>>)

\* Mutant of ReadManifest: a kind is validated once.
ReadManifestOnly ==
    /\ pc \in {"activate", "reload", "wasm", "create"} /\ job.step = "manifest"
    /\ LET file == disk[TaskKind].manifest
       IN  IF Accepted(file)
           THEN job' = [job EXCEPT !.step = "wasm", !.manifest = file] ELSE Failed
    /\ UNCHANGED <<files, configured, loaded, modules, validated, idle, bound, batch, pc, edits, failures>>

\* start up to the permissions; start_after_stable forgets that the kind was
\* validated.
ReadManifest ==
    /\ pc \in {"activate", "reload", "wasm", "create"} /\ job.step = "manifest"
    /\ validated' = IF pc \in {"wasm", "create"} THEN validated \ {TaskKind} ELSE validated
    /\ LET file == disk[TaskKind].manifest
       IN  IF Accepted(file)
           THEN job' = [job EXCEPT !.step = "wasm", !.manifest = file] ELSE Failed
    /\ UNCHANGED <<files, configured, loaded, modules, idle, bound, batch, pc, edits, failures>>

\* instantiate, config_schema or init may fail.
Fails == failures < MaxFailures /\ failures' = failures + 1 /\ Failed

\* The rest of start: the kind counts as validated before it is.
ReadWasm ==
    /\ job.step = "wasm"
    /\ LET file == disk[TaskKind].wasm
           checked == TaskKind \in validated \/ ValidSchema(file)
           inst == [name |-> Task.name, conf |-> Task.conf, manifest |-> job.manifest,
                    wasm |-> file, guest |-> Task.conf]
       IN  \/ file \notin Versions /\ Failed /\ UNCHANGED <<validated, failures>>
           \/ file \in Versions /\ Fails /\ UNCHANGED validated
           \/ /\ file \in Versions /\ validated' = validated \cup {TaskKind}
              /\ \/ ~checked /\ Failed /\ UNCHANGED failures
                 \/ checked /\ Done(<<inst>>) /\ UNCHANGED failures
                 \/ Fails
    /\ UNCHANGED <<files, configured, loaded, modules, idle, bound, batch, pc, edits>>

-----------------------------------------------------------------------------
(* reload: instances are matched with the entries by name. *)

\* Mutant of Reinited: the host does not note the new config.
ConfigForgotten(m, conf) == [m EXCEPT !.guest = conf]

\* init of the running guest with its new config.
Reinited(m, conf) == [m EXCEPT !.conf = conf, !.guest = conf]

Same(name) == SelectInSeq(job.pool, LAMBDA m : m.name = name)

ReloadEntry ==
    /\ pc = "reload" /\ job.todo # <<>> /\ job.step = "next"
    /\ LET i   == Same(Task.name)
           old == job.pool[i]
           reused(m) == job' = [job EXCEPT !.todo = Tail(@), !.kept = Append(@, m),
                                           !.pool = RemoveAt(@, i)]
       IN  IF i = 0
           THEN job' = [job EXCEPT !.step = "manifest"] /\ UNCHANGED failures
           ELSE IF old.conf = Task.conf
           THEN reused(old) /\ UNCHANGED failures
           ELSE \/ /\ old.guest # Dead
                   /\ reused(Reinited(old, Task.conf))
                   /\ UNCHANGED failures
                \/ old.guest = Dead /\ reused(old) /\ UNCHANGED failures
                \/ /\ failures < MaxFailures /\ failures' = failures + 1
                   /\ reused([old EXCEPT !.guest = Dead])
    /\ UNCHANGED <<files, configured, loaded, modules, validated, idle, bound, batch, pc, edits>>

(* reload_wasm. *)

\* Its first loop: instances of other kinds stay, those without a wasm go.
ReloadInstance ==
    /\ pc = "wasm" /\ job.todo # <<>> /\ job.step = "next"
    /\ IF TaskKind \notin job.kinds
       THEN Done(<<Task>>)
       ELSE IF disk[TaskKind].wasm = Missing
       THEN job' = [job EXCEPT !.todo = Tail(@), !.gone = @ \cup {Task.name}]
       ELSE job' = [job EXCEPT !.step = "manifest"]
    /\ UNCHANGED <<files, configured, loaded, modules, validated, idle, bound, batch, pc, edits, failures>>

\* Mutant of ToCreate: only what has an instance is looked after.
ToCreateNone == FALSE

\* An entry of a reloaded kind that was without an instance after the first
\* loop.
ToCreate == TaskKind \in job.kinds /\ Task.name \notin job.live

\* Its second loop, over the entries of the list.
CreateEntry ==
    /\ pc = "create" /\ job.todo # <<>> /\ job.step = "next"
    /\ IF ~ToCreate \/ disk[TaskKind].wasm = Missing THEN Done(<<>>)
       ELSE job' = [job EXCEPT !.step = "manifest"]
    /\ UNCHANGED <<files, configured, loaded, modules, validated, idle, bound, batch, pc, edits, failures>>

\* start_modules.
ActivateEntry ==
    /\ pc = "activate" /\ job.todo # <<>> /\ job.step = "next"
    /\ job' = [job EXCEPT !.step = "manifest"]
    /\ UNCHANGED <<files, configured, loaded, modules, validated, idle, bound, batch, pc, edits, failures>>

-----------------------------------------------------------------------------
(* The end of a loop. *)

ReloadEnds ==
    /\ pc = "reload" /\ job.todo = <<>>
    /\ modules' = job.kept
    /\ pc' = "wasm"
    /\ job' = [job EXCEPT !.todo = job.kept, !.pool = <<>>, !.kept = <<>>]
    /\ UNCHANGED <<files, configured, loaded, validated, idle, bound, batch, edits, failures>>

WasmEnds ==
    /\ pc = "wasm" /\ job.todo = <<>>
    /\ pc' = "create"
    /\ job' = [job EXCEPT !.todo = loaded, !.live = NamesOf(job.kept)]
    /\ UNCHANGED <<files, configured, loaded, modules, validated, idle, bound, batch, edits, failures>>

CreateEnds ==
    /\ pc = "create" /\ job.todo = <<>>
    /\ modules' = IF job.leave THEN <<>> ELSE job.kept
    /\ loaded' = IF job.leave THEN <<>> ELSE loaded
    /\ idle' = job.leave
    /\ pc' = "wait" /\ job' = NoJob
    /\ UNCHANGED <<files, configured, validated, bound, batch, edits, failures>>

ActivateEnds ==
    /\ pc = "activate" /\ job.todo = <<>>
    /\ modules' = job.kept
    /\ loaded' = IF job.kept = <<>> THEN <<>> ELSE loaded
    /\ idle' = (job.kept = <<>>)
    /\ pc' = (IF bound THEN "wait" ELSE "bind") /\ job' = NoJob
    /\ UNCHANGED <<files, configured, validated, bound, batch, edits, failures>>

-----------------------------------------------------------------------------
\* tick: a guest that traps is instantiated again from the component and the
\* permissions it was started with.
Tick ==
    /\ pc = "wait" /\ ~idle
    /\ \E i \in DOMAIN modules, traps \in 1 .. 2 :
         /\ modules[i].guest # Dead => failures + traps =< MaxFailures
         /\ modules[i].guest = Dead => failures + traps - 1 =< MaxFailures
         /\ failures' = failures + traps - IF modules[i].guest = Dead THEN 1 ELSE 0
         /\ modules' = [modules EXCEPT ![i].guest = IF traps = 1 THEN modules[i].conf ELSE Dead]
    /\ UNCHANGED <<files, configured, loaded, validated, idle, bound, batch, pc, job, edits>>

Next ==
    \/ Edit
    \/ \E k \in Kinds : MoveAside(k) \/ Place(k) \/ Notify(k)
    \/ ChangeExtensions
    \/ Boot \/ Bind
    \/ TakeIdle \/ TakeActive
    \/ ActivateEntry \/ ReloadEntry \/ ReloadInstance \/ CreateEntry
    \/ ReadManifest \/ ReadWasm
    \/ ReloadEnds \/ WasmEnds \/ CreateEnds \/ ActivateEnds
    \/ Tick

Spec == Init /\ [][Next]_vars

-----------------------------------------------------------------------------
(* Properties. *)

\* Types; what the host has as the config of an instance is what its guest was
\* initialised with, unless that has trapped.
TypeOK ==
    /\ \A k \in Kinds, f \in {"manifest", "wasm"} :
         disk[k][f] \in Versions \cup {Missing, Torn}
    /\ arriving \in [Kinds -> Versions \cup {Missing}]
    /\ configured \in Lists /\ loaded \in Lists
    /\ validated \subseteq Kinds /\ batch.kinds \subseteq Kinds
    /\ pc \in {"boot", "bind", "wait", "activate", "reload", "wasm", "create"}
    /\ \A m \in Range(modules) \cup Range(job.kept) : m.guest \in {m.conf, Dead}
    /\ idle => modules = <<>>
    /\ pc \in {"boot", "bind", "wait"} => job = NoJob /\ (idle <=> loaded = <<>>)
    /\ pc \in {"boot", "bind"} => ~bound

Settled ==
    /\ pc = "wait" /\ batch = NoBatch /\ ~idle
    /\ \A k \in Kinds : arriving[k] = Missing

Startable(k) ==
    /\ Accepted(disk[k].manifest)
    /\ ValidSchema(disk[k].wasm)

\* When the installers are done and the daemon has served what they told it,
\* every entry of the list whose package is good runs, with its config, from
\* the manifest and the wasm that are on disk, however the steps of the two
\* were interleaved; unless a guest failed, the package was placed between the
\* first start and the bind of the control socket, or an extension that it
\* requires was not there all the time since.
SettlesOnDisk ==
    Settled /\ failures = 0 =>
        \A e \in Range(loaded) :
            Startable(KindOf[e.name]) /\ KindOf[e.name] \notin excused =>
                \E m \in Range(modules) :
                    /\ m.name = e.name /\ m.conf = e.conf /\ m.guest = e.conf
                    /\ m.wasm = disk[KindOf[e.name]].wasm
                    /\ m.manifest = disk[KindOf[e.name]].manifest

\* No reload costs the bar a module that ran and is still configured, whatever
\* fails: only one whose wasm was not there when its kind was reloaded goes.
KeepsRunning ==
    [][pc # "wait" /\ pc' = "wait" /\ ~idle' =>
        \A n \in job.was : n \in NamesOf(loaded') =>
            n \in NamesOf(modules') \cup job.gone]_vars

\* An instance that a reload of its kind starts has a schema that was checked,
\* though the kind was validated with another version.
ReloadRevalidates ==
    [][job.step = "wasm" /\ pc \in {"wasm", "create"} /\ job'.kept # job.kept =>
        LET m == Last(job'.kept) IN m = Task \/ ValidSchema(m.wasm)]_vars

WasmChecks == {<<"module.wasm">>, <<"config-schema">>}

\* What a start makes of its task: an instance of what it has read, or what was
\* there before.
MakesInstance ==
    job'.kept = Append(job.kept, [name |-> Task.name, conf |-> Task.conf,
                                  manifest |-> job.manifest, wasm |-> disk[TaskKind].wasm,
                                  guest |-> Task.conf])
MakesNothing == job'.kept = job.kept \o (IF pc = "wasm" THEN <<Task>> ELSE <<>>)

\* A start gets as far as `smstatus doctor module --probe` says at that moment:
\* past the manifest exactly when nothing but the wasm and its schema is found
\* wrong, and then, unless the guest fails, through its init exactly when these
\* are right too; but for the schema of a kind that was validated before, which a
\* start does not look at.
DoctorIsRight ==
    [][/\ job.step = "manifest" /\ job' # job =>
            (job'.step = "wasm" <=> Doctor(TaskKind) \subseteq WasmChecks)
       /\ job.step = "wasm" /\ job' # job /\ failures' = failures =>
            IF \/ Doctor(TaskKind) \cap WasmChecks = {}
               \/ /\ Doctor(TaskKind) \cap WasmChecks = {<<"config-schema">>}
                  /\ TaskKind \in validated /\ disk[TaskKind].wasm # Torn
            THEN MakesInstance ELSE MakesNothing]_vars
=============================================================================
