---------------------------- MODULE ControlPlane ----------------------------
(***************************************************************************)
(* How a change on disk reaches a running daemon: the commands and the TUI *)
(* that edit and notify (notify_running), the control socket and its       *)
(* thread (src/control.rs, src/reload.rs), and the bar that loads presets, *)
(* applies reload batches and enters and leaves idle mode (src/bar.rs,     *)
(* src/module.rs).                                                         *)
(*                                                                         *)
(* Data: the active preset, one module kind and one extension are versions *)
(* on disk; a preset also lists instances, all of the one kind.            *)
(***************************************************************************)
EXTENDS Naturals, Sequences

CONSTANTS
    Clients,     \* processes that edit once and notify once
    Instances,   \* module instance names
    Presets,     \* what an edit may make of the preset: its instances
    Editable,    \* the parts that clients change
    MaxRestarts  \* crashes of the daemon in one behaviour

Parts == {"config", "wasm", "extension"}
NoPreset == {}

ASSUME ControlAssumption ==
    /\ Presets \subseteq SUBSET Instances
    /\ Editable \subseteq Parts
    /\ MaxRestarts \in Nat

VARIABLES
    disk,     \* version of each part, and the preset
    clients,  \* pc, what is edited and asked for, the versions edited
    socket,   \* the control socket's file: "none", "stale", "bound"
    backlog,  \* connections not accepted yet
    batch,    \* control thread: parts merged since the first of its window
    channel,  \* batches sent to the main loop
    bar,      \* main thread, see BarType
    process,  \* version of the running extension process, 0 for none
    ignored,  \* history: newest extension version whose reload was ignored
    crashes   \* history: crashes so far

vars == <<disk, clients, socket, backlog, batch, channel, bar, process,
          ignored, crashes>>

\* The bar: its pc; whether it waits with time left and no event there; the
\* version of the preset read last; the preset in use; the wasm version of
\* each instance, 0 if not loaded; instances still to be started; instances
\* that a failed restart left on their old wasm; the batch being applied; idle
\* mode; whether the batch found an empty preset.
Off == [pc |-> "off", spare |-> FALSE, read |-> 0, preset |-> NoPreset,
        inst |-> [i \in Instances |-> 0], todo |-> {}, kept |-> {},
        hand |-> {}, idle |-> TRUE, entering |-> FALSE]

Init ==
    /\ \E p \in Presets : disk = [version |-> [x \in Parts |-> 1], preset |-> p]
    /\ clients = [c \in Clients |-> [pc |-> "new", req |-> {},
                                     saw |-> [x \in Parts |-> 0]]]
    /\ socket = "none" /\ backlog = <<>> /\ batch = {} /\ channel = <<>>
    /\ bar = Off
    /\ process = 0 /\ ignored = 0 /\ crashes = 0

At(pc) == bar.pc = pc
Loaded == {i \in Instances : bar.inst[i] > 0}

-----------------------------------------------------------------------------
(* Clients. A request for nothing is a status query. *)

\* A preset is edited or switched, a module package or an extension replaced.
Edit(c) ==
    /\ clients[c].pc = "new"
    /\ \E req \in SUBSET Editable, p \in Presets :
         LET after == [x \in Parts |-> disk.version[x] + (IF x \in req THEN 1 ELSE 0)]
         IN  /\ disk' = [version |-> after,
                         preset  |-> IF "config" \in req THEN p ELSE disk.preset]
             /\ clients' = [clients EXCEPT
                              ![c] = [pc |-> "edited", req |-> req, saw |-> after]]
    /\ UNCHANGED <<socket, backlog, batch, channel, bar, process, ignored, crashes>>

\* notify_running: the request is written whole when connect succeeds.
Connect(c) ==
    /\ clients[c].pc = "edited"
    /\ IF socket = "bound"
       THEN /\ backlog' = Append(backlog, c)
            /\ clients' = [clients EXCEPT ![c].pc = "waiting"]
       ELSE /\ clients' = [clients EXCEPT ![c].pc = "not_running"]
            /\ UNCHANGED backlog
    /\ UNCHANGED <<disk, socket, batch, channel, bar, process, ignored, crashes>>

\* READ_TIMEOUT
GiveUp(c) ==
    /\ clients[c].pc = "waiting"
    /\ clients' = [clients EXCEPT ![c].pc = "failed"]
    /\ UNCHANGED <<disk, socket, backlog, batch, channel, bar, process, ignored,
                   crashes>>

-----------------------------------------------------------------------------
(* The control thread. *)

\* Mutant of Serve: the latest request replaces the batch.
ServeOverwrites ==
    /\ backlog # <<>>
    /\ backlog' = Tail(backlog)
    /\ LET c == Head(backlog) IN
       IF clients[c].pc = "waiting"
       THEN /\ clients' = [clients EXCEPT ![c].pc = "ok"]
            /\ batch' = IF clients[c].req = {} THEN batch ELSE clients[c].req
       ELSE UNCHANGED <<clients, batch>>
    /\ UNCHANGED <<disk, socket, channel, bar, process, ignored, crashes>>

\* accept and serve_client, in the outer loop and within the coalescing
\* window. The request of a client that has gone is ignored: the answer
\* cannot be written.
Serve ==
    /\ backlog # <<>>
    /\ backlog' = Tail(backlog)
    /\ LET c == Head(backlog) IN
       IF clients[c].pc = "waiting"
       THEN /\ clients' = [clients EXCEPT ![c].pc = "ok"]
            /\ batch' = batch \cup clients[c].req
       ELSE UNCHANGED <<clients, batch>>
    /\ UNCHANGED <<disk, socket, channel, bar, process, ignored, crashes>>

\* The window of 200 ms is over.
Send ==
    /\ batch # {}
    /\ channel' = Append(channel, batch)
    /\ batch' = {}
    /\ UNCHANGED <<disk, clients, socket, backlog, bar, process, ignored, crashes>>

-----------------------------------------------------------------------------
(* The main thread: start-up. *)

Boot ==
    /\ At("off")
    /\ bar' = [Off EXCEPT !.pc = "load"]
    /\ UNCHANGED <<disk, clients, socket, backlog, batch, channel, process,
                   ignored, crashes>>

\* load_bar_config in resolve_initial_bar_mode and try_leave_idle: Ready has
\* all instances started, Idle goes on at pc.
LoadIdle(pc) ==
    bar' = IF disk.preset = NoPreset
           THEN [bar EXCEPT !.pc = pc, !.read = disk.version["config"], !.hand = {}]
           ELSE [bar EXCEPT !.pc = "start", !.read = disk.version["config"],
                            !.hand = {}, !.preset = disk.preset,
                            !.todo = disk.preset]

LoadInitial ==
    /\ At("load")
    /\ LoadIdle("unlink")
    /\ UNCHANGED <<disk, clients, socket, backlog, batch, channel, process,
                   ignored, crashes>>

\* Mutant of StartInstance: a new instance that fails is kept, too.
StartInstanceKeepsNew(i) ==
    /\ At("start") /\ i \in bar.todo
    /\ \/ bar' = [bar EXCEPT !.inst[i] = disk.version["wasm"],
                             !.todo = @ \ {i}, !.kept = @ \ {i}]
       \/ bar' = [bar EXCEPT !.todo = @ \ {i}, !.kept = @ \cup {i}]
    /\ UNCHANGED <<disk, clients, socket, backlog, batch, channel, process,
                   ignored, crashes>>

\* ModuleRuntime::start reads the wasm on disk, for a new instance or for one
\* whose wasm is reloaded. A failure keeps the latter as it was, and drops it
\* if the wasm is missing, as it is while a package is being replaced.
StartInstance(i) ==
    /\ At("start") /\ i \in bar.todo
    /\ \/ bar' = [bar EXCEPT !.inst[i] = disk.version["wasm"],
                             !.todo = @ \ {i}, !.kept = @ \ {i}]
       \/ bar' = [bar EXCEPT !.todo = @ \ {i}, !.kept = @ \cup (Loaded \cap {i})]
       \/ bar' = [bar EXCEPT !.inst[i] = 0, !.todo = @ \ {i}, !.kept = @ \ {i}]
    /\ UNCHANGED <<disk, clients, socket, backlog, batch, channel, process,
                   ignored, crashes>>

\* start_modules in activate_config, which stays idle if nothing started; or
\* back in apply_reload_batch.
Started ==
    /\ At("start") /\ bar.todo = {}
    /\ bar' = IF ~bar.idle THEN [bar EXCEPT !.pc = "apply"]
              ELSE [bar EXCEPT !.pc = IF socket = "bound" THEN "tick" ELSE "unlink",
                               !.idle = (Loaded = {}),
                               !.preset = IF Loaded = {} THEN NoPreset ELSE @]
    /\ UNCHANGED <<disk, clients, socket, backlog, batch, channel, process,
                   ignored, crashes>>

\* ControlListener::new, after the preset was read and the modules started.
Unlink ==
    /\ At("unlink")
    /\ socket' = "none"
    /\ bar' = [bar EXCEPT !.pc = "bind"]
    /\ UNCHANGED <<disk, clients, backlog, batch, channel, process, ignored,
                   crashes>>

Bind ==
    /\ At("bind")
    /\ socket' = "bound"
    /\ bar' = [bar EXCEPT !.pc = "tick"]
    /\ UNCHANGED <<disk, clients, backlog, batch, channel, process, ignored,
                   crashes>>

-----------------------------------------------------------------------------
(* The main loop. *)

\* init and update may call the extension: the registry spawns it from disk
\* if it does not run.
CallExtension ==
    /\ At("start") \/ (At("tick") /\ Loaded # {})
    /\ process = 0
    /\ process' = disk.version["extension"]
    /\ UNCHANGED <<disk, clients, socket, backlog, batch, channel, bar, ignored,
                   crashes>>

\* The deadline of an instance counts from the start of its update, so whether
\* an interval leaves time depends on how long the updates take; and an event
\* may be there. With no instance loaded there is a second.
Ticked ==
    /\ At("tick")
    /\ \E spare \in IF Loaded = {} THEN {TRUE} ELSE BOOLEAN :
         bar' = [bar EXCEPT !.pc = "wait", !.spare = spare]
    /\ UNCHANGED <<disk, clients, socket, backlog, batch, channel, process,
                   ignored, crashes>>

\* A slice of 50 ms has passed without a batch: an event is there now, or the
\* deadline has come.
Slice ==
    /\ At("wait") /\ bar.spare /\ channel = <<>>
    /\ bar' = [bar EXCEPT !.spare = FALSE]
    /\ UNCHANGED <<disk, clients, socket, backlog, batch, channel, process,
                   ignored, crashes>>

\* wait_for_reload_or_event returns an event, or nothing at the deadline.
TickAgain ==
    /\ At("wait") /\ ~bar.spare
    /\ bar' = [bar EXCEPT !.pc = "tick"]
    /\ UNCHANGED <<disk, clients, socket, backlog, batch, channel, process,
                   ignored, crashes>>

\* Mutant of Receive: later batches supersede earlier ones.
ReceiveLatest ==
    /\ At("wait") /\ bar.spare /\ channel # <<>>
    /\ bar' = [bar EXCEPT !.pc = "apply", !.spare = FALSE,
                          !.hand = channel[Len(channel)]]
    /\ channel' = <<>>
    /\ UNCHANGED <<disk, clients, socket, backlog, batch, process, ignored,
                   crashes>>

\* recv_timeout: only with time left is the channel looked at.
Receive ==
    /\ At("wait") /\ bar.spare /\ channel # <<>>
    /\ bar' = [bar EXCEPT !.pc = "apply", !.spare = FALSE, !.hand = Head(channel)]
    /\ channel' = Tail(channel)
    /\ UNCHANGED <<disk, clients, socket, backlog, batch, process, ignored,
                   crashes>>

-----------------------------------------------------------------------------
(* Applying a batch. *)

\* In idle mode only a configuration counts.
ApplyIdle ==
    /\ At("apply") /\ bar.idle
    /\ IF "config" \in bar.hand
       THEN LoadIdle("tick")
       ELSE bar' = [bar EXCEPT !.pc = "tick", !.hand = {}]
    /\ ignored' = IF "extension" \in bar.hand THEN disk.version["extension"]
                                              ELSE ignored
    /\ UNCHANGED <<disk, clients, socket, backlog, batch, channel, process,
                   crashes>>

\* ModuleRuntime::reload, or the drop of all instances for an empty preset.
\* Instances that stay keep their wasm.
ApplyConfig ==
    LET new == disk.preset
        stay == Loaded \cap new
        read == [bar EXCEPT !.read = disk.version["config"], !.hand = @ \ {"config"},
                            !.inst = [i \in Instances |-> IF i \in stay THEN @[i] ELSE 0],
                            !.kept = @ \cap stay]
    IN
    /\ At("apply") /\ ~bar.idle /\ "config" \in bar.hand
    /\ bar' = IF new = NoPreset
              THEN [read EXCEPT !.entering = TRUE]
              ELSE [read EXCEPT !.pc = "start", !.preset = new, !.todo = new \ stay]
    /\ UNCHANGED <<disk, clients, socket, backlog, batch, channel, process,
                   ignored, crashes>>

\* Mutant of ApplyWasm: the instances that run are left alone.
ApplyWasmMissing ==
    /\ At("apply") /\ ~bar.idle /\ "config" \notin bar.hand /\ "wasm" \in bar.hand
    /\ bar' = [bar EXCEPT !.pc = "start", !.hand = @ \ {"wasm"},
                          !.todo = bar.preset \ Loaded]
    /\ UNCHANGED <<disk, clients, socket, backlog, batch, channel, process,
                   ignored, crashes>>

\* reload_wasm: the instances that run, and those of the preset that do not.
ApplyWasm ==
    /\ At("apply") /\ ~bar.idle /\ "config" \notin bar.hand /\ "wasm" \in bar.hand
    /\ bar' = [bar EXCEPT !.pc = "start", !.hand = @ \ {"wasm"},
                          !.todo = Loaded \cup bar.preset]
    /\ UNCHANGED <<disk, clients, socket, backlog, batch, channel, process,
                   ignored, crashes>>

\* Mutants of ApplyRest: idle mode is entered before extensions are dropped;
\* and without clearing the instances.
ApplyRestIdleFirst ==
    /\ At("apply") /\ ~bar.idle /\ bar.hand \subseteq {"extension"}
    /\ process' = IF "extension" \in bar.hand /\ ~bar.entering THEN 0 ELSE process
    /\ bar' = IF bar.entering
              THEN [Off EXCEPT !.pc = "tick", !.read = bar.read]
              ELSE [bar EXCEPT !.pc = "tick", !.hand = {}]
    /\ UNCHANGED <<disk, clients, socket, backlog, batch, channel, ignored,
                   crashes>>

ApplyRestUncleared ==
    /\ At("apply") /\ ~bar.idle /\ bar.hand \subseteq {"extension"}
    /\ process' = IF "extension" \in bar.hand THEN 0 ELSE process
    /\ bar' = [bar EXCEPT !.pc = "tick", !.hand = {}, !.idle = bar.entering,
                          !.entering = FALSE]
    /\ UNCHANGED <<disk, clients, socket, backlog, batch, channel, ignored,
                   crashes>>

\* The end of apply_reload_batch: drop_running; then idle mode, if the preset
\* was empty.
ApplyRest ==
    /\ At("apply") /\ ~bar.idle /\ bar.hand \subseteq {"extension"}
    /\ process' = IF "extension" \in bar.hand THEN 0 ELSE process
    /\ bar' = IF bar.entering
              THEN [Off EXCEPT !.pc = "tick", !.read = bar.read]
              ELSE [bar EXCEPT !.pc = "tick", !.hand = {}]
    /\ UNCHANGED <<disk, clients, socket, backlog, batch, channel, ignored,
                   crashes>>

\* The daemon is stopped or dies, at any moment. Its socket file stays, its
\* connections close, and its extension processes exit when theirs does.
Crash ==
    /\ ~At("off") /\ crashes < MaxRestarts
    /\ crashes' = crashes + 1
    /\ bar' = Off
    /\ socket' = IF socket = "bound" THEN "stale" ELSE socket
    /\ clients' = [c \in Clients |->
                     IF clients[c].pc = "waiting" THEN [clients[c] EXCEPT !.pc = "failed"]
                                                  ELSE clients[c]]
    /\ backlog' = <<>> /\ batch' = {} /\ channel' = <<>>
    /\ process' = 0 /\ ignored' = 0
    /\ UNCHANGED disk

-----------------------------------------------------------------------------
ControlStep == Serve \/ Send

BarStep ==
    \/ LoadInitial \/ (\E i \in Instances : StartInstance(i)) \/ Started
    \/ Unlink \/ Bind \/ Ticked \/ Slice \/ TickAgain \/ Receive
    \/ ApplyIdle \/ ApplyConfig \/ ApplyWasm \/ ApplyRest

Next ==
    \/ \E c \in Clients : Edit(c) \/ Connect(c) \/ GiveUp(c)
    \/ ControlStep \/ Boot \/ BarStep \/ CallExtension \/ Crash

Spec == Init /\ [][Next]_vars

\* The two threads are scheduled.
Fairness == WF_vars(Serve) /\ WF_vars(Send) /\ WF_vars(BarStep)

FairSpec == Spec /\ Fairness

-----------------------------------------------------------------------------
(* Properties. *)

BarType ==
    /\ bar \in [pc : {"off", "load", "start", "unlink", "bind", "tick", "wait",
                      "apply"},
                spare : BOOLEAN, read : Nat, preset : Presets \cup {NoPreset},
                inst : [Instances -> Nat], todo : SUBSET Instances,
                kept : SUBSET Instances, hand : SUBSET Parts, idle : BOOLEAN,
                entering : BOOLEAN]
    /\ bar.kept \subseteq Loaded /\ (bar.spare => At("wait"))
    /\ bar.todo # {} => At("start")
    /\ bar.entering => ~bar.idle /\ bar.pc \in {"start", "apply"}

TypeOK ==
    /\ disk \in [version : [Parts -> Nat \ {0}], preset : Presets]
    /\ clients \in [Clients -> [pc : {"new", "edited", "waiting", "ok", "failed",
                                      "not_running"},
                                req : SUBSET Parts, saw : [Parts -> Nat]]]
    /\ socket \in {"none", "stale", "bound"}
    /\ backlog \in Seq(Clients) /\ batch \subseteq Parts
    /\ channel \in Seq((SUBSET Parts) \ {{}})
    /\ BarType
    /\ process \in Nat /\ ignored \in Nat /\ crashes \in Nat

\* A reload of this part is on its way to the bar, or the bar has not read
\* anything yet.
OnItsWay(part) ==
    \/ part \in batch \cup bar.hand
    \/ \E k \in 1 .. Len(channel) : part \in channel[k]
    \/ bar.pc \in {"off", "load"}

Acked(c, part) == clients[c].pc = "ok" /\ part \in clients[c].req

\* "reload delivered" is not said in vain: an acknowledged change of the
\* preset has been read by the daemon, or a batch that will make it read is on
\* its way, whatever other requests the batch was merged with and whatever
\* clients went away.
AckedPresetIsRead ==
    \A c \in Clients : Acked(c, "config") =>
      bar.read >= clients[c].saw["config"] \/ OnItsWay("config")

\* An acknowledged module update is what every instance runs, unless its
\* restart failed, also when the bar is entering or leaving idle mode.
AckedWasmRuns ==
    \A c \in Clients, i \in Instances : Acked(c, "wasm") /\ i \in Loaded =>
      \/ bar.inst[i] >= clients[c].saw["wasm"]
      \/ OnItsWay("wasm") \/ i \in bar.todo \cup bar.kept

\* An acknowledged extension reload leaves no process of the old binary,
\* except that idle mode ignored it.
AckedExtensionRuns ==
    \A c \in Clients : Acked(c, "extension") /\ process > 0 =>
      \/ process >= clients[c].saw["extension"]
      \/ OnItsWay("extension") \/ clients[c].saw["extension"] <= ignored

\* Between batches the bar runs instances of its preset only, and none in idle
\* mode, although a batch that enters idle mode may start instances of the
\* preset it leaves.
LoadedIsConfigured ==
    At("wait") => Loaded \subseteq bar.preset /\ (bar.idle => Loaded = {})

\* The loop comes to its wait with time left and no event there again and
\* again. Nothing in the code sees to that: intervals not longer than a pass
\* of the updates, or events that come as fast, leave none.
TimeIsLeft == []<>(At("wait") /\ bar.spare)

\* An acknowledged change of the preset is read unless the daemon ends, in any
\* run in which the loop has time left again and again.
PresetGetsRead ==
    TimeIsLeft =>
      \A c \in Clients :
        Acked(c, "config") ~> (bar.read >= clients[c].saw["config"] \/ At("off"))

\* "Reload active preset (module list, separator, log retention, param
\* re-init)" (cli.rs:41): an acknowledged change is read, unless the daemon
\* ends.
ReloadIsApplied ==
    \A c \in Clients :
      Acked(c, "config") ~> (bar.read >= clients[c].saw["config"] \/ At("off"))

\* "Stop and respawn an extension from disk (repeatable; explicit trust event)"
\* (cli.rs:47): an acknowledged reload that has been through the bar leaves no
\* process of the old binary.
ExtensionIsRespawned ==
    \A c \in Clients : Acked(c, "extension") /\ process > 0 =>
      process >= clients[c].saw["extension"] \/ OnItsWay("extension")

=============================================================================
