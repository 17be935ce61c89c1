------------------------- MODULE ExtensionRegistry -------------------------
(***************************************************************************)
(* The registry of native extension processes (src/extension/registry.rs), *)
(* the handshake it performs (client.rs) and the process on the other side *)
(* of the socket (packages/extension-protocol), for one extension name.    *)
(*                                                                         *)
(* Threads: the bar's main thread runs `call` and `drop_running`; one      *)
(* reader thread per connection; the control thread runs `live_state`.     *)
(* An extension accepts exactly one connection in its life, so a           *)
(* connection is identified by the process at its other end.               *)
(*                                                                         *)
(* Timers are nondeterministic: a timeout may fire whenever the thing it   *)
(* waits for has not happened.                                             *)
(***************************************************************************)
EXTENDS Naturals, Sequences

CONSTANTS
    MaxSpawns,    \* processes started in one behaviour
    MaxCalls,     \* requests made in one behaviour
    MaxInstalls,  \* replacements of the package on disk
    MaxEvents     \* unread event frames per process

ASSUME BoundsAssumption ==
    /\ MaxSpawns \in Nat /\ MaxCalls \in Nat
    /\ MaxInstalls \in Nat /\ MaxEvents \in Nat

Procs    == 1 .. MaxSpawns
Requests == 1 .. MaxCalls
None     == 0                 \* no process, no request
NoAnswer == [to |-> None, echo |-> None, ok |-> FALSE]

VARIABLES
    disk,       \* version of the package in the extensions directory
    proc,       \* life of each process
    version,    \* package version each process was started from
    socket,     \* process that created the file at the socket path
    child,      \* `children`: the process the registry will kill
    conn,       \* `connections`: the process calls are routed to
    connHeld,   \* the main thread holds the `connections` mutex
    backing,    \* `failures`: now < retry_after
    host,       \* main thread: pc, current request, peer, reason of the step
    pending,    \* per connection: request whose sender sits in `pending`
    reader,     \* per connection: its reader thread
    answer,     \* the rpc's result channel
    inbox,      \* requests written to the process, unread
    outbox,     \* frames written by the process, unread
    shut,       \* connections whose LiveConnection was dropped
    status,     \* control thread inside `live_state`
    result,     \* history: outcome of the last call that returned
    floor       \* history: version on disk when drop_running last finished

netVars  == <<pending, reader, answer, inbox, outbox, shut>>
procVars == <<proc, version, socket, child>>
vars == <<disk, procVars, conn, connHeld, backing, host, netVars, status,
          result, floor>>

Alive(p)  == proc[p] \in {"starting", "bound", "serving"}
At(pc)    == host.pc = pc
Goto(pc)  == host' = [host EXCEPT !.pc = pc]

\* The frames an extension writes: answers to a request, and events.
Reply(r, ok) == [kind |-> "response", req |-> r, ok |-> ok]
Event        == [kind |-> "event", req |-> None, ok |-> TRUE]

Init ==
    /\ disk = 0 /\ floor = 0
    /\ proc = [p \in Procs |-> "unborn"]
    /\ version = [p \in Procs |-> 0]
    /\ socket = None /\ child = None /\ conn = None
    /\ connHeld = FALSE /\ backing = FALSE
    /\ host = [pc |-> "idle", req |-> None, to |-> None, why |-> "call"]
    /\ pending = [p \in Procs |-> None]
    /\ reader = [p \in Procs |-> "none"]
    /\ answer = NoAnswer
    /\ inbox = [p \in Procs |-> <<>>]
    /\ outbox = [p \in Procs |-> <<>>]
    /\ shut = {}
    /\ status = [pc |-> "idle", said |-> "idle"]
    /\ result = [req |-> None, ok |-> FALSE, echo |-> None, from |-> None]

-----------------------------------------------------------------------------
(* Leaving `call`. *)

Return(ok, echo, from) ==
    /\ Goto("idle")
    /\ result' = [req |-> host.req, ok |-> ok, echo |-> echo, from |-> from]

\* record_failure, then Err to the caller.
Fail == backing' = TRUE /\ Return(FALSE, None, None)

-----------------------------------------------------------------------------
(* `call`: backoff check, lookup, rpc, and at most one respawn. *)

BeginCall ==
    /\ At("idle") /\ host.req < MaxCalls
    /\ host' = [host EXCEPT !.req = @ + 1, !.why = "call",
                            !.pc = IF backing THEN "idle" ELSE "lookup"]
    /\ result' = IF backing
                 THEN [req |-> host.req + 1, ok |-> FALSE, echo |-> None,
                       from |-> None]
                 ELSE result
    /\ UNCHANGED <<disk, procVars, conn, connHeld, backing, netVars, status,
                   floor>>

\* The guard of `connections` is a temporary of the `if let` scrutinee: it
\* lives through the body, that is, through the whole rpc on a reused
\* connection.
Lookup ==
    /\ At("lookup") /\ ~connHeld
    /\ connHeld' = (conn # None)
    /\ host' = IF conn = None
               THEN [host EXCEPT !.pc = "spawn"]
               ELSE [host EXCEPT !.pc = "send", !.to = conn, !.why = "reuse"]
    /\ UNCHANGED <<disk, procVars, conn, backing, netVars, status, result,
                   floor>>

WriteRequest ==
    LET p == host.to IN
    /\ At("send") /\ pending[p] = None
    /\ proc[p] = "serving"
    /\ pending' = [pending EXCEPT ![p] = host.req]
    /\ inbox' = [inbox EXCEPT ![p] = Append(@, host.req)]
    /\ answer' = NoAnswer
    /\ Goto("wait")
    /\ UNCHANGED <<disk, procVars, conn, connHeld, backing, reader, outbox,
                   shut, status, result, floor>>

\* The peer is gone, or the write times out: `pending` is taken back.
WriteFails ==
    /\ At("send")
    /\ pending' = [pending EXCEPT ![host.to] = None]
    /\ Goto("unroute")
    /\ UNCHANGED <<disk, procVars, conn, connHeld, backing, reader, answer,
                   inbox, outbox, shut, status, result, floor>>

ReceiveAnswer ==
    /\ At("wait") /\ answer.to = host.req
    /\ answer' = NoAnswer
    /\ IF answer.ok
       THEN /\ backing' = FALSE
            /\ connHeld' = FALSE
            /\ Return(TRUE, answer.echo, host.to)
       ELSE /\ Goto("unroute")
            /\ UNCHANGED <<backing, connHeld, result>>
    /\ UNCHANGED <<disk, procVars, conn, pending, reader, inbox, outbox, shut,
                   status, floor>>

RpcTimeout ==
    /\ At("wait") /\ answer.to # host.req
    /\ pending' = [pending EXCEPT ![host.to] = None]
    /\ Goto("unroute")
    /\ UNCHANGED <<disk, procVars, conn, connHeld, backing, reader, answer,
                   inbox, outbox, shut, status, result, floor>>

\* Mutant of Unroute: an error on a fresh connection leaves it in the map.
UnrouteKeepsFresh ==
    /\ At("unroute") /\ ~connHeld
    /\ conn' = IF host.why = "fresh" THEN conn ELSE None
    /\ shut' = IF host.why = "fresh" THEN shut ELSE shut \cup ({conn} \ {None})
    /\ IF host.why = "fresh"
       THEN Fail
       ELSE /\ Goto(IF host.why = "reuse" THEN "spawn" ELSE "kill")
            /\ UNCHANGED <<backing, result>>
    /\ UNCHANGED <<disk, procVars, connHeld, pending, reader, answer, inbox,
                   outbox, status, floor>>

\* lock(&self.connections).remove(name), at its three sites: after an error
\* on a reused connection (where this thread still holds the mutex), after
\* an error on a fresh one, and in drop_running. The last Arc dropped shuts
\* the socket down.
Unroute ==
    /\ At("unroute") /\ ~connHeld
    /\ conn' = None
    /\ shut' = shut \cup ({conn} \ {None})
    /\ IF host.why = "fresh"
       THEN Fail
       ELSE /\ Goto(IF host.why = "reuse" THEN "spawn" ELSE "kill")
            /\ UNCHANGED <<backing, result>>
    /\ UNCHANGED <<disk, procVars, connHeld, pending, reader, answer, inbox,
                   outbox, status, floor>>

-----------------------------------------------------------------------------
(* `spawn_and_connect` and `attach_connection`. *)

\* Not installed, unreadable manifest or incompatible API: an early return,
\* before the old process is touched.
SpawnRefused ==
    /\ At("spawn")
    /\ Fail
    /\ UNCHANGED <<disk, procVars, conn, connHeld, netVars, status, floor>>

\* Mutant of Killed: the entry leaves `children` and nothing is killed.
KilledForgets(f) == f

\* Mutant of Killed: killed but not waited for.
KilledUnreaped(f) ==
    IF child = None THEN f ELSE [f EXCEPT ![child] = "zombie"]

\* kill_child: kill and wait for the process in `children`, if any.
Killed(f) == IF child = None THEN f ELSE [f EXCEPT ![child] = "dead"]

\* The old process is killed, and only then is the new one spawned.
Spawn ==
    /\ At("spawn")
    /\ \E p \in Procs :
         /\ proc[p] = "unborn" /\ \A q \in 1 .. (p - 1) : proc[q] # "unborn"
         /\ proc' = [Killed(proc) EXCEPT ![p] = "starting"]
         /\ version' = [version EXCEPT ![p] = disk]
         /\ child' = p
    /\ socket' = None
    /\ Goto("poll")
    /\ UNCHANGED <<disk, conn, connHeld, backing, netVars, status, result,
                   floor>>

\* The binary cannot be executed: the old process is already gone.
SpawnFails ==
    /\ At("spawn")
    /\ proc' = Killed(proc)
    /\ child' = None /\ socket' = None
    /\ Fail
    /\ UNCHANGED <<disk, version, conn, connHeld, netVars, status, floor>>

\* Mutant of PollGivesUp: the poll has no deadline.
PollForever ==
    /\ At("poll") /\ socket = None /\ ~Alive(child)
    /\ proc' = Killed(proc)
    /\ child' = None
    /\ Fail
    /\ UNCHANGED <<disk, version, socket, conn, connHeld, netVars, status,
                   floor>>

\* No socket within SPAWN_TIMEOUT (the child is killed), or the child was
\* seen to exit first: either way it leaves `children`.
PollGivesUp ==
    /\ At("poll") /\ socket = None
    /\ proc' = Killed(proc)
    /\ child' = None
    /\ Fail
    /\ UNCHANGED <<disk, version, socket, conn, connHeld, netVars, status,
                   floor>>

Handshake ==
    /\ At("poll") /\ socket # None
    /\ proc[socket] = "bound"
    /\ proc' = [proc EXCEPT ![socket] = "serving"]
    /\ Goto("attach")
    /\ UNCHANGED <<disk, version, socket, child, conn, connHeld, backing,
                   netVars, status, result, floor>>

\* Refused, version mismatch or timeout: the child stays in `children`.
HandshakeFails ==
    /\ At("poll") /\ socket # None
    /\ Fail
    /\ UNCHANGED <<disk, procVars, conn, connHeld, netVars, status, floor>>

Attach ==
    /\ At("attach") /\ ~connHeld
    /\ conn' = child
    /\ reader' = [reader EXCEPT ![child] = "running"]
    /\ host' = [host EXCEPT !.pc = "send", !.to = child, !.why = "fresh"]
    /\ UNCHANGED <<disk, procVars, connHeld, backing, pending, answer, inbox,
                   outbox, shut, status, result, floor>>

-----------------------------------------------------------------------------
(* `drop_running`: forget the connection, then kill the process. *)

\* Mutants of BeginReload: the process dies while calls are still routed to
\* it; an extension with a connection is left alone.
BeginReloadKillsFirst ==
    /\ At("idle")
    /\ host' = [host EXCEPT !.pc = "kill", !.why = "reload"]
    /\ UNCHANGED <<disk, procVars, conn, connHeld, backing, netVars, status,
                   result, floor>>

BeginReloadSkipsLive ==
    /\ At("idle")
    /\ host' = [host EXCEPT !.pc = IF conn = None THEN "unroute" ELSE "idle",
                            !.why = "reload"]
    /\ floor' = disk
    /\ UNCHANGED <<disk, procVars, conn, connHeld, backing, netVars, status,
                   result>>

BeginReload ==
    /\ At("idle")
    /\ host' = [host EXCEPT !.pc = "unroute", !.why = "reload"]
    /\ UNCHANGED <<disk, procVars, conn, connHeld, backing, netVars, status,
                   result, floor>>

ReloadKills ==
    /\ At("kill")
    /\ proc' = Killed(proc)
    /\ child' = None
    /\ floor' = disk
    /\ Goto("idle")
    /\ UNCHANGED <<disk, version, socket, conn, connHeld, backing, netVars,
                   status, result>>

-----------------------------------------------------------------------------
(* The reader thread of a connection. *)

\* The rpc in flight on p, if any, gets its answer.
Resolve(p, echo, ok) ==
    /\ pending' = [pending EXCEPT ![p] = None]
    /\ answer' = IF pending[p] = None
                 THEN answer
                 ELSE [to |-> pending[p], echo |-> echo, ok |-> ok]

ReadFrame(p) ==
    /\ reader[p] = "running" /\ outbox[p] # <<>>
    /\ outbox' = [outbox EXCEPT ![p] = Tail(@)]
    /\ LET frame == Head(outbox[p]) IN
         IF frame.kind = "response"
         THEN Resolve(p, frame.req, frame.ok)
         ELSE UNCHANGED <<pending, answer>>     \* published on the bus
    /\ UNCHANGED <<disk, procVars, conn, connHeld, backing, host, reader,
                   inbox, shut, status, result, floor>>

\* read_frame fails and the thread exits: the peer closed, or
ReaderEof(p) ==
    /\ reader[p] = "running" /\ outbox[p] = <<>>
    /\ ~Alive(p) \/ p \in shut
    /\ reader' = [reader EXCEPT ![p] = "exited"]
    /\ Resolve(p, None, FALSE)
    /\ UNCHANGED <<disk, procVars, conn, connHeld, backing, host, inbox,
                   outbox, shut, status, result, floor>>

\* nothing arrived for IO_TIMEOUT: the handshake's read timeout is a property
\* of the socket and is never cleared.
ReaderIdleTimeout(p) ==
    /\ reader[p] = "running" /\ outbox[p] = <<>>
    /\ Alive(p) /\ p \notin shut
    /\ reader' = [reader EXCEPT ![p] = "exited"]
    /\ Resolve(p, None, FALSE)
    /\ UNCHANGED <<disk, procVars, conn, connHeld, backing, host, inbox,
                   outbox, shut, status, result, floor>>

-----------------------------------------------------------------------------
(* The extension process and its environment. *)

Bind(p) ==
    /\ proc[p] = "starting"
    /\ proc' = [proc EXCEPT ![p] = "bound"]
    /\ socket' = p
    /\ UNCHANGED <<disk, version, child, conn, connHeld, backing, host,
                   netVars, status, result, floor>>

Serve(p) ==
    /\ proc[p] = "serving" /\ p \notin shut /\ inbox[p] # <<>>
    /\ inbox' = [inbox EXCEPT ![p] = Tail(@)]
    /\ \E ok \in BOOLEAN :
         outbox' = [outbox EXCEPT ![p] = Append(@, Reply(Head(inbox[p]), ok))]
    /\ UNCHANGED <<disk, procVars, conn, connHeld, backing, host, pending,
                   reader, answer, shut, status, result, floor>>

EmitEvent(p) ==
    /\ proc[p] = "serving" /\ p \notin shut
    /\ Len(SelectSeq(outbox[p], LAMBDA f : f.kind = "event")) < MaxEvents
    /\ outbox' = [outbox EXCEPT ![p] = Append(@, Event)]
    /\ UNCHANGED <<disk, procVars, conn, connHeld, backing, host, pending,
                   reader, answer, inbox, shut, status, result, floor>>

\* A crash, an exit before binding, or the end of drive_loop on EOF.
Exit(p) ==
    /\ Alive(p)
    /\ proc' = [proc EXCEPT ![p] = "dead"]
    /\ UNCHANGED <<disk, version, socket, child, conn, connHeld, backing, host,
                   netVars, status, result, floor>>

Install ==
    /\ disk < MaxInstalls
    /\ disk' = disk + 1
    /\ UNCHANGED <<procVars, conn, connHeld, backing, host, netVars, status,
                   result, floor>>

BackoffExpires ==
    /\ backing /\ backing' = FALSE
    /\ UNCHANGED <<disk, procVars, conn, connHeld, host, netVars, status,
                   result, floor>>

-----------------------------------------------------------------------------
(* `live_state`, called by the control thread for `extension status`. *)

Say(s) == status' = [pc |-> "idle", said |-> s]

StatusFailures ==
    /\ status.pc = "idle"
    /\ IF backing THEN Say("backing_off")
                  ELSE status' = [status EXCEPT !.pc = "connections"]
    /\ UNCHANGED <<disk, procVars, conn, connHeld, backing, host, netVars,
                   result, floor>>

StatusConnections ==
    /\ status.pc = "connections" /\ ~connHeld
    /\ IF conn # None THEN Say("live")
                      ELSE status' = [status EXCEPT !.pc = "children"]
    /\ UNCHANGED <<disk, procVars, conn, connHeld, backing, host, netVars,
                   result, floor>>

StatusChildren ==
    /\ status.pc = "children"
    /\ Say(IF child # None THEN "live" ELSE "idle")
    /\ UNCHANGED <<disk, procVars, conn, connHeld, backing, host, netVars,
                   result, floor>>

-----------------------------------------------------------------------------
HostStep ==
    \/ Lookup \/ WriteRequest \/ WriteFails \/ ReceiveAnswer \/ RpcTimeout
    \/ Unroute \/ SpawnRefused \/ Spawn \/ SpawnFails \/ PollGivesUp
    \/ Handshake \/ HandshakeFails \/ Attach \/ ReloadKills

ReaderStep(p) == ReadFrame(p) \/ ReaderEof(p) \/ ReaderIdleTimeout(p)

StatusStep == StatusConnections \/ StatusChildren

Next ==
    \/ BeginCall \/ BeginReload \/ HostStep
    \/ \E p \in Procs : ReaderStep(p) \/ Bind(p) \/ Serve(p) \/ EmitEvent(p)
                        \/ Exit(p)
    \/ Install \/ BackoffExpires \/ StatusFailures \/ StatusStep

Spec == Init /\ [][Next]_vars

\* The daemon's own threads are scheduled; extension processes, installs and
\* clients owe nothing.
Fairness ==
    /\ WF_vars(HostStep) /\ WF_vars(StatusStep)
    /\ \A p \in Procs : WF_vars(ReaderStep(p))

FairSpec == Spec /\ Fairness

-----------------------------------------------------------------------------
(* Properties. *)

Frames == [kind : {"response", "event"}, req : Requests \cup {None},
           ok : BOOLEAN]

ProcessTypes ==
    /\ disk \in Nat /\ floor \in Nat
    /\ proc \in [Procs -> {"unborn", "starting", "bound", "serving", "dead"}]
    /\ version \in [Procs -> Nat]
    /\ socket \in Procs \cup {None} /\ child \in Procs \cup {None}

HostTypes ==
    /\ conn \in Procs \cup {None}
    /\ connHeld \in BOOLEAN /\ backing \in BOOLEAN
    /\ host \in [pc : {"idle", "lookup", "send", "wait", "unroute", "spawn",
                       "poll", "attach", "kill"},
                 req : Requests \cup {None}, to : Procs \cup {None},
                 why : {"call", "reuse", "fresh", "reload"}]
    /\ result \in [req : Requests \cup {None}, ok : BOOLEAN,
                   echo : Requests \cup {None}, from : Procs \cup {None}]

ConnectionTypes ==
    /\ pending \in [Procs -> Requests \cup {None}]
    /\ reader \in [Procs -> {"none", "running", "exited"}]
    /\ answer \in [to : Requests \cup {None}, echo : Requests \cup {None},
                   ok : BOOLEAN]
    /\ inbox \in [Procs -> Seq(Requests \cup {None})]
    /\ outbox \in [Procs -> Seq(Frames)]
    /\ shut \subseteq Procs

StatusTypes ==
    status \in [pc : {"idle", "connections", "children"},
                said : {"idle", "live", "backing_off"}]

TypeOK == ProcessTypes /\ HostTypes /\ ConnectionTypes /\ StatusTypes

\* No process leaks: one that still runs is the one in `children`, which the
\* next spawn, the next reload or the registry's Drop kills. In particular
\* two processes of one extension never run side by side.
NoStrayProcess == \A p \in Procs : Alive(p) => p = child

\* Calls are never routed to a process the registry has already let go of:
\* the connection in the map always belongs to the process in `children`.
RoutedIsChild == conn # None => conn = child

\* A call never returns another call's answer, although a late answer to a
\* request that timed out may still be on its way when the next one is sent.
AnswerBelongsToCall == result.ok => result.echo = result.req

\* "next host call will use the binary on disk" (registry.rs:310): once
\* drop_running has returned, no call succeeds against a process started from
\* an older package than the one on disk at that moment.
ReloadServesNewBinary ==
    [][result' # result /\ result'.ok => version[result'.from] >= floor]_vars

\* A call that spawns the extension returns, whatever the process does:
\* exits, never binds, hangs in the handshake, never answers.
SpawnedCallReturns == At("spawn") ~> At("idle")

\* Every call returns (registry.rs:539, "fails instead of hanging").
CallReturns == ~At("idle") ~> At("idle")

\* A second call reuses the live connection (registry.rs:500): between calls
\* a connection whose process serves has a thread reading its answers.
LiveConnectionIsRead ==
    At("idle") /\ conn # None /\ proc[conn] = "serving"
        => reader[conn] = "running"

=============================================================================
