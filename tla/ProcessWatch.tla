---------------------------- MODULE ProcessWatch ----------------------------
(***************************************************************************)
(* Whether a process runs, from the kernel to the bar: the extension       *)
(* `process` (extensions/process/src/main.rs) listens to the kernel's      *)
(* process events, counts processes by name and emits a flip when a name   *)
(* gets its first process or loses its last; the module `process`          *)
(* (modules/process/src/lib.rs) shows the latest flip of its name, or asks *)
(* when there is none. The queue between them (EventHub) keeps the order   *)
(* and drops the oldest flip when it is full.                              *)
(*                                                                         *)
(* A process whose exit was reported stays in /proc with its name until    *)
(* its parent has waited for it: a zombie.                                 *)
(***************************************************************************)
EXTENDS Integers, Sequences, SequencesExt, FiniteSets, Functions

CONSTANTS
    Pids,           \* process ids (group leaders; threads are filtered out)
    Names,          \* names (comm) of processes
    Target,         \* the name the module is configured for
    None,           \* no process, no name
    MaxEvents,      \* length of the netlink socket's buffer
    MaxQueueLen,    \* length of the instance's queue
    MaxChanges,     \* bound on what processes do, and
    MaxConnected    \* the same, once the daemon has been connected

ASSUME WatchAssumption ==
    /\ Target \in Names /\ None \notin Names
    /\ IsFiniteSet(Pids)
    /\ MaxEvents \in Nat /\ MaxQueueLen \in Nat

VARIABLES
    proc,       \* /proc: the name of each process, or None
    zombies,    \* processes that have exited and are still listed there
    net,        \* events in the netlink socket
    overrun,    \* the socket has lost an event
    pc,         \* the watcher thread: "closed", "seeding" or "running"
    listed,     \* what seed_from_proc has listed and not read yet
    pids,       \* the tracker: name by pid
    counts,     \* the tracker: number of pids by name
    queue,      \* flips for the module
    link,       \* the daemon's connection: "none", "up", "lost" (its reader thread
                \* has ended) or "hung" (the main loop waits for its own mutex)
    last,       \* LAST_RUNNING: None or a boolean
    shown,      \* what the bar shows; None for an error, or nothing yet
    changes,
    told,       \* history: what the flips and the seed say of each name
    ghosts,     \* history: zombies when the watcher began to listen
    copied      \* history: forked since then, under the name of the parent

kernel == <<proc, zombies, changes, ghosts, copied>>
module == <<link, last, shown>>
vars == <<kernel, net, overrun, pc, listed, pids, counts, queue, module, told>>

Living == {p \in Pids : proc[p] # None} \ zombies

\* process_running: what /proc says, zombies included.
Running(name) == \E p \in Pids : proc[p] = name

\* What the latest of the flips of a name says; otherwise, if there is none.
Latest(flips, name, otherwise) ==
    LET about == {k \in DOMAIN flips : flips[k].name = name}
    IN  IF about = {} THEN otherwise ELSE flips[Max(about)].running

Init ==
    /\ proc \in [Pids -> Names \cup {None}]
    /\ zombies \in SUBSET {p \in Pids : proc[p] # None}
    /\ net = <<>> /\ overrun = FALSE
    /\ pc = "closed" /\ listed = {}
    /\ pids = <<>> /\ counts = [n \in Names |-> 0]
    /\ queue = <<>>
    /\ link \in {"none", "up"} /\ last = None /\ shown = None
    /\ changes = 0 /\ told = [n \in Names |-> FALSE]
    /\ ghosts = {} /\ copied = {}

-----------------------------------------------------------------------------
(* The kernel. *)

Event(what, p, from, name) == [what |-> what, pid |-> p, parent |-> from, name |-> name]

\* A process event is lost when the buffer of the socket is full.
Send(e) ==
    /\ changes < IF link = "none" THEN MaxChanges ELSE MaxConnected
    /\ changes' = changes + 1
    /\ IF pc = "closed" THEN UNCHANGED <<net, overrun>>
       ELSE IF Len(net) < MaxEvents THEN net' = Append(net, e) /\ UNCHANGED overrun
       ELSE overrun' = TRUE /\ UNCHANGED net
    /\ UNCHANGED <<pc, listed, pids, counts, queue, module, told>>

Fork == \E p \in Living, c \in Pids :
    /\ proc[c] = None
    /\ proc' = [proc EXCEPT ![c] = proc[p]]
    /\ ghosts' = ghosts \ {c} /\ copied' = copied \cup {c}
    /\ Send(Event("fork", c, p, None))
    /\ UNCHANGED zombies

Exec == \E p \in Living, n \in Names :
    /\ proc' = [proc EXCEPT ![p] = n]
    /\ copied' = copied \ {p}
    /\ Send(Event("exec", p, None, None))
    /\ UNCHANGED <<zombies, ghosts>>

SetComm == \E p \in Living, n \in Names :
    /\ proc[p] # n
    /\ proc' = [proc EXCEPT ![p] = n]
    /\ copied' = copied \ {p}
    /\ Send(Event("comm", p, None, n))
    /\ UNCHANGED <<zombies, ghosts>>

Exit == \E p \in Living :
    /\ zombies' = zombies \cup {p}
    /\ Send(Event("exit", p, None, None))
    /\ UNCHANGED <<proc, ghosts, copied>>

\* The parent waits for the process; there is no event for that.
Reap == \E p \in zombies :
    /\ zombies' = zombies \ {p}
    /\ proc' = [proc EXCEPT ![p] = None]
    /\ UNCHANGED <<changes, ghosts, copied, net, overrun, pc, listed, pids, counts,
                   queue, module, told>>

-----------------------------------------------------------------------------
(* ProcessTracker. A tracker t has pids and counts, and the flips it gave. *)

\* Mutant of Bump: a name whose count goes from two to one is reported gone.
BumpEarly(t, name, delta) ==
    LET before == t.counts[name]
        after  == before + delta
    IN  [t EXCEPT !.counts[name] = after,
                  !.flips = IF before = 0 THEN Append(@, [name |-> name, running |-> TRUE])
                            ELSE IF delta < 0 THEN Append(@, [name |-> name, running |-> FALSE])
                            ELSE @]

\* bump: a count below zero is set to zero, without a flip.
Bump(t, name, delta) ==
    LET before == t.counts[name]
        after  == before + delta
    IN  IF after < 0 THEN [t EXCEPT !.counts[name] = 0]
        ELSE [t EXCEPT !.counts[name] = after,
                       !.flips = IF before = 0 /\ after > 0
                                 THEN Append(@, [name |-> name, running |-> TRUE])
                                 ELSE IF before > 0 /\ after = 0
                                 THEN Append(@, [name |-> name, running |-> FALSE])
                                 ELSE @]

Put(t, p, name) ==
    [t EXCEPT !.pids = [q \in DOMAIN @ \cup {p} |-> IF q = p THEN name ELSE @[q]]]

\* rename of a pid that is tracked, and appear of one that is not.
Named(t, p, name) ==
    IF p \notin DOMAIN t.pids THEN Bump(Put(t, p, name), name, 1)
    ELSE IF t.pids[p] = name THEN t
    ELSE Bump(Put(Bump(t, t.pids[p], -1), p, name), name, 1)

Disappear(t, p) ==
    IF p \notin DOMAIN t.pids THEN t
    ELSE Bump([t EXCEPT !.pids = Restrict(@, DOMAIN @ \ {p})], t.pids[p], -1)

Tracker == [pids |-> pids, counts |-> counts, flips |-> <<>>]

\* The name of a new process: as far as it is known that of its parent.
ForkName(t, e) ==
    IF e.parent \in DOMAIN t.pids THEN t.pids[e.parent]
    ELSE IF proc[e.pid] # None THEN proc[e.pid] ELSE proc[e.parent]

\* Mutant of HandleEvent: a process that is gone by now is forgotten.
HandleAlive(t, e) == IF proc[e.pid] = None THEN t ELSE Named(t, e.pid, proc[e.pid])

\* handle_proc_event. The names of an exec and of an unknown parent are read
\* when the event is handled.
HandleEvent(t, e) ==
    CASE e.what = "fork" -> IF ForkName(t, e) = None THEN t ELSE Named(t, e.pid, ForkName(t, e))
      [] e.what = "exec" -> IF proc[e.pid] = None THEN t ELSE Named(t, e.pid, proc[e.pid])
      [] e.what = "comm" -> Named(t, e.pid, e.name)
      [] e.what = "exit" -> Disappear(t, e.pid)

-----------------------------------------------------------------------------
(* The watcher thread. *)

Track(t) == pids' = t.pids /\ counts' = t.counts

\* open_proc_connector, and the listing of /proc; the flips of the seed are
\* not emitted.
Listen ==
    /\ pc = "closed"
    /\ pc' = "seeding"
    /\ net' = <<>> /\ overrun' = FALSE
    /\ listed' = {p \in Pids : proc[p] # None}
    /\ Track([pids |-> <<>>, counts |-> [n \in Names |-> 0]])
    /\ told' = [n \in Names |-> FALSE]
    /\ ghosts' = zombies /\ copied' = {}
    /\ UNCHANGED <<proc, zombies, changes, queue, module>>

SeedPid ==
    /\ pc = "seeding"
    /\ \E p \in listed :
        /\ listed' = listed \ {p}
        /\ LET t == IF proc[p] = None THEN Tracker ELSE Named(Tracker, p, proc[p])
           IN  Track(t) /\ told' = [n \in Names |-> t.counts[n] > 0]
    /\ UNCHANGED <<kernel, net, overrun, pc, queue, module>>

Seeded ==
    /\ pc = "seeding" /\ listed = {}
    /\ pc' = "running"
    /\ UNCHANGED <<kernel, net, overrun, listed, pids, counts, queue, module, told>>

\* EventHub: the newest flips stay.
Newest(q) == IF Len(q) =< MaxQueueLen THEN q
             ELSE SubSeq(q, Len(q) - MaxQueueLen + 1, Len(q))

\* One turn of watch_running_changes: an event is handled and its flips go out.
\* They reach the module while the daemon reads the connection.
Receive ==
    /\ pc = "running" /\ net # <<>>
    /\ LET t == HandleEvent(Tracker, Head(net))
       IN  /\ Track(t)
           /\ queue' = IF link = "up" THEN Newest(queue \o t.flips) ELSE queue
           /\ told' = [n \in Names |-> Latest(t.flips, n, told[n])]
    /\ net' = Tail(net)
    /\ UNCHANGED <<kernel, overrun, pc, listed, module>>

\* recv reports the loss: the watcher starts again a second later.
ReceiveFails ==
    /\ pc = "running" /\ overrun
    /\ pc' = "closed"
    /\ net' = <<>>
    /\ UNCHANGED <<kernel, overrun, listed, pids, counts, queue, module, told>>

-----------------------------------------------------------------------------
(* The module, and the connection of the daemon. *)

\* The reader thread ends after two seconds of silence, and the connection
\* stays in the map (src/extension/client.rs).
ReaderEnds ==
    /\ link = "up" /\ link' = "lost"
    /\ UNCHANGED <<kernel, net, overrun, pc, listed, pids, counts, queue, last,
                   shown, told>>

Shows(running) == last' = running /\ shown' = running

\* running_via_rpc: is-running looks through /proc. Without a connection a new
\* process of the extension is started, or that fails: the error is shown, and what
\* was known is kept. A call that fails on a connection in use (for want of an
\* answer, or because that is an error) waits for a mutex that it holds itself
\* (src/extension/registry.rs), and on one that nobody reads it must fail.
Asks ==
    \/ /\ link = "none"
       /\ link' = "up" /\ pc' = "closed" /\ Shows(Running(Target))
    \/ /\ link = "none"
       /\ shown' = None /\ UNCHANGED <<link, pc, last>>
    \/ /\ link = "up"
       /\ Shows(Running(Target)) /\ UNCHANGED <<link, pc>>
    \/ /\ link \in {"up", "lost"}
       /\ link' = "hung" /\ UNCHANGED <<pc, last, shown>>

\* Mutant of Empty: an update that finds no flip shows what it knows.
EmptyKeeps ==
    /\ queue = <<>> /\ UNCHANGED queue
    /\ IF last = None THEN Asks ELSE Shows(last) /\ UNCHANGED <<link, pc>>

\* update without a flip, 300 s after the one before: the extension is asked.
Empty == queue = <<>> /\ UNCHANGED queue /\ Asks

\* update when it was woken: all flips are taken; those of other names only
\* are no reason to ask again.
Drain ==
    /\ queue # <<>>
    /\ queue' = <<>>
    /\ LET latest == Latest(queue, Target, last)
       IN  IF latest # None THEN Shows(latest) /\ UNCHANGED <<link, pc>> ELSE Asks

Update ==
    /\ link # "hung"
    /\ Empty \/ Drain
    /\ UNCHANGED <<kernel, net, overrun, listed, pids, counts, told>>

Watcher == Listen \/ SeedPid \/ Seeded \/ Receive \/ ReceiveFails

Next == \/ Fork \/ Exec \/ SetComm \/ Exit \/ Reap
        \/ Watcher \/ ReaderEnds \/ Update

Spec == Init /\ [][Next]_vars

\* The watcher thread runs, and the main loop, unless it hangs, updates a module
\* that is due; nobody makes processes start or end.
FairSpec == Spec /\ WF_vars(Watcher) /\ WF_vars(Update)

-----------------------------------------------------------------------------
(* Properties. *)

\* Types; the counts are those of the tracked pids, and what the flips have
\* told since the seed is what they say.
TypeOK ==
    /\ proc \in [Pids -> Names \cup {None}]
    /\ pc \in {"closed", "seeding", "running"}
    /\ DOMAIN pids \subseteq Pids /\ listed \subseteq Pids
    /\ Len(net) =< MaxEvents /\ Len(queue) =< MaxQueueLen
    /\ told \in [Names -> BOOLEAN]
    /\ \A n \in Names :
        /\ counts[n] = Cardinality({p \in DOMAIN pids : pids[p] = n})
        /\ told[n] <=> counts[n] > 0

\* When the watcher has caught up with the kernel and lost no event, it tracks
\* all processes that live, whatever they did while it read /proc, and no others
\* but those that were zombies when it began to listen, whose exit nobody reports
\* again. It has their names right, but for a process that has not set its name
\* since it was forked: that one goes by what the parent was called when the fork
\* was handled.
TracksTheLiving ==
    pc = "running" /\ net = <<>> /\ ~overrun =>
        /\ Living \subseteq DOMAIN pids
        /\ DOMAIN pids \subseteq Living \cup ghosts
        /\ \A p \in Living \ copied : pids[p] = proc[p]

\* Once processes stop to come, go and change their names, the bar ends up
\* showing what /proc says of the name, whatever flips were lost or overtaken, if
\* in the end the connection is up, is read and answers.
ShowsTheTruth == <>[](link = "up") => <>[](shown = Running(Target))
=============================================================================
